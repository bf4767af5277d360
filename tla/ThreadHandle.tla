---------------------------- MODULE ThreadHandle ----------------------------
(***************************************************************************)
(* A thread handle: the Thread object of async, thread and restart, the    *)
(* built-ins await, pause, resume, stop and restart that act on it, and    *)
(* the operating system threads that run its body.                         *)
(*                                                                         *)
(* A built-in reads and writes the flags of the handle one at a time, each *)
(* under state_lock, and reads the thrd_t without a lock; every such access*)
(* is a step.  A worker tests the flags between the statements of the      *)
(* body, which may run for ever.                                           *)
(*                                                                         *)
(* thrd_join of a thrd_t that was joined before, or never created, is      *)
(* undefined in C11; here it fails at once, as it does on a closed Windows *)
(* handle (win32_shim.h), and the callers ignore that.                     *)
(***************************************************************************)
EXTENDS Naturals, FiniteSets

CONSTANTS
  Callers,     \* interpreter threads that use the handle
  Owner,       \* the one that makes it
  MaxRuns,     \* bound: workers created
  MaxTimers,   \* bound: timers of pause pending at a time
  MaxCalls     \* bound: calls of built-ins

Builtins == {"await", "pause", "resume", "stop", "restart"}

ASSUME CallersAssumption == Owner \in Callers

ASSUME BoundsAssumption == MaxRuns \in Nat \ {0} /\ MaxTimers \in Nat /\ MaxCalls \in Nat

Runs == 1..MaxRuns

VARIABLES
  finished, paused, started,  \* the flags of the handle
  os,          \* its thrd_t: the last worker created, 0 before the first
  published,   \* the program has the handle
  deferred,    \* the call in progress is stop(async{...}) or pause(async{...})
  wpc,         \* where each worker is
  cpc,         \* where each caller is in a built-in or a thread statement
  target,      \* the thrd_t it joins
  joined,      \* the workers joined
  timers,      \* timers of pause that have not fired
  calls,       \* those entered
  since,       \* history: the last worker created when the caller's call began
  ordered,     \* history: the workers stop was called for
  raced        \* history: a restart has run into another one or into a stop

flags == <<finished, paused, started>>
handle == <<os, published, deferred, timers>>
callers == <<cpc, target, joined, calls, since>>
history == <<ordered, raced>>
vars == <<flags, handle, callers, wpc, history>>

Gate == {"gate", "gate_finished"}

InBody == Gate \cup {"test", "body"}

WorkerLocs == {"none", "finishing", "exiting", "ended"} \cup InBody

\* stop has marked the handle finished and has not joined the worker yet.
StopWindow == {"stop_started", "stop_join", "stop_joining"}

\* restart has found the handle finished for the second time, or a thread statement
\* has made it, and the worker is not created yet.
StartWindow == {"restart_clear", "restart_unpause", "set_started", "create"}

\* A caller that enters a built-in is at its name.
CallerLocs ==
  {"idle", "await_spin", "join", "joining", "pause_paused", "pause_set",
   "pause_timer", "resume_set", "stop_unpause", "stop_finish", "restart_recheck",
   "start_deferred", "mark_started"} \cup StopWindow \cup StartWindow \cup Builtins

\* The handle is new: bound by thread(symbol){...} before its worker starts, not
\* yet returned by async{...}, or the argument of stop or pause.
Init ==
  /\ finished = FALSE /\ paused = FALSE /\ started = FALSE
  /\ os = 0 /\ timers = 0
  /\ wpc = [k \in Runs |-> "none"]
  /\ \/ /\ published \in BOOLEAN /\ deferred = FALSE
        /\ cpc = [c \in Callers |-> IF c = Owner THEN "set_started" ELSE "idle"]
     \/ /\ published = FALSE /\ deferred = TRUE
        /\ \E op \in {"stop", "pause"} :
             cpc = [c \in Callers |-> IF c = Owner THEN op ELSE "idle"]
  /\ target = [c \in Callers |-> 0]
  /\ joined = {}
  /\ calls = 0
  /\ since = [c \in Callers |-> 0]
  /\ ordered = {} /\ raced = FALSE

-----------------------------------------------------------------------------
(* Calls. *)

Goto(c, loc) == cpc' = [cpc EXCEPT ![c] = loc]

\* A call on an argument async{...} is followed by the start of its worker.
Return(c) == Goto(c, IF deferred THEN "start_deferred" ELSE "idle")

At(c, loc) == cpc[c] = loc /\ UNCHANGED <<target, joined, calls, since>>

Enter(c) ==
  /\ cpc[c] = "idle"
  /\ published
  /\ calls < MaxCalls
  /\ calls' = calls + 1
  /\ since' = [since EXCEPT ![c] = os]
  /\ \E op \in Builtins : Goto(c, op)
  /\ UNCHANGED <<flags, handle, target, joined, wpc, history>>

-----------------------------------------------------------------------------
(* await. *)

Await(c) ==
  /\ At(c, "await")
  /\ IF started THEN Goto(c, "await_spin") ELSE Return(c)
  /\ UNCHANGED <<flags, handle, wpc, history>>

\* Mutant of AwaitSpin: the worker is not joined.
AwaitUnjoined(c) ==
  /\ At(c, "await_spin")
  /\ finished
  /\ Return(c)
  /\ UNCHANGED <<flags, handle, wpc, history>>

AwaitSpin(c) ==
  /\ At(c, "await_spin")
  /\ finished
  /\ Goto(c, "join")
  /\ UNCHANGED <<flags, handle, wpc, history>>

\* thrd_join is called with the thrd_t, and returns, in await as in stop.
Join(c) ==
  /\ \/ cpc[c] = "join" /\ Goto(c, "joining")
     \/ cpc[c] = "stop_join" /\ Goto(c, "stop_joining")
  /\ target' = [target EXCEPT ![c] = os]
  /\ UNCHANGED <<flags, handle, joined, calls, since, wpc, history>>

Joined(c) ==
  /\ cpc[c] \in {"joining", "stop_joining"}
  /\ target[c] \in Runs \ joined => wpc[target[c]] = "ended"
  /\ joined' = joined \cup ({target[c]} \cap Runs)
  /\ Return(c)
  /\ UNCHANGED <<flags, handle, target, calls, since, wpc, history>>

-----------------------------------------------------------------------------
(* pause and resume. *)

\* A finished thread cannot be paused, nor a paused one.
Pause(c) ==
  /\ At(c, "pause")
  /\ IF finished THEN Return(c) ELSE Goto(c, "pause_paused")
  /\ UNCHANGED <<flags, handle, wpc, history>>

\* The seconds, if given, may be of a wrong type.
PausePaused(c) ==
  /\ At(c, "pause_paused")
  /\ Return(c) \/ (~paused /\ Goto(c, "pause_set"))
  /\ UNCHANGED <<flags, handle, wpc, history>>

\* With seconds or without.
PauseSet(c) ==
  /\ At(c, "pause_set")
  /\ paused' = TRUE
  /\ Return(c) \/ Goto(c, "pause_timer")
  /\ UNCHANGED <<finished, started, handle, wpc, history>>

\* The timer's thread is created, or cannot be.
PauseTimer(c) ==
  /\ At(c, "pause_timer")
  /\ \/ timers < MaxTimers /\ timers' = timers + 1 /\ UNCHANGED paused
     \/ paused' = FALSE /\ UNCHANGED timers
  /\ Return(c)
  /\ UNCHANGED <<finished, started, os, published, deferred, wpc, history>>

TimerFires ==
  /\ timers > 0
  /\ timers' = timers - 1
  /\ paused' = FALSE
  /\ UNCHANGED <<finished, started, os, published, deferred, callers, wpc, history>>

Resume(c) ==
  /\ At(c, "resume")
  /\ IF paused THEN Goto(c, "resume_set") ELSE Return(c)
  /\ UNCHANGED <<flags, handle, wpc, history>>

ResumeSet(c) ==
  /\ At(c, "resume_set")
  /\ paused' = FALSE
  /\ Return(c)
  /\ UNCHANGED <<finished, started, handle, wpc, history>>

-----------------------------------------------------------------------------
(* stop and restart. *)

\* Another caller is at one of the locations.
Overlaps(c, locs) == \E d \in Callers \ {c} : cpc[d] \in locs

Stop(c) ==
  /\ At(c, "stop")
  /\ IF finished THEN Return(c) ELSE Goto(c, "stop_unpause")
  /\ UNCHANGED <<flags, handle, wpc, history>>

StopUnpause(c) ==
  /\ At(c, "stop_unpause")
  /\ paused' = FALSE
  /\ Goto(c, "stop_finish")
  /\ UNCHANGED <<finished, started, handle, wpc, history>>

\* value_thread_set_finished also clears paused.
StopFinish(c) ==
  /\ At(c, "stop_finish")
  /\ finished' = TRUE /\ paused' = FALSE
  /\ ordered' = ordered \cup ({os} \cap Runs)
  /\ raced' = (raced \/ Overlaps(c, StartWindow))
  /\ Goto(c, "stop_started")
  /\ UNCHANGED <<started, handle, wpc>>

StopStarted(c) ==
  /\ At(c, "stop_started")
  /\ IF started THEN Goto(c, "stop_join") ELSE Return(c)
  /\ UNCHANGED <<flags, handle, wpc, history>>

\* Mutant of Restart: a running thread is restarted.
RestartUnchecked(c) ==
  /\ At(c, "restart")
  /\ Goto(c, "restart_clear")
  /\ UNCHANGED <<flags, handle, wpc, history>>

\* A running thread cannot be restarted; this is tested twice.
Restart(c) ==
  /\ At(c, "restart")
  /\ IF finished THEN Goto(c, "restart_recheck") ELSE Return(c)
  /\ UNCHANGED <<flags, handle, wpc, history>>

RestartRecheck(c) ==
  /\ At(c, "restart_recheck")
  /\ \/ finished /\ Goto(c, "restart_clear")
        /\ raced' = (raced \/ Overlaps(c, StartWindow \cup StopWindow))
     \/ ~finished /\ Return(c) /\ UNCHANGED raced
  /\ UNCHANGED <<flags, handle, wpc, ordered>>

\* Mutant of RestartClear: the flag is left as it is.
RestartUncleared(c) ==
  /\ At(c, "restart_clear")
  /\ Goto(c, "restart_unpause")
  /\ UNCHANGED <<flags, handle, wpc, history>>

RestartClear(c) ==
  /\ At(c, "restart_clear")
  /\ finished' = FALSE
  /\ Goto(c, "restart_unpause")
  /\ UNCHANGED <<paused, started, handle, wpc, history>>

RestartUnpause(c) ==
  /\ At(c, "restart_unpause")
  /\ paused' = FALSE
  /\ Goto(c, "set_started")
  /\ UNCHANGED <<finished, started, handle, wpc, history>>

-----------------------------------------------------------------------------
(* The start of a worker. *)

SetStarted(c) ==
  /\ At(c, "set_started")
  /\ started' = TRUE
  /\ Goto(c, "create")
  /\ UNCHANGED <<finished, paused, handle, wpc, history>>

\* thrd_create succeeds, or fails and the handle is finished.
NewWorker ==
  /\ os < MaxRuns
  /\ os' = os + 1
  /\ wpc' = [wpc EXCEPT ![os + 1] = "gate"]
  /\ UNCHANGED flags

NoWorker ==
  /\ finished' = TRUE /\ paused' = FALSE
  /\ UNCHANGED <<started, os, wpc>>

\* async{...} and thread(symbol){...}, and restart.
Create(c) ==
  /\ At(c, "create")
  /\ \/ NewWorker /\ published' = TRUE
     \/ NoWorker /\ UNCHANGED published
  /\ Goto(c, "idle")
  /\ UNCHANGED <<deferred, timers, history>>

\* After stop(async{...}) or pause(async{...}): a finished handle is not started.
StartDeferred(c) ==
  /\ At(c, "start_deferred")
  /\ deferred' = FALSE
  /\ \/ finished /\ Goto(c, "idle") /\ published' = TRUE /\ UNCHANGED <<flags, os, wpc>>
     \/ ~finished /\ NewWorker /\ Goto(c, "mark_started") /\ UNCHANGED published
     \/ ~finished /\ NoWorker /\ Goto(c, "idle") /\ UNCHANGED published
  /\ UNCHANGED <<timers, history>>

MarkStarted(c) ==
  /\ At(c, "mark_started")
  /\ started' = TRUE
  /\ published' = TRUE
  /\ Goto(c, "idle")
  /\ UNCHANGED <<finished, paused, os, deferred, timers, wpc, history>>

-----------------------------------------------------------------------------
(* A worker. *)

Move(k, from, to) == wpc[k] = from /\ wpc' = [wpc EXCEPT ![k] = to]

WorkerOnly == UNCHANGED <<handle, callers, history>>

\* wait_if_paused: while the handle is paused...
WaitIfPaused(k) ==
  /\ Move(k, "gate", IF paused THEN "gate_finished" ELSE "test")
  /\ UNCHANGED flags /\ WorkerOnly

\* Mutant of WaitIfFinished: a stop does not end the wait.
WaitOn(k) ==
  /\ Move(k, "gate_finished", "gate")
  /\ UNCHANGED flags /\ WorkerOnly

\* ...and not finished.
WaitIfFinished(k) ==
  /\ Move(k, "gate_finished", IF finished THEN "test" ELSE "gate")
  /\ UNCHANGED flags /\ WorkerOnly

\* interpreter_thr_should_stop: the statement is executed unless the handle is
\* finished; then it is skipped, like those after it.
Execute(k) ==
  /\ ~finished /\ Move(k, "test", "body")
  /\ UNCHANGED flags /\ WorkerOnly

Skip(k) ==
  /\ finished /\ Move(k, "test", "gate")
  /\ UNCHANGED flags /\ WorkerOnly

SkipLast(k) ==
  /\ finished /\ Move(k, "test", "finishing")
  /\ UNCHANGED flags /\ WorkerOnly

\* The statement ends, and was the last or not.
EndStatement(k) ==
  /\ Move(k, "body", "gate") \/ Move(k, "body", "finishing")
  /\ UNCHANGED flags /\ WorkerOnly

Finish(k) ==
  /\ Move(k, "finishing", "exiting")
  /\ finished' = TRUE /\ paused' = FALSE
  /\ UNCHANGED started /\ WorkerOnly

Exit(k) ==
  /\ Move(k, "exiting", "ended")
  /\ UNCHANGED flags /\ WorkerOnly

-----------------------------------------------------------------------------
CallerStep(c) ==
  \/ Await(c) \/ AwaitSpin(c) \/ Join(c) \/ Joined(c)
  \/ Pause(c) \/ PausePaused(c) \/ PauseSet(c) \/ PauseTimer(c)
  \/ Resume(c) \/ ResumeSet(c)
  \/ Stop(c) \/ StopUnpause(c) \/ StopFinish(c) \/ StopStarted(c)
  \/ Restart(c) \/ RestartRecheck(c) \/ RestartClear(c) \/ RestartUnpause(c)
  \/ SetStarted(c) \/ Create(c) \/ StartDeferred(c) \/ MarkStarted(c)

WorkerStep(k) ==
  \/ WaitIfPaused(k) \/ WaitIfFinished(k) \/ Execute(k) \/ Skip(k) \/ SkipLast(k)
  \/ EndStatement(k) \/ Finish(k) \/ Exit(k)

Next ==
  \/ \E c \in Callers : Enter(c) \/ CallerStep(c)
  \/ \E k \in Runs : WorkerStep(k)
  \/ TimerFires

Spec == Init /\ [][Next]_vars

\* Every thread is scheduled, a statement of a body ends, and a finished body has finitely
\* many statements left to skip.
Fairness ==
  /\ \A c \in Callers : WF_vars(CallerStep(c))
  /\ \A k \in Runs : WF_vars(WorkerStep(k)) /\ SF_vars(SkipLast(k))

FairSpec == Spec /\ Fairness

-----------------------------------------------------------------------------
(* Properties. *)

\* The workers that exist are those created so far, and the handle of one that
\* exists says so before another thread can see it.
TypeOK ==
  /\ finished \in BOOLEAN /\ paused \in BOOLEAN /\ started \in BOOLEAN
  /\ published \in BOOLEAN /\ deferred \in BOOLEAN
  /\ os \in 0..MaxRuns /\ timers \in 0..MaxTimers
  /\ wpc \in [Runs -> WorkerLocs] /\ cpc \in [Callers -> CallerLocs]
  /\ target \in [Callers -> 0..MaxRuns] /\ since \in [Callers -> 0..MaxRuns]
  /\ calls \in 0..MaxCalls
  /\ joined \subseteq Runs /\ ordered \subseteq Runs /\ raced \in BOOLEAN
  /\ \A k \in Runs : wpc[k] = "none" <=> k > os
  /\ published /\ os > 0 => started

\* Two workers execute the body of one handle only when a restart or a start, between
\* its last test of finished and its thrd_create, has overlapped another one, or a stop
\* between its mark and its join ("Cannot restart running thread", interpreter.c:4580).
OneWorker ==
  ~raced => \A k, l \in Runs : wpc[k] \in InBody /\ wpc[l] \in InBody => k = l

\* await and stop of a started thread return when every worker created before
\* the call has left the body, though other threads stop, restart, await, pause or
\* resume the same handle meanwhile, unless a restart has raced.
ReturnsAfterBody ==
  [][\A c \in Callers :
       ~raced /\ cpc[c] \in {"await_spin", "joining", "stop_joining"} /\ cpc'[c] = "idle" =>
         \A k \in 1..since[c] : wpc'[k] \in {"exiting", "ended"}]_vars

\* Nobody but a call of stop cuts a body short: the end of an earlier worker, and
\* an earlier stop, leave the worker a restart has started alone, unless they raced.
OnlyStopCuts ==
  [][\A k \in Runs :
       ~raced /\ wpc[k] = "test" /\ wpc'[k] \in {"gate", "finishing"} => k \in ordered]_vars

\* A stop returns, whether the thread runs or is parked, and though others pause
\* it again, stop it or await it meanwhile, unless a restart races with it.
StopReturns ==
  \A c \in Callers :
    cpc[c] \in {"stop", "stop_unpause", "stop_finish"} \cup StopWindow ~>
      cpc[c] = "idle" \/ raced

=============================================================================
