------------------------- MODULE ThreadHandleProofs -------------------------
(***************************************************************************)
(* Proofs about ThreadHandle for every number of callers, workers, timers  *)
(* and calls, every caller using every built-in.  Nothing is promised of a *)
(* handle whose restart has raced with another one or with a stop: then    *)
(* two workers run (README.md, "Disagreements found").  The proofs show    *)
(* that this is the only way to them.                                      *)
(***************************************************************************)
EXTENDS ThreadHandle, TLAPS

\* A worker that executes the body, or has yet to set finished.
Active(k) == wpc[k] \in InBody \cup {"finishing"}

\* Others use the handle only when it is published, and never its deferred start.
UsersInv ==
  \A c \in Callers \ {Owner} :
    /\ ~published => cpc[c] = "idle"
    /\ cpc[c] \notin {"start_deferred", "mark_started"}

DeferredLocs ==
  {"pause", "pause_paused", "pause_set", "pause_timer", "stop", "stop_unpause",
   "stop_finish", "start_deferred"} \cup StopWindow

\* The worker of an argument async{...} is not started before the built-in is through.
DeferredInv ==
  /\ deferred => ~published /\ os = 0 /\ cpc[Owner] \in DeferredLocs
  /\ cpc[Owner] = "start_deferred" => deferred
  /\ cpc[Owner] = "mark_started" => ~published

\* started is set before thrd_create, or, after an argument async{...}, before the
\* handle is published.
StartedInv ==
  /\ os > 0 => started \/ cpc[Owner] = "mark_started"
  /\ \A c \in Callers : cpc[c] = "create" => started

\* Who joins, joins a worker as late as any that its call has found.
JoinInv ==
  /\ \A k \in joined : wpc[k] = "ended"
  /\ \A c \in Callers :
       /\ since[c] <= os
       /\ cpc[c] \in {"joining", "stop_joining"} => since[c] <= target[c] /\ target[c] <= os

\* A caller that is to create a worker is alone in that, no stop is between its mark and
\* the return of its join, no worker is active, and finished, once cleared, stays so.
StartsAlone ==
  \A c \in Callers : cpc[c] \in StartWindow =>
    /\ \A d \in Callers \ {c} : cpc[d] \notin StartWindow \cup StopWindow
    /\ \A k \in Runs : ~Active(k)
    /\ cpc[c] # "restart_clear" => ~finished

\* Only the last worker created is active; when the handle is finished under it, a stop
\* has marked it and has not joined it yet.
LastActive ==
  \A k \in Runs : Active(k) =>
    /\ k = os
    /\ finished => k \in ordered /\ \E c \in Callers : cpc[c] \in StopWindow

\* A stop joins the last worker.
StopJoinsLast == \A c \in Callers : cpc[c] = "stop_joining" => target[c] = os

\* What holds until a restart races.
CalmInv == StartsAlone /\ LastActive /\ StopJoinsLast

\* The inductive invariant.
IInv == /\ TypeOK /\ UsersInv /\ DeferredInv /\ StartedInv /\ JoinInv
        /\ ~raced => CalmInv

-----------------------------------------------------------------------------
\* Every start of a handle satisfies the invariant.
LEMMA InitInv == Init => IInv
<1> SUFFICES ASSUME Init PROVE IInv
  OBVIOUS
<1>1. /\ Owner \in Callers /\ MaxRuns \in Nat \ {0} /\ MaxTimers \in Nat /\ MaxCalls \in Nat
      /\ cpc[Owner] \in {"set_started", "stop", "pause"}
      /\ \A c \in Callers \ {Owner} : cpc[c] = "idle"
      /\ cpc \in [Callers -> {"set_started", "stop", "pause", "idle"}]
      /\ deferred => cpc[Owner] # "set_started" /\ ~published
  BY CallersAssumption, BoundsAssumption DEF Init
<1>2. TypeOK
  <2>1. /\ os \in 0..MaxRuns /\ timers \in 0..MaxTimers /\ joined = {} /\ ordered = {}
        /\ target \in [Callers -> 0..MaxRuns] /\ since \in [Callers -> 0..MaxRuns]
        /\ calls \in 0..MaxCalls
    BY <1>1 DEF Init
  <2>2. wpc \in [Runs -> WorkerLocs] /\ cpc \in [Callers -> CallerLocs]
    BY <1>1 DEF Init, WorkerLocs, CallerLocs, StartWindow, Builtins
  <2>3. \A k \in Runs : wpc[k] = "none" /\ k > os
    BY <1>1 DEF Init, Runs
  <2>4. /\ finished \in BOOLEAN /\ paused \in BOOLEAN /\ started \in BOOLEAN
        /\ published \in BOOLEAN /\ deferred \in BOOLEAN /\ raced \in BOOLEAN /\ os = 0
    BY DEF Init
  <2> QED
    BY <2>1, <2>2, <2>3, <2>4 DEF TypeOK
<1>3. UsersInv /\ DeferredInv /\ StartedInv
  BY <1>1 DEF Init, UsersInv, DeferredInv, DeferredLocs, StartedInv
<1>4. JoinInv
  BY <1>1 DEF Init, JoinInv
<1>5. CalmInv
  <2>1. \A k \in Runs : ~Active(k)
    BY DEF Init, Active, InBody, Gate
  <2>2. ~finished /\ \A c \in Callers : c # Owner => cpc[c] \notin StartWindow \cup StopWindow
    BY <1>1 DEF Init, StartWindow, StopWindow
  <2>3. \A c \in Callers : cpc[c] # "stop_joining"
    BY <1>1
  <2> QED
    BY <2>1, <2>2, <2>3 DEF CalmInv, StartsAlone, LastActive, StopJoinsLast
<1> QED
  BY <1>2, <1>3, <1>4, <1>5 DEF IInv

\* Every step keeps the types: a worker is created only where there is room for one, and
\* a published handle that has a worker says so.
LEMMA TypeOKStep == IInv /\ [Next]_vars => TypeOK'
<1> SUFFICES ASSUME IInv, [Next]_vars PROVE TypeOK'
  OBVIOUS
<1>t. TypeOK
  BY DEF IInv
<1>n. MaxRuns \in Nat \ {0} /\ MaxTimers \in Nat /\ MaxCalls \in Nat /\ os \in Nat
      /\ timers \in 0..MaxTimers /\ calls \in 0..MaxCalls
  BY <1>t, BoundsAssumption DEF TypeOK
<1>c. ASSUME NEW c \in Callers
      PROVE  /\ cpc[c] = "create" => started
             /\ cpc[c] = "start_deferred" => ~published /\ os = 0
  BY DEF IInv, UsersInv, DeferredInv, StartedInv
<1>w. ASSUME NewWorker
      PROVE  /\ os' \in 0..MaxRuns /\ wpc' \in [Runs -> WorkerLocs]
             /\ \A k \in Runs : wpc'[k] = "none" <=> k > os'
             /\ finished' \in BOOLEAN /\ paused' \in BOOLEAN /\ started' = started
  <2>1. os' = os + 1 /\ os' \in 0..MaxRuns
    BY <1>w, <1>n DEF NewWorker, Runs
  <2>2. wpc' \in [Runs -> WorkerLocs] /\ wpc' = [wpc EXCEPT ![os + 1] = "gate"]
    BY <1>w, <1>t DEF NewWorker, TypeOK, WorkerLocs, InBody, Gate
  <2>3. ASSUME NEW k \in Runs PROVE wpc'[k] = "none" <=> k > os'
    <3>1. CASE k = os + 1
      BY <1>t, <1>n, <2>1, <2>2, <3>1 DEF TypeOK
    <3>2. CASE k # os + 1
      <4>1. k > os <=> k > os + 1
        BY <1>n, <3>2 DEF Runs
      <4> QED
        BY <1>t, <2>1, <2>2, <3>2, <4>1 DEF TypeOK
    <3> QED
      BY <3>1, <3>2
  <2> QED
    BY <1>w, <1>t, <2>1, <2>2, <2>3 DEF NewWorker, TypeOK, flags
<1>x. ASSUME NoWorker
      PROVE  /\ os' = os /\ wpc' = wpc /\ started' = started
             /\ finished' \in BOOLEAN /\ paused' \in BOOLEAN
  BY <1>x DEF NoWorker
<1> USE CallersAssumption, BoundsAssumption DEF TypeOK, Runs, InBody, Gate, WorkerLocs,
    CallerLocs, StartWindow, StopWindow, Builtins, flags, handle, callers, history
<1>1. ASSUME NEW c \in Callers, Enter(c) PROVE TypeOK'
  <2>1. calls' \in 0..MaxCalls
    BY <1>1, <1>n DEF Enter
  <2> QED
    BY <1>t, <1>1, <2>1 DEF Enter, Goto
<1>2. ASSUME NEW c \in Callers, Await(c) PROVE TypeOK'
  BY <1>t, <1>2 DEF Await, At, Return, Goto
<1>3. ASSUME NEW c \in Callers, AwaitSpin(c) PROVE TypeOK'
  BY <1>t, <1>3 DEF AwaitSpin, At, Goto
<1>4. ASSUME NEW c \in Callers, Join(c) PROVE TypeOK'
  BY <1>t, <1>4 DEF Join, Goto
<1>5. ASSUME NEW c \in Callers, Joined(c) PROVE TypeOK'
  BY <1>t, <1>5 DEF Joined, Return, Goto
<1>6. ASSUME NEW c \in Callers, Pause(c) PROVE TypeOK'
  BY <1>t, <1>6 DEF Pause, At, Return, Goto
<1>7. ASSUME NEW c \in Callers, PausePaused(c) PROVE TypeOK'
  BY <1>t, <1>7 DEF PausePaused, At, Return, Goto
<1>8. ASSUME NEW c \in Callers, PauseSet(c) PROVE TypeOK'
  BY <1>t, <1>8 DEF PauseSet, At, Return, Goto
<1>9. ASSUME NEW c \in Callers, PauseTimer(c) PROVE TypeOK'
  <2>1. timers' \in 0..MaxTimers
    BY <1>9, <1>n DEF PauseTimer
  <2>2. paused' \in BOOLEAN /\ cpc' \in [Callers -> CallerLocs]
    BY <1>9, <1>t DEF PauseTimer, Return, Goto
  <2> QED
    BY <1>9, <1>t, <2>1, <2>2 DEF PauseTimer, At
<1>10. ASSUME NEW c \in Callers, Resume(c) PROVE TypeOK'
  BY <1>t, <1>10 DEF Resume, At, Return, Goto
<1>11. ASSUME NEW c \in Callers, ResumeSet(c) PROVE TypeOK'
  BY <1>t, <1>11 DEF ResumeSet, At, Return, Goto
<1>12. ASSUME NEW c \in Callers, Stop(c) PROVE TypeOK'
  BY <1>t, <1>12 DEF Stop, At, Return, Goto
<1>13. ASSUME NEW c \in Callers, StopUnpause(c) PROVE TypeOK'
  BY <1>t, <1>13 DEF StopUnpause, At, Goto
<1>14. ASSUME NEW c \in Callers, StopFinish(c) PROVE TypeOK'
  BY <1>t, <1>14 DEF StopFinish, At, Goto
<1>15. ASSUME NEW c \in Callers, StopStarted(c) PROVE TypeOK'
  BY <1>t, <1>15 DEF StopStarted, At, Return, Goto
<1>16. ASSUME NEW c \in Callers, Restart(c) PROVE TypeOK'
  BY <1>t, <1>16 DEF Restart, At, Return, Goto
<1>17. ASSUME NEW c \in Callers, RestartRecheck(c) PROVE TypeOK'
  BY <1>t, <1>17 DEF RestartRecheck, At, Return, Goto
<1>18. ASSUME NEW c \in Callers, RestartClear(c) PROVE TypeOK'
  BY <1>t, <1>18 DEF RestartClear, At, Goto
<1>19. ASSUME NEW c \in Callers, RestartUnpause(c) PROVE TypeOK'
  BY <1>t, <1>19 DEF RestartUnpause, At, Goto
<1>20. ASSUME NEW c \in Callers, SetStarted(c) PROVE TypeOK'
  BY <1>t, <1>20 DEF SetStarted, At, Goto
<1>21. ASSUME NEW c \in Callers, Create(c) PROVE TypeOK'
  <2>1. cpc[c] = "create" /\ cpc' = [cpc EXCEPT ![c] = "idle"]
    BY <1>21 DEF Create, At, Goto
  <2>2. /\ cpc' \in [Callers -> CallerLocs] /\ os' \in 0..MaxRuns /\ wpc' \in [Runs -> WorkerLocs]
        /\ \A k \in Runs : wpc'[k] = "none" <=> k > os'
        /\ finished' \in BOOLEAN /\ paused' \in BOOLEAN /\ started' /\ started' \in BOOLEAN
    BY <1>21, <1>t, <1>c, <1>w, <1>x, <2>1 DEF Create
  <2>3. published' \in BOOLEAN
    BY <1>21, <1>t DEF Create
  <2> QED
    BY <1>21, <1>t, <2>2, <2>3 DEF Create, At
<1>22. ASSUME NEW c \in Callers, StartDeferred(c) PROVE TypeOK'
  <2>1. cpc[c] = "start_deferred" /\ os = 0 /\ ~published
    BY <1>22, <1>c DEF StartDeferred, At
  <2>2. /\ cpc' \in [Callers -> CallerLocs] /\ os' \in 0..MaxRuns /\ wpc' \in [Runs -> WorkerLocs]
        /\ \A k \in Runs : wpc'[k] = "none" <=> k > os'
        /\ finished' \in BOOLEAN /\ paused' \in BOOLEAN /\ started' = started
    BY <1>22, <1>t, <1>w, <1>x, <2>1 DEF StartDeferred, Goto
  <2>3. published' \in BOOLEAN /\ ~(published' /\ os' > 0)
    <3>1. CASE published' = published
      BY <1>t, <2>1, <3>1
    <3>2. CASE published' = TRUE /\ os' = os
      BY <2>1, <3>2
    <3> QED
      BY <1>22, <3>1, <3>2 DEF StartDeferred
  <2> QED
    BY <1>22, <1>t, <2>2, <2>3 DEF StartDeferred, At
<1>23. ASSUME NEW c \in Callers, MarkStarted(c) PROVE TypeOK'
  BY <1>t, <1>23 DEF MarkStarted, At, Goto
<1>24. ASSUME NEW k \in Runs, WaitIfPaused(k) PROVE TypeOK'
  BY <1>t, <1>24 DEF WaitIfPaused, Move, WorkerOnly
<1>25. ASSUME NEW k \in Runs, WaitIfFinished(k) PROVE TypeOK'
  BY <1>t, <1>25 DEF WaitIfFinished, Move, WorkerOnly
<1>26. ASSUME NEW k \in Runs, Execute(k) PROVE TypeOK'
  BY <1>t, <1>26 DEF Execute, Move, WorkerOnly
<1>27. ASSUME NEW k \in Runs, Skip(k) PROVE TypeOK'
  BY <1>t, <1>27 DEF Skip, Move, WorkerOnly
<1>28. ASSUME NEW k \in Runs, SkipLast(k) PROVE TypeOK'
  BY <1>t, <1>28 DEF SkipLast, Move, WorkerOnly
<1>29. ASSUME NEW k \in Runs, EndStatement(k) PROVE TypeOK'
  BY <1>t, <1>29 DEF EndStatement, Move, WorkerOnly
<1>30. ASSUME NEW k \in Runs, Finish(k) PROVE TypeOK'
  BY <1>t, <1>30 DEF Finish, Move, WorkerOnly
<1>31. ASSUME NEW k \in Runs, Exit(k) PROVE TypeOK'
  BY <1>t, <1>31 DEF Exit, Move, WorkerOnly
<1>32. CASE TimerFires
  <2>1. timers' \in 0..MaxTimers
    BY <1>32, <1>n DEF TimerFires
  <2> QED
    BY <1>32, <1>t, <2>1 DEF TimerFires
<1>33. CASE UNCHANGED vars
  BY <1>t, <1>33 DEF vars
<1> QED
  BY <1>1, <1>2, <1>3, <1>4, <1>5, <1>6, <1>7, <1>8, <1>9, <1>10, <1>11, <1>12, <1>13,
       <1>14, <1>15, <1>16, <1>17, <1>18, <1>19, <1>20, <1>21, <1>22, <1>23, <1>24,
       <1>25, <1>26, <1>27, <1>28, <1>29, <1>30, <1>31, <1>32, <1>33
  DEF Next, CallerStep, WorkerStep

\* Every step keeps the others off a handle that is not published, an argument async{...}
\* unstarted until its built-in is through, and started ahead of the workers.
LEMMA UseStep == IInv /\ [Next]_vars => UsersInv' /\ DeferredInv' /\ StartedInv'
<1> DEFINE UseInv == UsersInv /\ DeferredInv /\ StartedInv
<1> SUFFICES ASSUME IInv, [Next]_vars PROVE UseInv'
  OBVIOUS
<1>i. /\ UsersInv /\ DeferredInv /\ StartedInv /\ Owner \in Callers /\ os \in Nat
      /\ cpc \in [Callers -> CallerLocs] /\ published \in BOOLEAN /\ deferred \in BOOLEAN
      /\ started \in BOOLEAN
  BY CallersAssumption, BoundsAssumption DEF IInv, TypeOK
<1> USE DEF UsersInv, DeferredInv, DeferredLocs, StopWindow, StartedInv, Builtins,
    flags, handle, callers, history
<1>1. ASSUME NEW c \in Callers, Enter(c) PROVE UseInv'
  BY <1>i, <1>1 DEF Enter, Goto
<1>2. ASSUME NEW c \in Callers, Await(c) PROVE UseInv'
  BY <1>i, <1>2 DEF Await, At, Return, Goto
<1>3. ASSUME NEW c \in Callers, AwaitSpin(c) PROVE UseInv'
  BY <1>i, <1>3 DEF AwaitSpin, At, Goto
<1>4. ASSUME NEW c \in Callers, Join(c) PROVE UseInv'
  BY <1>i, <1>4 DEF Join, Goto
<1>5. ASSUME NEW c \in Callers, Joined(c) PROVE UseInv'
  BY <1>i, <1>5 DEF Joined, Return, Goto
<1>6. ASSUME NEW c \in Callers, Pause(c) PROVE UseInv'
  BY <1>i, <1>6 DEF Pause, At, Return, Goto
<1>7. ASSUME NEW c \in Callers, PausePaused(c) PROVE UseInv'
  BY <1>i, <1>7 DEF PausePaused, At, Return, Goto
<1>8. ASSUME NEW c \in Callers, PauseSet(c) PROVE UseInv'
  BY <1>i, <1>8 DEF PauseSet, At, Return, Goto
<1>9. ASSUME NEW c \in Callers, PauseTimer(c) PROVE UseInv'
  BY <1>i, <1>9 DEF PauseTimer, At, Return, Goto
<1>10. ASSUME NEW c \in Callers, Resume(c) PROVE UseInv'
  BY <1>i, <1>10 DEF Resume, At, Return, Goto
<1>11. ASSUME NEW c \in Callers, ResumeSet(c) PROVE UseInv'
  BY <1>i, <1>11 DEF ResumeSet, At, Return, Goto
<1>12. ASSUME NEW c \in Callers, Stop(c) PROVE UseInv'
  BY <1>i, <1>12 DEF Stop, At, Return, Goto
<1>13. ASSUME NEW c \in Callers, StopUnpause(c) PROVE UseInv'
  BY <1>i, <1>13 DEF StopUnpause, At, Goto
<1>14. ASSUME NEW c \in Callers, StopFinish(c) PROVE UseInv'
  BY <1>i, <1>14 DEF StopFinish, At, Goto
<1>15. ASSUME NEW c \in Callers, StopStarted(c) PROVE UseInv'
  BY <1>i, <1>15 DEF StopStarted, At, Return, Goto
<1>16. ASSUME NEW c \in Callers, Restart(c) PROVE UseInv'
  BY <1>i, <1>16 DEF Restart, At, Return, Goto
<1>17. ASSUME NEW c \in Callers, RestartRecheck(c) PROVE UseInv'
  BY <1>i, <1>17 DEF RestartRecheck, At, Return, Goto
<1>18. ASSUME NEW c \in Callers, RestartClear(c) PROVE UseInv'
  BY <1>i, <1>18 DEF RestartClear, At, Goto
<1>19. ASSUME NEW c \in Callers, RestartUnpause(c) PROVE UseInv'
  BY <1>i, <1>19 DEF RestartUnpause, At, Goto
<1>20. ASSUME NEW c \in Callers, SetStarted(c) PROVE UseInv'
  BY <1>i, <1>20 DEF SetStarted, At, Goto
<1>21. ASSUME NEW c \in Callers, Create(c) PROVE UseInv'
  BY <1>i, <1>21 DEF Create, At, Goto, NewWorker, NoWorker
<1>22. ASSUME NEW c \in Callers, StartDeferred(c) PROVE UseInv'
  BY <1>i, <1>22 DEF StartDeferred, At, Goto, NewWorker, NoWorker
<1>23. ASSUME NEW c \in Callers, MarkStarted(c) PROVE UseInv'
  BY <1>i, <1>23 DEF MarkStarted, At, Goto
<1>24. ASSUME NEW k \in Runs, WaitIfPaused(k) PROVE UseInv'
  BY <1>i, <1>24 DEF WaitIfPaused, Move, WorkerOnly
<1>25. ASSUME NEW k \in Runs, WaitIfFinished(k) PROVE UseInv'
  BY <1>i, <1>25 DEF WaitIfFinished, Move, WorkerOnly
<1>26. ASSUME NEW k \in Runs, Execute(k) PROVE UseInv'
  BY <1>i, <1>26 DEF Execute, Move, WorkerOnly
<1>27. ASSUME NEW k \in Runs, Skip(k) PROVE UseInv'
  BY <1>i, <1>27 DEF Skip, Move, WorkerOnly
<1>28. ASSUME NEW k \in Runs, SkipLast(k) PROVE UseInv'
  BY <1>i, <1>28 DEF SkipLast, Move, WorkerOnly
<1>29. ASSUME NEW k \in Runs, EndStatement(k) PROVE UseInv'
  BY <1>i, <1>29 DEF EndStatement, Move, WorkerOnly
<1>30. ASSUME NEW k \in Runs, Finish(k) PROVE UseInv'
  BY <1>i, <1>30 DEF Finish, Move, WorkerOnly
<1>31. ASSUME NEW k \in Runs, Exit(k) PROVE UseInv'
  BY <1>i, <1>31 DEF Exit, Move, WorkerOnly
<1>32. CASE TimerFires
  BY <1>i, <1>32 DEF TimerFires
<1>33. CASE UNCHANGED vars
  BY <1>i, <1>33 DEF vars
<1> QED
  BY <1>1, <1>2, <1>3, <1>4, <1>5, <1>6, <1>7, <1>8, <1>9, <1>10, <1>11, <1>12, <1>13,
       <1>14, <1>15, <1>16, <1>17, <1>18, <1>19, <1>20, <1>21, <1>22, <1>23, <1>24,
       <1>25, <1>26, <1>27, <1>28, <1>29, <1>30, <1>31, <1>32, <1>33
  DEF Next, CallerStep, WorkerStep

\* Every step keeps the workers joined ended, and the joins under way late enough.
LEMMA JoinInvStep == IInv /\ [Next]_vars => JoinInv'
<1> SUFFICES ASSUME IInv, [Next]_vars PROVE JoinInv'
  OBVIOUS
<1>t. /\ MaxRuns \in Nat \ {0} /\ os \in 0..MaxRuns
      /\ wpc \in [Runs -> WorkerLocs] /\ cpc \in [Callers -> CallerLocs]
  BY BoundsAssumption DEF IInv, TypeOK
<1>j. /\ since \in [Callers -> 0..MaxRuns] /\ target \in [Callers -> 0..MaxRuns] /\ os \in Nat
      /\ \A k \in joined : k \in Runs /\ k <= os
  <2>1. \A k \in joined : k \in Runs /\ wpc[k] # "none"
    BY DEF IInv, TypeOK, JoinInv
  <2>2. \A k \in joined : k \in Nat /\ k <= os
    BY <1>t, <2>1 DEF IInv, TypeOK, Runs
  <2> QED
    BY <1>t, <2>1, <2>2 DEF IInv, TypeOK
<1>w. ASSUME NewWorker \/ UNCHANGED <<os, wpc>>
      PROVE  os' \in Nat /\ os <= os' /\ \A k \in joined : wpc'[k] = "ended"
  <2>1. CASE NewWorker
    <3>1. \A k \in joined : k # os + 1
      BY <1>j DEF Runs
    <3> QED
      BY <1>t, <1>j, <2>1, <3>1 DEF NewWorker, IInv, JoinInv
  <2>2. CASE UNCHANGED <<os, wpc>>
    BY <1>j, <2>2 DEF IInv, JoinInv
  <2> QED
    BY <1>w, <2>1, <2>2
<1>l. ASSUME NewWorker \/ UNCHANGED <<os, wpc>>, UNCHANGED <<since, target, joined>>,
             \A d \in Callers : cpc'[d] \in {"joining", "stop_joining"} =>
                                  cpc[d] \in {"joining", "stop_joining"}
      PROVE  JoinInv'
  <2>1. \A d \in Callers : since'[d] <= os' /\ target'[d] \in Nat
    BY <1>t, <1>j, <1>l, <1>w DEF IInv, JoinInv
  <2>2. \A d \in Callers : cpc'[d] \in {"joining", "stop_joining"} =>
                             since'[d] <= target'[d] /\ target'[d] <= os'
    BY <1>t, <1>j, <1>l, <1>w DEF IInv, JoinInv
  <2> QED
    BY <1>t, <1>l, <1>w, <2>1, <2>2 DEF JoinInv
<1> USE DEF IInv, JoinInv, Runs, flags, handle, callers, history
<1>1. ASSUME NEW c \in Callers, Enter(c) PROVE JoinInv'
  <2>1. PICK op \in Builtins : cpc' = [cpc EXCEPT ![c] = op]
    BY <1>1 DEF Enter, Goto
  <2>2. /\ op \notin {"joining", "stop_joining"} /\ UNCHANGED <<os, wpc, target, joined>>
        /\ since' = [since EXCEPT ![c] = os]
    BY <1>1 DEF Enter, Builtins
  <2> QED
    BY <1>t, <1>j, <2>1, <2>2
<1>2. ASSUME NEW c \in Callers, Await(c) PROVE JoinInv'
  BY <1>t, <1>j, <1>2 DEF Await, At, Return, Goto
<1>3. ASSUME NEW c \in Callers, AwaitSpin(c) PROVE JoinInv'
  BY <1>t, <1>j, <1>3 DEF AwaitSpin, At, Goto
<1>4. ASSUME NEW c \in Callers, Join(c) PROVE JoinInv'
  BY <1>t, <1>j, <1>4 DEF Join, Goto
<1>5. ASSUME NEW c \in Callers, Joined(c) PROVE JoinInv'
  BY <1>t, <1>j, <1>5 DEF Joined, Return, Goto
<1>6. ASSUME NEW c \in Callers, Pause(c) PROVE JoinInv'
  BY <1>t, <1>j, <1>6 DEF Pause, At, Return, Goto
<1>7. ASSUME NEW c \in Callers, PausePaused(c) PROVE JoinInv'
  BY <1>t, <1>j, <1>7 DEF PausePaused, At, Return, Goto
<1>8. ASSUME NEW c \in Callers, PauseSet(c) PROVE JoinInv'
  BY <1>t, <1>j, <1>8 DEF PauseSet, At, Return, Goto
<1>9. ASSUME NEW c \in Callers, PauseTimer(c) PROVE JoinInv'
  BY <1>t, <1>j, <1>9 DEF PauseTimer, At, Return, Goto
<1>10. ASSUME NEW c \in Callers, Resume(c) PROVE JoinInv'
  BY <1>t, <1>j, <1>10 DEF Resume, At, Return, Goto
<1>11. ASSUME NEW c \in Callers, ResumeSet(c) PROVE JoinInv'
  BY <1>t, <1>j, <1>11 DEF ResumeSet, At, Return, Goto
<1>12. ASSUME NEW c \in Callers, Stop(c) PROVE JoinInv'
  BY <1>t, <1>j, <1>12 DEF Stop, At, Return, Goto
<1>13. ASSUME NEW c \in Callers, StopUnpause(c) PROVE JoinInv'
  BY <1>t, <1>j, <1>13 DEF StopUnpause, At, Goto
<1>14. ASSUME NEW c \in Callers, StopFinish(c) PROVE JoinInv'
  BY <1>t, <1>j, <1>14 DEF StopFinish, At, Goto
<1>15. ASSUME NEW c \in Callers, StopStarted(c) PROVE JoinInv'
  BY <1>t, <1>j, <1>15 DEF StopStarted, At, Return, Goto
<1>16. ASSUME NEW c \in Callers, Restart(c) PROVE JoinInv'
  BY <1>t, <1>j, <1>16 DEF Restart, At, Return, Goto
<1>17. ASSUME NEW c \in Callers, RestartRecheck(c) PROVE JoinInv'
  BY <1>t, <1>j, <1>17 DEF RestartRecheck, At, Return, Goto
<1>18. ASSUME NEW c \in Callers, RestartClear(c) PROVE JoinInv'
  BY <1>t, <1>j, <1>18 DEF RestartClear, At, Goto
<1>19. ASSUME NEW c \in Callers, RestartUnpause(c) PROVE JoinInv'
  BY <1>t, <1>j, <1>19 DEF RestartUnpause, At, Goto
<1>20. ASSUME NEW c \in Callers, SetStarted(c) PROVE JoinInv'
  BY <1>t, <1>j, <1>20 DEF SetStarted, At, Goto
<1>21. ASSUME NEW c \in Callers, Create(c) PROVE JoinInv'
  <2>1. cpc' = [cpc EXCEPT ![c] = "idle"] /\ UNCHANGED <<since, target, joined>>
    BY <1>21 DEF Create, At, Goto
  <2>2. NewWorker \/ UNCHANGED <<os, wpc>>
    BY <1>21 DEF Create, NoWorker
  <2> QED
    BY <1>t, <1>l, <2>1, <2>2
<1>22. ASSUME NEW c \in Callers, StartDeferred(c) PROVE JoinInv'
  <2>1. /\ cpc' = [cpc EXCEPT ![c] = "idle"] \/ cpc' = [cpc EXCEPT ![c] = "mark_started"]
        /\ UNCHANGED <<since, target, joined>>
    BY <1>22 DEF StartDeferred, At, Goto
  <2>2. NewWorker \/ UNCHANGED <<os, wpc>>
    BY <1>22 DEF StartDeferred, NoWorker
  <2> QED
    BY <1>t, <1>l, <2>1, <2>2
<1>23. ASSUME NEW c \in Callers, MarkStarted(c) PROVE JoinInv'
  BY <1>t, <1>j, <1>23 DEF MarkStarted, At, Goto
<1>24. ASSUME NEW k \in Runs, WaitIfPaused(k) PROVE JoinInv'
  BY <1>t, <1>j, <1>24 DEF WaitIfPaused, Move, WorkerOnly
<1>25. ASSUME NEW k \in Runs, WaitIfFinished(k) PROVE JoinInv'
  BY <1>t, <1>j, <1>25 DEF WaitIfFinished, Move, WorkerOnly
<1>26. ASSUME NEW k \in Runs, Execute(k) PROVE JoinInv'
  BY <1>t, <1>j, <1>26 DEF Execute, Move, WorkerOnly
<1>27. ASSUME NEW k \in Runs, Skip(k) PROVE JoinInv'
  BY <1>t, <1>j, <1>27 DEF Skip, Move, WorkerOnly
<1>28. ASSUME NEW k \in Runs, SkipLast(k) PROVE JoinInv'
  BY <1>t, <1>j, <1>28 DEF SkipLast, Move, WorkerOnly
<1>29. ASSUME NEW k \in Runs, EndStatement(k) PROVE JoinInv'
  <2>1. wpc[k] = "body" /\ \A j \in Runs \ {k} : wpc'[j] = wpc[j]
    BY <1>29, <1>t DEF EndStatement, Move
  <2>2. \A j \in joined : wpc'[j] = "ended"
    BY <1>j, <2>1
  <2> QED
    BY <1>29, <2>2 DEF EndStatement, WorkerOnly
<1>30. ASSUME NEW k \in Runs, Finish(k) PROVE JoinInv'
  BY <1>t, <1>j, <1>30 DEF Finish, Move, WorkerOnly
<1>31. ASSUME NEW k \in Runs, Exit(k) PROVE JoinInv'
  BY <1>t, <1>j, <1>31 DEF Exit, Move, WorkerOnly
<1>32. CASE TimerFires
  BY <1>t, <1>j, <1>32 DEF TimerFires
<1>33. CASE UNCHANGED vars
  BY <1>t, <1>j, <1>33 DEF vars
<1> QED
  BY <1>1, <1>2, <1>3, <1>4, <1>5, <1>6, <1>7, <1>8, <1>9, <1>10, <1>11, <1>12, <1>13,
       <1>14, <1>15, <1>16, <1>17, <1>18, <1>19, <1>20, <1>21, <1>22, <1>23, <1>24,
       <1>25, <1>26, <1>27, <1>28, <1>29, <1>30, <1>31, <1>32, <1>33
  DEF Next, CallerStep, WorkerStep

\* Every step that does not race keeps starts apart and the active worker alone: a worker
\* is created only when none is active, and finished is set under an active worker by a
\* stop alone.
LEMMA CalmStep == IInv /\ [Next]_vars /\ ~raced' => CalmInv'
<1> SUFFICES ASSUME IInv, [Next]_vars, ~raced' PROVE CalmInv'
  OBVIOUS
<1>t. /\ Owner \in Callers /\ MaxRuns \in Nat \ {0} /\ os \in 0..MaxRuns
      /\ wpc \in [Runs -> WorkerLocs] /\ cpc \in [Callers -> CallerLocs]
      /\ target \in [Callers -> 0..MaxRuns]
      /\ finished \in BOOLEAN /\ started \in BOOLEAN /\ raced \in BOOLEAN
      /\ \A k \in Runs : wpc[k] = "none" <=> k > os
  BY CallersAssumption, BoundsAssumption DEF IInv, TypeOK
<1>r. raced => raced'
  <2> USE DEF history, vars
  <2>1. ASSUME NEW c \in Callers, Enter(c) \/ CallerStep(c) PROVE raced => raced'
    BY <2>1 DEF Enter, CallerStep, Await, AwaitSpin, Join, Joined, Pause, PausePaused,
       PauseSet, PauseTimer, Resume, ResumeSet, Stop, StopUnpause, StopFinish, StopStarted,
       Restart, RestartRecheck, RestartClear, RestartUnpause, SetStarted, Create,
       StartDeferred, MarkStarted
  <2>2. ASSUME NEW k \in Runs, WorkerStep(k) PROVE raced => raced'
    BY <2>2 DEF WorkerStep, WaitIfPaused, WaitIfFinished, Execute, Skip, SkipLast,
       EndStatement, Finish, Exit, WorkerOnly
  <2> QED
    BY <2>1, <2>2 DEF Next, TimerFires
<1>q. CalmInv
  BY <1>r DEF IInv
<1>s. ASSUME NEW c \in Callers, UNCHANGED <<os, wpc, finished, ordered, target>>,
             \A d \in Callers \ {c} : cpc'[d] = cpc[d],
             cpc[c] \notin StartWindow \cup StopWindow,
             cpc'[c] \notin StartWindow \cup StopWindow
      PROVE  CalmInv'
  BY <1>q, <1>s, <1>t DEF CalmInv, StartsAlone, LastActive, StopJoinsLast, Active, StopWindow
<1>u. ASSUME NEW c \in Callers, UNCHANGED <<os, wpc, finished, ordered, target>>,
             \A d \in Callers \ {c} : cpc'[d] = cpc[d],
             cpc[c] \in StartWindow \ {"restart_clear"}, cpc'[c] \in StartWindow
      PROVE  CalmInv'
  BY <1>q, <1>u, <1>t DEF CalmInv, StartsAlone, LastActive, StopJoinsLast, Active,
     StartWindow, StopWindow
<1>v. ASSUME UNCHANGED <<os, finished, ordered, target, cpc>>,
             NEW k \in Runs, Active(k), \A l \in Runs \ {k} : wpc'[l] = wpc[l]
      PROVE  CalmInv'
  BY <1>q, <1>v, <1>t DEF CalmInv, StartsAlone, LastActive, StopJoinsLast, Active
<1> USE DEF flags, handle, callers, history
<1>1. ASSUME NEW c \in Callers, Enter(c) PROVE CalmInv'
  <2>1. /\ UNCHANGED <<os, wpc, finished, ordered, target>>
        /\ \A d \in Callers \ {c} : cpc'[d] = cpc[d]
        /\ {cpc[c], cpc'[c]} \cap (StartWindow \cup StopWindow) = {}
    BY <1>t, <1>1 DEF Enter, Goto, Builtins, StartWindow, StopWindow
  <2> QED
    BY <1>s, <2>1
<1>2. ASSUME NEW c \in Callers, Await(c) PROVE CalmInv'
  <2>1. /\ UNCHANGED <<os, wpc, finished, ordered, target>>
        /\ \A d \in Callers \ {c} : cpc'[d] = cpc[d]
        /\ {cpc[c], cpc'[c]} \cap (StartWindow \cup StopWindow) = {}
    BY <1>t, <1>2 DEF Await, At, Return, Goto, StartWindow, StopWindow
  <2> QED
    BY <1>s, <2>1
<1>3. ASSUME NEW c \in Callers, AwaitSpin(c) PROVE CalmInv'
  <2>1. /\ UNCHANGED <<os, wpc, finished, ordered, target>>
        /\ \A d \in Callers \ {c} : cpc'[d] = cpc[d]
        /\ {cpc[c], cpc'[c]} \cap (StartWindow \cup StopWindow) = {}
    BY <1>t, <1>3 DEF AwaitSpin, At, Goto, StartWindow, StopWindow
  <2> QED
    BY <1>s, <2>1
<1>4. ASSUME NEW c \in Callers, Join(c) PROVE CalmInv'
  <2>1. /\ UNCHANGED <<os, wpc, finished, ordered>> /\ target' = [target EXCEPT ![c] = os]
        /\ \A d \in Callers \ {c} : cpc'[d] = cpc[d]
        /\ \/ cpc[c] = "join" /\ cpc'[c] = "joining"
           \/ cpc[c] = "stop_join" /\ cpc'[c] = "stop_joining"
    BY <1>t, <1>4 DEF Join, Goto
  <2>2. /\ \A d \in Callers : cpc'[d] \in StartWindow <=> cpc[d] \in StartWindow
        /\ \A d \in Callers : cpc'[d] \in StopWindow <=> cpc[d] \in StopWindow
        /\ \A d \in Callers : cpc'[d] = "restart_clear" <=> cpc[d] = "restart_clear"
    BY <2>1 DEF StartWindow, StopWindow
  <2>3. StartsAlone' /\ LastActive'
    BY <1>q, <2>1, <2>2 DEF CalmInv, StartsAlone, LastActive, Active
  <2>4. StopJoinsLast'
    BY <1>q, <1>t, <2>1 DEF CalmInv, StopJoinsLast
  <2> QED
    BY <2>3, <2>4 DEF CalmInv
<1>5. ASSUME NEW c \in Callers, Joined(c) PROVE CalmInv'
  <2>1. /\ UNCHANGED <<os, wpc, finished, ordered, target>>
        /\ \A d \in Callers \ {c} : cpc'[d] = cpc[d]
        /\ cpc[c] \in {"joining", "stop_joining"} /\ cpc'[c] \in {"idle", "start_deferred"}
    BY <1>t, <1>5 DEF Joined, Return, Goto
  <2>2. CASE cpc[c] = "joining"
    BY <1>s, <2>1, <2>2 DEF StartWindow, StopWindow
  <2>3. CASE cpc[c] = "stop_joining"
    <3>1. os \in Runs => wpc[os] = "ended"
      BY <1>q, <1>5, <2>3 DEF Joined, CalmInv, StopJoinsLast, IInv, JoinInv
    <3>2. \A k \in Runs : ~Active(k)
      BY <1>q, <3>1 DEF CalmInv, LastActive, Active, InBody, Gate
    <3> QED
      BY <1>q, <2>1, <3>2 DEF CalmInv, StartsAlone, LastActive, StopJoinsLast, Active,
         StartWindow, StopWindow
  <2> QED
    BY <2>1, <2>2, <2>3
<1>6. ASSUME NEW c \in Callers, Pause(c) PROVE CalmInv'
  <2>1. /\ UNCHANGED <<os, wpc, finished, ordered, target>>
        /\ \A d \in Callers \ {c} : cpc'[d] = cpc[d]
        /\ {cpc[c], cpc'[c]} \cap (StartWindow \cup StopWindow) = {}
    BY <1>t, <1>6 DEF Pause, At, Return, Goto, StartWindow, StopWindow
  <2> QED
    BY <1>s, <2>1
<1>7. ASSUME NEW c \in Callers, PausePaused(c) PROVE CalmInv'
  <2>1. /\ UNCHANGED <<os, wpc, finished, ordered, target>>
        /\ \A d \in Callers \ {c} : cpc'[d] = cpc[d]
        /\ {cpc[c], cpc'[c]} \cap (StartWindow \cup StopWindow) = {}
    BY <1>t, <1>7 DEF PausePaused, At, Return, Goto, StartWindow, StopWindow
  <2> QED
    BY <1>s, <2>1
<1>8. ASSUME NEW c \in Callers, PauseSet(c) PROVE CalmInv'
  <2>1. /\ UNCHANGED <<os, wpc, finished, ordered, target>>
        /\ \A d \in Callers \ {c} : cpc'[d] = cpc[d]
        /\ {cpc[c], cpc'[c]} \cap (StartWindow \cup StopWindow) = {}
    BY <1>t, <1>8 DEF PauseSet, At, Return, Goto, StartWindow, StopWindow
  <2> QED
    BY <1>s, <2>1
<1>9. ASSUME NEW c \in Callers, PauseTimer(c) PROVE CalmInv'
  <2>1. /\ UNCHANGED <<os, wpc, finished, ordered, target>>
        /\ \A d \in Callers \ {c} : cpc'[d] = cpc[d]
        /\ {cpc[c], cpc'[c]} \cap (StartWindow \cup StopWindow) = {}
    BY <1>t, <1>9 DEF PauseTimer, At, Return, Goto, StartWindow, StopWindow
  <2> QED
    BY <1>s, <2>1
<1>10. ASSUME NEW c \in Callers, Resume(c) PROVE CalmInv'
  <2>1. /\ UNCHANGED <<os, wpc, finished, ordered, target>>
        /\ \A d \in Callers \ {c} : cpc'[d] = cpc[d]
        /\ {cpc[c], cpc'[c]} \cap (StartWindow \cup StopWindow) = {}
    BY <1>t, <1>10 DEF Resume, At, Return, Goto, StartWindow, StopWindow
  <2> QED
    BY <1>s, <2>1
<1>11. ASSUME NEW c \in Callers, ResumeSet(c) PROVE CalmInv'
  <2>1. /\ UNCHANGED <<os, wpc, finished, ordered, target>>
        /\ \A d \in Callers \ {c} : cpc'[d] = cpc[d]
        /\ {cpc[c], cpc'[c]} \cap (StartWindow \cup StopWindow) = {}
    BY <1>t, <1>11 DEF ResumeSet, At, Return, Goto, StartWindow, StopWindow
  <2> QED
    BY <1>s, <2>1
<1>12. ASSUME NEW c \in Callers, Stop(c) PROVE CalmInv'
  <2>1. /\ UNCHANGED <<os, wpc, finished, ordered, target>>
        /\ \A d \in Callers \ {c} : cpc'[d] = cpc[d]
        /\ {cpc[c], cpc'[c]} \cap (StartWindow \cup StopWindow) = {}
    BY <1>t, <1>12 DEF Stop, At, Return, Goto, StartWindow, StopWindow
  <2> QED
    BY <1>s, <2>1
<1>13. ASSUME NEW c \in Callers, StopUnpause(c) PROVE CalmInv'
  <2>1. /\ UNCHANGED <<os, wpc, finished, ordered, target>>
        /\ \A d \in Callers \ {c} : cpc'[d] = cpc[d]
        /\ {cpc[c], cpc'[c]} \cap (StartWindow \cup StopWindow) = {}
    BY <1>t, <1>13 DEF StopUnpause, At, Goto, StartWindow, StopWindow
  <2> QED
    BY <1>s, <2>1
<1>14. ASSUME NEW c \in Callers, StopFinish(c) PROVE CalmInv'
  <2>1. /\ UNCHANGED <<os, wpc, target>> /\ ordered' = ordered \cup ({os} \cap Runs)
        /\ \A d \in Callers \ {c} : cpc'[d] = cpc[d] /\ cpc[d] \notin StartWindow
        /\ cpc'[c] = "stop_started"
    BY <1>t, <1>14 DEF StopFinish, At, Goto, Overlaps
  <2>2. \A d \in Callers : cpc'[d] \notin StartWindow
    BY <2>1 DEF StartWindow
  <2>3. StartsAlone' /\ StopJoinsLast'
    BY <1>q, <2>1, <2>2 DEF CalmInv, StartsAlone, StopJoinsLast
  <2>4. cpc'[c] \in StopWindow
    BY <2>1 DEF StopWindow
  <2>5. LastActive'
    BY <1>q, <2>1, <2>4 DEF CalmInv, LastActive, Active
  <2> QED
    BY <2>3, <2>5 DEF CalmInv
<1>15. ASSUME NEW c \in Callers, StopStarted(c) PROVE CalmInv'
  <2>1. /\ UNCHANGED <<os, wpc, finished, ordered, target>> /\ cpc[c] = "stop_started"
        /\ \A d \in Callers \ {c} : cpc'[d] = cpc[d]
        /\ IF started THEN cpc'[c] = "stop_join" ELSE cpc'[c] \in {"idle", "start_deferred"}
    BY <1>t, <1>15 DEF StopStarted, At, Return, Goto
  <2>2. CASE started
    BY <1>q, <2>1, <2>2 DEF CalmInv, StartsAlone, LastActive, StopJoinsLast, Active,
       StartWindow, StopWindow
  <2>3. CASE ~started
    <3>1. c # Owner => published
      BY <2>1 DEF IInv, UsersInv
    <3>2. ~(os > 0)
      BY <2>1, <2>3, <3>1 DEF IInv, StartedInv, DeferredInv
    <3>3. \A k \in Runs : ~Active(k)
      BY <1>q, <1>t, <3>2 DEF CalmInv, LastActive, Runs
    <3> QED
      BY <1>q, <2>1, <2>3, <3>3 DEF CalmInv, StartsAlone, LastActive, StopJoinsLast, Active,
         StartWindow, StopWindow
  <2> QED
    BY <2>2, <2>3
<1>16. ASSUME NEW c \in Callers, Restart(c) PROVE CalmInv'
  <2>1. /\ UNCHANGED <<os, wpc, finished, ordered, target>>
        /\ \A d \in Callers \ {c} : cpc'[d] = cpc[d]
        /\ {cpc[c], cpc'[c]} \cap (StartWindow \cup StopWindow) = {}
    BY <1>t, <1>16 DEF Restart, At, Return, Goto, StartWindow, StopWindow
  <2> QED
    BY <1>s, <2>1
<1>17. ASSUME NEW c \in Callers, RestartRecheck(c) PROVE CalmInv'
  <2>1. /\ UNCHANGED <<os, wpc, finished, ordered, target>> /\ cpc[c] = "restart_recheck"
        /\ \A d \in Callers \ {c} : cpc'[d] = cpc[d]
    BY <1>t, <1>17 DEF RestartRecheck, At, Return, Goto
  <2>2. CASE finished
    <3>1. /\ cpc'[c] = "restart_clear"
          /\ \A d \in Callers \ {c} : cpc[d] \notin StartWindow \cup StopWindow
      BY <1>t, <1>17, <2>2 DEF RestartRecheck, At, Goto, Overlaps
    <3>2. \A d \in Callers : cpc[d] \notin StopWindow
      BY <2>1, <3>1 DEF StopWindow
    <3>3. \A k \in Runs : ~Active(k)
      BY <1>q, <2>2, <3>2 DEF CalmInv, LastActive
    <3> QED
      BY <1>q, <2>1, <2>2, <3>1, <3>3 DEF CalmInv, StartsAlone, LastActive, StopJoinsLast,
         Active, StartWindow, StopWindow
  <2>3. CASE ~finished
    <3>1. {cpc[c], cpc'[c]} \cap (StartWindow \cup StopWindow) = {}
      BY <1>t, <1>17, <2>3 DEF RestartRecheck, At, Return, Goto, StartWindow, StopWindow
    <3> QED
      BY <1>s, <2>1, <3>1
  <2> QED
    BY <2>2, <2>3
<1>18. ASSUME NEW c \in Callers, RestartClear(c) PROVE CalmInv'
  <2>1. /\ UNCHANGED <<os, wpc, ordered, target>> /\ finished' = FALSE
        /\ \A d \in Callers \ {c} : cpc'[d] = cpc[d]
        /\ cpc[c] = "restart_clear" /\ cpc'[c] = "restart_unpause"
    BY <1>t, <1>18 DEF RestartClear, At, Goto
  <2> QED
    BY <1>q, <2>1 DEF CalmInv, StartsAlone, LastActive, StopJoinsLast, Active,
       StartWindow, StopWindow
<1>19. ASSUME NEW c \in Callers, RestartUnpause(c) PROVE CalmInv'
  <2>1. /\ UNCHANGED <<os, wpc, finished, ordered, target>>
        /\ \A d \in Callers \ {c} : cpc'[d] = cpc[d]
        /\ cpc[c] \in StartWindow \ {"restart_clear"} /\ cpc'[c] \in StartWindow
    BY <1>t, <1>19 DEF RestartUnpause, At, Goto, StartWindow
  <2> QED
    BY <1>u, <2>1
<1>20. ASSUME NEW c \in Callers, SetStarted(c) PROVE CalmInv'
  <2>1. /\ UNCHANGED <<os, wpc, finished, ordered, target>>
        /\ \A d \in Callers \ {c} : cpc'[d] = cpc[d]
        /\ cpc[c] \in StartWindow \ {"restart_clear"} /\ cpc'[c] \in StartWindow
    BY <1>t, <1>20 DEF SetStarted, At, Goto, StartWindow
  <2> QED
    BY <1>u, <2>1
<1>21. ASSUME NEW c \in Callers, Create(c) PROVE CalmInv'
  <2>1. /\ UNCHANGED <<ordered, target>> /\ cpc[c] = "create" /\ cpc'[c] = "idle"
        /\ \A d \in Callers \ {c} : cpc'[d] = cpc[d]
        /\ NewWorker \/ NoWorker
    BY <1>t, <1>21 DEF Create, At, Goto
  <2>2. /\ \A d \in Callers \ {c} : cpc[d] \notin StartWindow \cup StopWindow
        /\ \A k \in Runs : ~Active(k)
        /\ ~finished
    BY <1>q, <2>1 DEF CalmInv, StartsAlone, StartWindow
  <2>3. \A d \in Callers : cpc'[d] \notin StartWindow \cup StopWindow
    BY <2>1, <2>2 DEF StartWindow, StopWindow
  <2>4. StartsAlone' /\ StopJoinsLast'
    BY <2>3 DEF StartsAlone, StopJoinsLast, StopWindow
  <2>5. LastActive'
    <3>1. CASE NewWorker
      BY <1>t, <2>2, <3>1 DEF NewWorker, LastActive, Active
    <3>2. CASE NoWorker
      BY <2>2, <3>2 DEF NoWorker, LastActive, Active
    <3> QED
      BY <2>1, <3>1, <3>2
  <2> QED
    BY <2>4, <2>5 DEF CalmInv
<1>22. ASSUME NEW c \in Callers, StartDeferred(c) PROVE CalmInv'
  <2>1. /\ UNCHANGED <<ordered, target>> /\ cpc[c] = "start_deferred"
        /\ cpc'[c] \in {"idle", "mark_started"} /\ \A d \in Callers \ {c} : cpc'[d] = cpc[d]
        /\ \/ UNCHANGED <<os, wpc, finished>>
           \/ ~finished /\ (NewWorker \/ NoWorker)
    BY <1>t, <1>22 DEF StartDeferred, At, Goto
  <2>2. c = Owner /\ ~published /\ os = 0
    BY <2>1 DEF IInv, UsersInv, DeferredInv
  <2>3. \A d \in Callers : cpc'[d] \notin StartWindow \cup StopWindow
    BY <2>1, <2>2 DEF IInv, UsersInv, StartWindow, StopWindow
  <2>4. StartsAlone' /\ StopJoinsLast'
    BY <2>3 DEF StartsAlone, StopJoinsLast, StopWindow
  <2>5. \A k \in Runs : ~Active(k)
    BY <1>t, <2>2 DEF Active, InBody, Gate, Runs
  <2>6. LastActive'
    <3>1. CASE NewWorker /\ ~finished
      BY <1>t, <2>5, <3>1 DEF NewWorker, LastActive, Active
    <3>2. CASE NoWorker \/ UNCHANGED <<os, wpc, finished>>
      BY <2>5, <3>2 DEF NoWorker, LastActive, Active
    <3> QED
      BY <2>1, <3>1, <3>2
  <2> QED
    BY <2>4, <2>6 DEF CalmInv
<1>23. ASSUME NEW c \in Callers, MarkStarted(c) PROVE CalmInv'
  <2>1. /\ UNCHANGED <<os, wpc, finished, ordered, target>>
        /\ \A d \in Callers \ {c} : cpc'[d] = cpc[d]
        /\ {cpc[c], cpc'[c]} \cap (StartWindow \cup StopWindow) = {}
    BY <1>t, <1>23 DEF MarkStarted, At, Goto, StartWindow, StopWindow
  <2> QED
    BY <1>s, <2>1
<1>24. ASSUME NEW k \in Runs, WaitIfPaused(k) PROVE CalmInv'
  <2>1. /\ UNCHANGED <<os, finished, ordered, target, cpc>>
        /\ Active(k) /\ \A l \in Runs \ {k} : wpc'[l] = wpc[l]
    BY <1>t, <1>24 DEF WaitIfPaused, Move, WorkerOnly, Active, InBody, Gate
  <2> QED
    BY <1>v, <2>1
<1>25. ASSUME NEW k \in Runs, WaitIfFinished(k) PROVE CalmInv'
  <2>1. /\ UNCHANGED <<os, finished, ordered, target, cpc>>
        /\ Active(k) /\ \A l \in Runs \ {k} : wpc'[l] = wpc[l]
    BY <1>t, <1>25 DEF WaitIfFinished, Move, WorkerOnly, Active, InBody, Gate
  <2> QED
    BY <1>v, <2>1
<1>26. ASSUME NEW k \in Runs, Execute(k) PROVE CalmInv'
  <2>1. /\ UNCHANGED <<os, finished, ordered, target, cpc>>
        /\ Active(k) /\ \A l \in Runs \ {k} : wpc'[l] = wpc[l]
    BY <1>t, <1>26 DEF Execute, Move, WorkerOnly, Active, InBody, Gate
  <2> QED
    BY <1>v, <2>1
<1>27. ASSUME NEW k \in Runs, Skip(k) PROVE CalmInv'
  <2>1. /\ UNCHANGED <<os, finished, ordered, target, cpc>>
        /\ Active(k) /\ \A l \in Runs \ {k} : wpc'[l] = wpc[l]
    BY <1>t, <1>27 DEF Skip, Move, WorkerOnly, Active, InBody, Gate
  <2> QED
    BY <1>v, <2>1
<1>28. ASSUME NEW k \in Runs, SkipLast(k) PROVE CalmInv'
  <2>1. /\ UNCHANGED <<os, finished, ordered, target, cpc>>
        /\ Active(k) /\ \A l \in Runs \ {k} : wpc'[l] = wpc[l]
    BY <1>t, <1>28 DEF SkipLast, Move, WorkerOnly, Active, InBody, Gate
  <2> QED
    BY <1>v, <2>1
<1>29. ASSUME NEW k \in Runs, EndStatement(k) PROVE CalmInv'
  <2>1. /\ UNCHANGED <<os, finished, ordered, target, cpc>>
        /\ Active(k) /\ \A l \in Runs \ {k} : wpc'[l] = wpc[l]
    BY <1>t, <1>29 DEF EndStatement, Move, WorkerOnly, Active, InBody, Gate
  <2> QED
    BY <1>v, <2>1
<1>30. ASSUME NEW k \in Runs, Finish(k) PROVE CalmInv'
  <2>1. /\ UNCHANGED <<os, ordered, target, cpc>> /\ wpc[k] = "finishing"
        /\ wpc'[k] = "exiting" /\ \A l \in Runs \ {k} : wpc'[l] = wpc[l]
    BY <1>t, <1>30 DEF Finish, Move, WorkerOnly
  <2>2. Active(k) /\ \A l \in Runs \ {k} : ~Active(l)
    BY <1>q, <2>1 DEF CalmInv, LastActive, Active
  <2>3. \A l \in Runs : ~Active(l)'
    BY <2>1, <2>2 DEF Active, InBody, Gate
  <2>4. \A c \in Callers : cpc[c] \notin StartWindow
    BY <1>q, <2>2 DEF CalmInv, StartsAlone
  <2> QED
    BY <1>q, <2>1, <2>3, <2>4 DEF CalmInv, StartsAlone, LastActive, StopJoinsLast
<1>31. ASSUME NEW k \in Runs, Exit(k) PROVE CalmInv'
  <2>1. /\ UNCHANGED <<os, finished, ordered, target, cpc>>
        /\ wpc'[k] = "ended" /\ \A l \in Runs \ {k} : wpc'[l] = wpc[l]
    BY <1>t, <1>31 DEF Exit, Move, WorkerOnly
  <2>2. \A l \in Runs : Active(l)' => Active(l)
    BY <2>1 DEF Active, InBody, Gate
  <2> QED
    BY <1>q, <2>1, <2>2 DEF CalmInv, StartsAlone, LastActive, StopJoinsLast
<1>32. CASE TimerFires
  BY <1>q, <1>32 DEF TimerFires, CalmInv, StartsAlone, LastActive, StopJoinsLast, Active
<1>33. CASE UNCHANGED vars
  BY <1>q, <1>33 DEF vars, CalmInv, StartsAlone, LastActive, StopJoinsLast, Active
<1> QED
  BY <1>1, <1>2, <1>3, <1>4, <1>5, <1>6, <1>7, <1>8, <1>9, <1>10, <1>11, <1>12, <1>13,
       <1>14, <1>15, <1>16, <1>17, <1>18, <1>19, <1>20, <1>21, <1>22, <1>23, <1>24,
       <1>25, <1>26, <1>27, <1>28, <1>29, <1>30, <1>31, <1>32, <1>33
  DEF Next, CallerStep, WorkerStep

-----------------------------------------------------------------------------
\* The inductive invariant holds at every state.
THEOREM Invariance == Spec => []IInv
<1>1. IInv /\ [Next]_vars => IInv'
  BY TypeOKStep, UseStep, JoinInvStep, CalmStep DEF IInv
<1> QED
  BY InitInv, <1>1, PTL DEF Spec

\* Every variable has its type, and a handle that is published and has a worker says so.
THEOREM TypeCorrect == Spec => []TypeOK
<1>1. IInv => TypeOK
  BY DEF IInv
<1> QED
  BY Invariance, <1>1, PTL

\* Two workers execute the body of one handle only when a restart has raced with another
\* one or with a stop: otherwise it is refused while one does (interpreter.c:4580).
THEOREM OneWorkerRuns == Spec => []OneWorker
<1>1. IInv => OneWorker
  BY DEF IInv, CalmInv, LastActive, Active, OneWorker
<1> QED
  BY Invariance, <1>1, PTL

\* await and stop return after the body of every worker they found, whichever threads
\* use the handle and whatever they do to it between, unless a restart has raced.
THEOREM ReturnIsSafe == Spec => ReturnsAfterBody
<1> DEFINE Safe(c) ==
      ~raced /\ cpc[c] \in {"await_spin", "joining", "stop_joining"} /\ cpc'[c] = "idle" =>
        \A k \in 1..since[c] : wpc'[k] \in {"exiting", "ended"}
<1>1. IInv /\ [Next]_vars => [\A c \in Callers : Safe(c)]_vars
  <2> SUFFICES ASSUME IInv, [Next]_vars, NEW c \in Callers,
                      ~raced, cpc[c] \in {"await_spin", "joining", "stop_joining"},
                      cpc'[c] = "idle"
               PROVE  \A k \in 1..since[c] : wpc'[k] \in {"exiting", "ended"}
    OBVIOUS
  <2>1. Joined(c)
    <3> USE DEF IInv, TypeOK, flags, handle, callers, StartWindow
    <3>1. ASSUME NEW d \in Callers, Enter(d) \/ CallerStep(d) PROVE Joined(c)
      BY <3>1 DEF Enter, CallerStep, At, Goto, Return, Await, AwaitSpin, Join, Joined, Pause,
         PausePaused, PauseSet, PauseTimer, Resume, ResumeSet, Stop, StopUnpause, StopFinish,
         StopStarted, Restart, RestartRecheck, RestartClear, RestartUnpause, SetStarted,
         Create, StartDeferred, MarkStarted
    <3>2. ASSUME NEW k \in Runs, WorkerStep(k) PROVE UNCHANGED cpc
      BY <3>2 DEF WorkerStep, WaitIfPaused, WaitIfFinished, Execute, Skip, SkipLast,
         EndStatement, Finish, Exit, WorkerOnly
    <3> QED
      BY <3>1, <3>2 DEF Next, TimerFires, vars
  <2>2. /\ target[c] \in Nat /\ since[c] \in Nat /\ os \in Nat /\ os <= MaxRuns
        /\ MaxRuns \in Nat /\ since[c] <= target[c] /\ target[c] <= os
    BY <2>1, BoundsAssumption DEF Joined, IInv, TypeOK, JoinInv
  <2>3. SUFFICES ASSUME NEW k \in 1..since[c] PROVE wpc[k] \in {"exiting", "ended"}
    BY <2>1 DEF Joined
  <2>4. k \in Runs /\ ~(k > os) /\ k <= target[c]
    BY <2>2 DEF Runs
  <2>5. wpc[k] \in {"exiting", "ended"} \/ Active(k)
    BY <2>4 DEF IInv, TypeOK, WorkerLocs, Active
  <2>6. CASE Active(k)
    <3>1. k = os /\ target[c] = k /\ wpc[k] # "ended"
      BY <2>2, <2>4, <2>6 DEF IInv, CalmInv, LastActive, Active, InBody, Gate
    <3>2. wpc[target[c]] = "ended"
      BY <2>1, <2>4, <3>1 DEF Joined, IInv, JoinInv
    <3> QED
      BY <3>1, <3>2
  <2> QED
    BY <2>5, <2>6
<1> QED
  BY Invariance, <1>1, PTL DEF Spec, ReturnsAfterBody

\* Only a call of stop cuts a body short: a worker that skips a statement is one that
\* stop was called for, unless a restart has raced.
THEOREM StopCuts == Spec => OnlyStopCuts
<1> DEFINE Ordered(k) ==
      ~raced /\ wpc[k] = "test" /\ wpc'[k] \in {"gate", "finishing"} => k \in ordered
<1>1. IInv /\ [Next]_vars => [\A k \in Runs : Ordered(k)]_vars
  <2> SUFFICES ASSUME IInv, [Next]_vars, NEW k \in Runs, ~raced,
                      wpc[k] = "test", wpc'[k] \in {"gate", "finishing"}
               PROVE  k \in ordered
    OBVIOUS
  <2>1. finished
    <3> USE DEF IInv, TypeOK, flags
    <3>1. ASSUME NEW c \in Callers, Enter(c) \/ CallerStep(c), ~finished PROVE FALSE
      <4>1. wpc' = wpc \/ NewWorker
        BY <3>1 DEF Enter, CallerStep, Await, AwaitSpin, Join, Joined, Pause,
           PausePaused, PauseSet, PauseTimer, Resume, ResumeSet, Stop, StopUnpause, StopFinish,
           StopStarted, Restart, RestartRecheck, RestartClear, RestartUnpause, SetStarted,
           Create, StartDeferred, MarkStarted, NoWorker
      <4>2. k <= os /\ k \in Nat /\ os \in Nat
        BY BoundsAssumption DEF Runs
      <4> QED
        BY <4>1, <4>2 DEF NewWorker
    <3>2. ASSUME NEW j \in Runs, WorkerStep(j) PROVE finished
      BY <3>2 DEF WorkerStep, WaitIfPaused, WaitIfFinished, Execute, Skip, SkipLast,
         EndStatement, Finish, Exit, Move
    <3>3. ~TimerFires /\ ~UNCHANGED vars
      BY DEF TimerFires, vars
    <3> QED
      BY <3>1, <3>2, <3>3 DEF Next
  <2> QED
    BY <2>1 DEF IInv, CalmInv, LastActive, Active, InBody
<1> QED
  BY Invariance, <1>1, PTL DEF Spec, OnlyStopCuts
=============================================================================
