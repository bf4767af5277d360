------------------------------ MODULE ForkJoin ------------------------------
(***************************************************************************)
(* What PARFOR and PARALLEL promise: a statement starts tasks in order,    *)
(* some of which cannot be started, waits for those it has started, and    *)
(* ends with the error of the first task that failed, or with none.  Only  *)
(* a statement that would start more than Limit tasks ends while some are  *)
(* running.                                                                *)
(*                                                                         *)
(* Parfor and Parallel implement this specification (ForkJoinSpec).        *)
(***************************************************************************)
EXTENDS Naturals

CONSTANTS
  MaxTasks,     \* bound: tasks of one statement
  Limit,        \* tasks a statement may start
  Errors(_),    \* the errors a task can end with
  NoError, LimitError, Pending

Tasks == 1..MaxTasks

VARIABLES
  status,       \* "none", "running", "ok" or "failed" for each task
  error,        \* the error of each task that failed
  result        \* the result of the statement, Pending while it is executed

Init ==
  /\ status = [i \in Tasks |-> "none"]
  /\ error = [i \in Tasks |-> NoError]
  /\ result \in {NoError, Pending}

AllEnded == \A i \in Tasks : status[i] # "running"

\* Another statement.
Begin ==
  /\ result # Pending /\ AllEnded
  /\ status' = [i \in Tasks |-> "none"]
  /\ error' = [i \in Tasks |-> NoError]
  /\ result' = Pending

Fails(i) ==
  /\ status' = [status EXCEPT ![i] = "failed"]
  /\ \E e \in Errors(i) : error' = [error EXCEPT ![i] = e]

\* The next task is started, or fails at once.
Start(i) ==
  /\ result = Pending /\ i <= Limit
  /\ status[i] = "none" /\ \A j \in 1..(i - 1) : status[j] # "none"
  /\ \/ status' = [status EXCEPT ![i] = "running"] /\ UNCHANGED error
     \/ Fails(i)
  /\ UNCHANGED result

End(i) ==
  /\ status[i] = "running"
  /\ \/ status' = [status EXCEPT ![i] = "ok"] /\ UNCHANGED error
     \/ Fails(i)
  /\ UNCHANGED result

Failed == {i \in Tasks : status[i] = "failed"}

FirstError ==
  IF Failed = {} THEN NoError ELSE error[CHOOSE i \in Failed : \A j \in Failed : i <= j]

Return ==
  /\ result = Pending /\ AllEnded
  /\ result' = FirstError
  /\ UNCHANGED <<status, error>>

\* Limit tasks have been started and there are more.
GiveUp ==
  /\ result = Pending /\ Limit < MaxTasks /\ \A i \in 1..Limit : status[i] # "none"
  /\ result' = LimitError
  /\ UNCHANGED <<status, error>>

Next ==
  \/ Begin \/ Return \/ GiveUp
  \/ \E i \in Tasks : Start(i) \/ End(i)

Spec == Init /\ [][Next]_<<status, error, result>>

=============================================================================
