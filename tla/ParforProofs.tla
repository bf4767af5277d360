---------------------------- MODULE ParforProofs ----------------------------
(***************************************************************************)
(* Proofs about Parfor for every number of iterations, every               *)
(* max_iterations, every set of names, types and environments that bodies  *)
(* leave.                                                                  *)
(***************************************************************************)
EXTENDS Parfor, SequenceTheorems, FiniteSetTheorems, WellFoundedInduction, TLAPS

\* Where the launching thread is agrees with the iterations it has begun: nobody
\* starts after it, and it collects when all that started have ended.
LauncherInv ==
  /\ next <= n + 1
  /\ lpc = "create" => next <= n /\ next <= MaxIterations
  /\ lpc = "limit" => next <= n /\ next > MaxIterations
  /\ lpc = "collect" => \A i \in Started : wpc[i] = "ended"
  /\ \A i \in Iterations : i >= next => wpc[i] = "none"

\* The arrays hold what an iteration reports, or that it could not be created.
ReportInv ==
  \A i \in Iterations :
    /\ wpc[i] = "ended" => report[i] = outcome[i]
    /\ wpc[i] = "none" /\ i < next => report[i].status = "error"
    /\ wpc[i] = "none" /\ i >= next => report[i] = Clean

\* A worker that has not executed its body leaves nothing; until it merges it has all
\* to merge.
BodyInv ==
  \A i \in Iterations :
    /\ wpc[i] \in {"none", "start", "body"} => left[i] = <<>> /\ todo[i] = <<>>
    /\ wpc[i] \in {"record", "lock"} => todo[i] = left[i]

\* An iteration created after a break has found stop_launch set, or will.
LateInv ==
  \A i \in late :
    stopLaunch /\ left[i] = <<>> /\ wpc[i] \notin {"none", "body", "record"}

Merging(i) == wpc[i] \in {"merge", "define", "assign"}

LockInv == \A i \in Iterations : mergeLock = i <=> Merging(i)

\* What a name has whose value is iteration i's.
Own(e, i) == [type |-> e.type, by |-> i, target |-> ""]

\* The worker in env_define or env_assign is at a typed symbol that nobody else has
\* bound since it looked: what it assigns to is its own binding.
EntryInv ==
  \A i \in Iterations :
    /\ wpc[i] \in {"define", "assign"} =>
         todo[i] # <<>> /\ Head(todo[i]).target = "" /\ Head(todo[i]).type # Unknown
    /\ wpc[i] = "define" => parent[Head(todo[i]).name] = Absent
    /\ wpc[i] = "assign" => parent[Head(todo[i]).name] = Own(Head(todo[i]), Nobody)

Valued(e, x) == e.name = x /\ e.target = "" /\ e.type # Unknown /\ e.init

Merged(i) == wpc[i] \in {"report", "ended"} /\ outcome[i].status # "error"

\* What a merged iteration leaves is in the enclosing environment, and what a merging
\* one leaves is there or yet to be merged.
MergedInv ==
  \A i \in Iterations, x \in Names : Leaves(i, x) =>
    /\ Merged(i) => parent[x] # Absent
    /\ Merging(i) => \/ parent[x] # Absent
                     \/ \E k \in DOMAIN todo[i] : Valued(todo[i][k], x)

\* Nobody merges a symbol that a merged iteration leaves.
FirstInv ==
  \A i, j \in Iterations :
    wpc[i] \in {"define", "assign"} /\ Merged(j) => ~Leaves(j, Head(todo[i]).name)

\* Only an iteration that merges, or has merged, gives a name its value.
ByInv ==
  \A x \in Names : parent[x] # Absent /\ parent[x].by \in Iterations =>
    Merging(parent[x].by) \/ wpc[parent[x].by] \in {"report", "ended"}

\* Iteration i gave x the value that it has.
Gave(i, x) == parent[x] # Absent /\ parent[x].target = "" /\ parent[x].by = i

\* MergesWhole, of every state.
WholeInv ==
  \A i, j \in Iterations, x, y \in Names :
    /\ i # j
    /\ outcome[i].status # "error" /\ outcome[j].status # "error"
    /\ Leaves(i, x) /\ Leaves(i, y) /\ Leaves(j, x) /\ Leaves(j, y)
    => ~ (Gave(i, x) /\ Gave(j, y))

\* The inductive invariant.
IInv == /\ TypeOK /\ LauncherInv /\ ReportInv /\ BodyInv /\ LateInv /\ LockInv
        /\ EntryInv /\ MergedInv /\ FirstInv /\ ByInv /\ WholeInv

-----------------------------------------------------------------------------
\* A set of numbers that is not empty has a least element.
LEMMA LeastExists ==
  ASSUME NEW S \in SUBSET Nat, S # {}
  PROVE  \E i \in S : \A j \in S : i <= j
<1> DEFINE Less == OpToRel(<, Nat)
<1>1. IsWellFoundedOn(Less, Nat)
  BY NatLessThanWellFounded
<1>2. PICK i \in S : \A j \in S : ~ (<<j, i>> \in Less)
  BY <1>1, WFMin
<1>3. \A j \in S : ~ (j < i)
  BY <1>2 DEF OpToRel
<1> QED
  BY <1>3

\* First gives the least of a set of iterations.
LEMMA FirstLeast ==
  ASSUME NEW S \in SUBSET Iterations, S # {}
  PROVE  First(S) \in S /\ \A j \in S : First(S) <= j
<1>0. MaxN \in Nat
  BY ParforAssumption
<1>1. S \in SUBSET Nat
  BY <1>0 DEF Iterations
<1>2. PICK i \in S : \A j \in S : i <= j
  BY <1>1, LeastExists
<1> QED
  BY <1>2 DEF First

\* The rest of a queue is a queue, and its elements are the others.
LEMMA TailSeq ==
  ASSUME NEW S, NEW q \in Seq(S), q # <<>>
  PROVE  /\ Tail(q) \in Seq(S) /\ Head(q) \in S /\ Head(q) = q[1]
         /\ \A k \in DOMAIN q : k # 1 => k - 1 \in DOMAIN Tail(q) /\ Tail(q)[k - 1] = q[k]
BY HeadTailProperties

\* An alias resolves to a name that is bound.
LEMMA BoundTarget ==
  ASSUME TypeOK, NEW e, NEW y \in AliasTargets(e)
  PROVE  y \in Names /\ parent[y] \in Bound
<1>1. y \in Names /\ LeadsTo(e.target, y, e.name)
  BY DEF AliasTargets
<1>2. PICK chain \in [0..Cardinality(Names) -> {z \in Names \ {e.name} : parent[z] # Absent}] :
        chain[Cardinality(Names)] = y
  BY <1>1 DEF LeadsTo
<1>3. Cardinality(Names) \in Nat
  BY ParforAssumption, FS_CardinalityType
<1> QED
  BY <1>1, <1>2, <1>3 DEF TypeOK

\* A binding with another iteration's value.
LEMMA WithBy ==
  ASSUME NEW b \in Bound, NEW i \in Iterations \cup {Nobody}
  PROVE  [b EXCEPT !.by = i] = [type |-> b.type, by |-> i, target |-> b.target]
<1> DEFINE S == Iterations \cup {Nobody}
           T == Names \cup {""}
<1>1. b \in [type : Types, by : S, target : T] /\ i \in S
  BY DEF Bound
<1> HIDE DEF S, T
<1> QED
  BY <1>1

\* A value of iteration i, or of nobody yet, is a binding.
LEMMA OwnBound ==
  ASSUME NEW e \in Entries, e.type # Unknown, NEW i \in Iterations \cup {Nobody}
  PROVE  /\ e.name \in Names
         /\ Own(e, i) \in Bound /\ Own(e, i) # Absent
         /\ Own(e, i).type = e.type /\ Own(e, i).by = i /\ Own(e, i).target = ""
         /\ [Own(e, Nobody) EXCEPT !.by = i] = Own(e, i)
<1>1. e.name \in Names /\ e.type \in Types
  BY DEF Entries
<1>2. Own(e, i) \in Bound /\ Own(e, Nobody) \in Bound
  BY <1>1 DEF Own, Bound
<1>3. /\ Own(e, i).type = e.type /\ Own(e, i).by = i /\ Own(e, i).target = ""
      /\ Own(e, Nobody).type = e.type /\ Own(e, Nobody).target = ""
  BY DEF Own
<1>4. [Own(e, Nobody) EXCEPT !.by = i] = Own(e, i)
  <2>1. [Own(e, Nobody) EXCEPT !.by = i] =
          [type |-> Own(e, Nobody).type, by |-> i, target |-> Own(e, Nobody).target]
    BY <1>2, WithBy
  <2> QED
    BY <1>3, <2>1 DEF Own
<1> QED
  BY <1>1, <1>2, <1>3, <1>4, AbsentAssumption

\* A statement begins in a state that satisfies the invariant.
LEMMA InitInv == Init => IInv
<1> SUFFICES ASSUME Init PROVE IInv
  OBVIOUS
<1>0. MaxN \in Nat
  BY ParforAssumption
<1>a. /\ n \in 0..MaxN /\ next = 1 /\ lpc = "check" /\ result = Nobody /\ stopLaunch = FALSE
      /\ mergeLock = Nobody /\ late = {}
      /\ parent = [x \in Names |-> Absent]
      /\ wpc = [i \in Iterations |-> "none"]
  BY DEF Init
<1>b. /\ outcome = [i \in Iterations |-> Clean] /\ report = [i \in Iterations |-> Clean]
      /\ todo = [i \in Iterations |-> <<>>] /\ left = [i \in Iterations |-> <<>>]
  BY DEF Init
<1>1. TypeOK
  <2>1. n \in 0..MaxN /\ next \in 1..(MaxN + 1)
    BY <1>0, <1>a
  <2>2. Clean \in Outcomes /\ result \in Results
    BY <1>a DEF Clean, Outcomes, Results
  <2>3. todo \in [Iterations -> Seq(Entries)] /\ left \in [Iterations -> Seq(Entries)]
    BY <1>b
  <2>4. outcome \in [Iterations -> Outcomes] /\ report \in [Iterations -> Outcomes]
    BY <1>b, <2>2
  <2>5. lpc \in {"check", "limit", "create", "join", "collect", "done"} /\ stopLaunch \in BOOLEAN
    BY <1>a
  <2>6. wpc \in [Iterations -> {"none", "start", "body", "record", "lock", "merge", "define",
                               "assign", "report", "ended"}]
    BY <1>a
  <2>7. /\ parent \in [Names -> Bound \cup {Absent}]
        /\ late \subseteq Iterations /\ mergeLock \in Iterations \cup {Nobody}
    BY <1>a
  <2> QED
    BY <2>1, <2>2, <2>3, <2>4, <2>5, <2>6, <2>7 DEF TypeOK
<1>2. LauncherInv
  BY <1>0, <1>a DEF LauncherInv
<1>3. ReportInv /\ BodyInv /\ LateInv
  <2>1. ReportInv
    BY <1>0, <1>a, <1>b DEF ReportInv, Iterations
  <2>2. BodyInv
    BY <1>b DEF BodyInv
  <2> QED
    BY <1>a, <2>1, <2>2 DEF LateInv
<1>4. LockInv /\ EntryInv /\ ByInv
  <2>1. Nobody \notin Iterations
    BY ParforAssumption
  <2> QED
    BY <1>a, <2>1 DEF LockInv, EntryInv, ByInv, Merging
<1>5. \A i \in Iterations : DOMAIN left[i] = {}
  BY <1>b
<1>6. \A i \in Iterations, x \in Names : ~Leaves(i, x)
  BY <1>5 DEF Leaves
<1>7. MergedInv /\ FirstInv /\ WholeInv
  <2>1. \A i \in Iterations : wpc[i] = "none"
    BY <1>a
  <2> QED
    BY <1>6, <2>1 DEF MergedInv, FirstInv, WholeInv, Merging, Merged
<1> QED
  BY <1>1, <1>2, <1>3, <1>4, <1>7 DEF IInv

\* env_assign in a merge succeeds, and gives the name this iteration's value.
LEMMA AssignOwn ==
  ASSUME IInv, NEW i \in Iterations, MergeAssign(i)
  PROVE  /\ parent' = [parent EXCEPT ![Head(todo[i]).name] = Own(Head(todo[i]), i)]
         /\ todo' = [todo EXCEPT ![i] = Tail(@)]
         /\ wpc' = [wpc EXCEPT ![i] = "merge"]
         /\ UNCHANGED <<launcher, stopLaunch, report, left, outcome, mergeLock>>
         /\ Head(todo[i]).name \in Names
         /\ Own(Head(todo[i]), i) \in Bound /\ Own(Head(todo[i]), i) # Absent
         /\ parent[Head(todo[i]).name] # Absent
<1> DEFINE e == Head(todo[i])
<1>1. parent[e.name] = Own(e, Nobody)
  BY DEF MergeAssign, IInv, EntryInv
<1>5. e \in Entries /\ e.type # Unknown
  BY TailSeq DEF MergeAssign, IInv, EntryInv, TypeOK
<1>6. /\ e.name \in Names /\ Own(e, i) \in Bound /\ Own(e, i) # Absent
      /\ Own(e, Nobody) # Absent
      /\ Own(e, Nobody).type = e.type /\ [Own(e, Nobody) EXCEPT !.by = i] = Own(e, i)
  BY <1>5, OwnBound
<1>2. parent[e.name].type = e.type /\ [parent[e.name] EXCEPT !.by = i] = Own(e, i)
  BY <1>1, <1>6
<1>3. /\ parent' = [parent EXCEPT ![e.name] = [@ EXCEPT !.by = i]]
      /\ todo' = [todo EXCEPT ![i] = Tail(@)]
      /\ wpc' = [wpc EXCEPT ![i] = "merge"]
      /\ UNCHANGED <<launcher, stopLaunch, report, left, outcome, mergeLock>>
  BY <1>2 DEF MergeAssign, Goto
<1>4. [parent EXCEPT ![e.name] = [@ EXCEPT !.by = i]] = [parent EXCEPT ![e.name] = Own(e, i)]
  BY <1>2
<1> QED
  BY <1>1, <1>3, <1>4, <1>6

\* The counters are natural numbers.
LEMMA NatTypes ==
  ASSUME IInv
  PROVE  /\ n \in Nat /\ next \in Nat /\ MaxN \in Nat /\ MaxIterations \in Nat
         /\ n <= MaxN /\ next >= 1
         /\ \A i \in Iterations : i \in Nat /\ 1 <= i /\ i <= MaxN
         /\ \A i \in Nat : 1 <= i /\ i <= MaxN => i \in Iterations
<1>1. MaxN \in Nat /\ MaxIterations \in Nat
  BY ParforAssumption
<1>2. n \in 0..MaxN /\ next \in 1..(MaxN + 1)
  BY DEF IInv, TypeOK
<1> QED
  BY <1>1, <1>2 DEF Iterations

\* What Create does, of the next iteration.
LEMMA CreateStep ==
  ASSUME IInv, Create
  PROVE  /\ next \in Iterations /\ next \in Nat /\ next <= n /\ next <= MaxIterations
         /\ wpc[next] = "none"
         /\ next' = next + 1 /\ next < next' /\ next' \in 1..(MaxN + 1)
         /\ lpc = "create" /\ lpc' = "check"
         /\ \/ /\ wpc' = [wpc EXCEPT ![next] = "start"] /\ report' = report
               /\ late' = IF stopLaunch THEN late \cup {next} ELSE late
            \/ /\ wpc' = wpc /\ late' = late
               /\ report' = [report EXCEPT ![next] = [status |-> "error", count |-> 0]]
         /\ UNCHANGED <<n, result, stopLaunch, outcome, todo, mergeLock, parent, left>>
<1>0. MaxN \in Nat /\ next \in Nat /\ n \in Nat /\ n <= MaxN /\ next >= 1
  BY NatTypes
<1>1. next <= n /\ next <= MaxIterations
  BY DEF Create, IInv, LauncherInv
<1>2. next \in Iterations /\ next + 1 \in 1..(MaxN + 1)
  BY <1>0, <1>1 DEF Iterations
<1>3. wpc[next] = "none" /\ report[next] = Clean
  BY <1>0, <1>2 DEF IInv, LauncherInv, ReportInv
<1>4. [report[next] EXCEPT !.status = "error"] = [status |-> "error", count |-> 0]
  BY <1>3 DEF Clean
<1>5. \/ /\ wpc' = [wpc EXCEPT ![next] = "start"] /\ report' = report
         /\ late' = IF stopLaunch THEN late \cup {next} ELSE late
      \/ /\ wpc' = wpc /\ late' = late
         /\ report' = [report EXCEPT ![next] = [report[next] EXCEPT !.status = "error"]]
  BY DEF Create
<1> QED
  BY <1>0, <1>1, <1>2, <1>3, <1>4, <1>5 DEF Create

\* Every step keeps the types: what is queued are entries, and what an alias is
\* resolved to is a name that is bound.
LEMMA TypeOKStep == IInv /\ [Next]_vars => TypeOK'
<1> SUFFICES ASSUME IInv, [Next]_vars PROVE TypeOK'
  OBVIOUS
<1>0. TypeOK /\ MaxN \in Nat
  BY ParforAssumption DEF IInv
<1>q. ASSUME NEW i \in Iterations, todo[i] # <<>>
      PROVE  Head(todo[i]) \in Entries /\ Tail(todo[i]) \in Seq(Entries)
  BY <1>0, <1>q, TailSeq DEF TypeOK
<1>e. [status |-> "error", count |-> 0] \in Outcomes
  BY DEF Outcomes
<1> USE <1>0 DEF TypeOK, launcher, Goto
<1>1. CASE CheckStop
  BY <1>1 DEF CheckStop
<1>2. CASE Limit
  BY <1>2 DEF Limit, Results
<1>3. CASE Create
  BY <1>3, <1>e, CreateStep
<1>4. CASE Join
  BY <1>4 DEF Join
<1>5. CASE Collect
  <2>1. ASSUME NEW s, Reported(s) # {}
        PROVE  First(Reported(s)) \in Iterations /\ report[First(Reported(s))].status = s
    BY <2>1, FirstLeast DEF Reported
  <2>2. result' \in Results
    <3>1. CASE Reported("error") # {}
      BY <1>5, <2>1, <3>1 DEF Collect, Results
    <3>2. CASE Reported("error") = {} /\ Reported("break") # {}
      <4> DEFINE r == report[First(Reported("break"))]
      <4>1. r \in Outcomes /\ r.status = "break"
        BY <2>1, <3>2
      <4>2. MaxBreak \in Nat /\ r.count \in 1..MaxBreak
        BY <4>1, ParforAssumption DEF Outcomes
      <4>3. r.count > 1 => [status |-> "break", count |-> r.count - 1] \in Outcomes
        BY <4>2 DEF Outcomes
      <4>4. Clean \in Outcomes
        BY DEF Clean, Outcomes
      <4> QED
        BY <1>5, <3>2, <4>3, <4>4 DEF Collect, Results
    <3>3. CASE Reported("error") = {} /\ Reported("break") = {}
      BY <1>5, <3>3 DEF Collect, Results, Clean, Outcomes
    <3> QED
      BY <3>1, <3>2, <3>3
  <2> QED
    BY <1>5, <2>2 DEF Collect
<1>6. ASSUME NEW i \in Iterations, Start(i) PROVE TypeOK'
  BY <1>6 DEF Start
<1>7. ASSUME NEW i \in Iterations, EndBody(i) PROVE TypeOK'
  <2>1. PICK o \in Outcomes, l \in Locals :
          /\ outcome' = [outcome EXCEPT ![i] = o]
          /\ todo' = [todo EXCEPT ![i] = l]
          /\ left' = [left EXCEPT ![i] = l]
          /\ Goto(i, CASE o.status = "break" -> "record"
                       [] o.status = "error" -> "report"
                       [] OTHER -> "lock")
    BY <1>7 DEF EndBody
  <2>2. l \in Seq(Entries)
    BY LocalsAssumption
  <2> QED
    BY <1>7, <2>1, <2>2 DEF EndBody
<1>8. ASSUME NEW i \in Iterations, RecordBreak(i) PROVE TypeOK'
  BY <1>8 DEF RecordBreak
<1>9. ASSUME NEW i \in Iterations, LockMerge(i) PROVE TypeOK'
  BY <1>9 DEF LockMerge
<1>10. ASSUME NEW i \in Iterations, MergeLook(i) PROVE TypeOK'
  BY <1>q, <1>10 DEF MergeLook, Skipped
<1>11. ASSUME NEW i \in Iterations, MergeDefine(i) PROVE TypeOK'
  <2> DEFINE e == Head(todo[i])
  <2>1. todo[i] # <<>> /\ e.type # Unknown
    BY <1>11 DEF MergeDefine, IInv, EntryInv
  <2>2. e \in Entries /\ Tail(todo[i]) \in Seq(Entries)
    BY <1>q, <2>1
  <2>3. Own(e, Nobody) \in Bound
    BY <2>1, <2>2, OwnBound
  <2>4. parent' = parent \/ parent' = [parent EXCEPT ![e.name] = Own(e, Nobody)]
    BY <1>11 DEF MergeDefine, Own
  <2>5. parent' \in [Names -> Bound \cup {Absent}]
    BY <2>3, <2>4
  <2>6. /\ wpc' = [wpc EXCEPT ![i] = "assign"] \/ wpc' = [wpc EXCEPT ![i] = "merge"]
        /\ todo' = todo \/ todo' = [todo EXCEPT ![i] = Tail(@)]
        /\ UNCHANGED <<launcher, stopLaunch, outcome, report, mergeLock, left>>
    BY <1>11 DEF MergeDefine
  <2> QED
    BY <2>2, <2>5, <2>6
<1>12. ASSUME NEW i \in Iterations, MergeAssign(i) PROVE TypeOK'
  <2> DEFINE e == Head(todo[i])
  <2>1. todo[i] # <<>> /\ e.type # Unknown
    BY <1>12 DEF MergeAssign, IInv, EntryInv
  <2>2. e \in Entries /\ Tail(todo[i]) \in Seq(Entries) /\ Own(e, i) \in Bound
    BY <1>q, <2>1, OwnBound
  <2>3. /\ parent' = [parent EXCEPT ![e.name] = Own(e, i)]
        /\ todo' = [todo EXCEPT ![i] = Tail(@)]
        /\ wpc' = [wpc EXCEPT ![i] = "merge"]
        /\ UNCHANGED <<launcher, stopLaunch, report, left, outcome, mergeLock>>
    BY <1>12, AssignOwn
  <2> QED
    BY <2>2, <2>3
<1>13. ASSUME NEW i \in Iterations, MergeAlias(i) PROVE TypeOK'
  <2> DEFINE e == Head(todo[i])
  <2>1. e \in Entries /\ Tail(todo[i]) \in Seq(Entries) /\ e.name \in Names
    BY <1>q, <1>13 DEF MergeAlias, Entries
  <2>2. ASSUME NEW y \in AliasTargets(e)
        PROVE  [type |-> parent[y].type, by |-> i, target |-> y] \in Bound
    BY BoundTarget DEF Bound
  <2>3. CASE MergeFails(i)
    BY <1>13, <1>e, <2>3 DEF MergeAlias, MergeFails
  <2>4. ASSUME NEW y \in AliasTargets(e),
               parent' = [parent EXCEPT ![e.name] =
                            [type |-> parent[y].type, by |-> i, target |-> y]],
               Skipped(i), UNCHANGED <<outcome, mergeLock>>
        PROVE  TypeOK'
    BY <1>13, <2>1, <2>2, <2>4 DEF MergeAlias, Skipped
  <2> QED
    BY <1>13, <2>3, <2>4 DEF MergeAlias
<1>14. ASSUME NEW i \in Iterations, UnlockMerge(i) PROVE TypeOK'
  BY <1>14 DEF UnlockMerge
<1>15. ASSUME NEW i \in Iterations, Report(i) PROVE TypeOK'
  BY <1>15 DEF Report
<1>16. CASE UNCHANGED vars
  BY <1>16 DEF vars
<1> QED
  BY <1>1, <1>2, <1>3, <1>4, <1>5, <1>6, <1>7, <1>8, <1>9, <1>10, <1>11, <1>12, <1>13,
     <1>14, <1>15, <1>16 DEF Next, LauncherStep, WorkerStep

\* A worker changes nothing of another's, and it binds names only while it merges.
LEMMA WorkerFrame ==
  ASSUME IInv, NEW i \in Iterations, WorkerStep(i)
  PROVE  /\ \A j \in Iterations \ {i} : /\ wpc'[j] = wpc[j] /\ outcome'[j] = outcome[j]
                                        /\ todo'[j] = todo[j] /\ left'[j] = left[j]
         /\ wpc[i] # "body" => left' = left
         /\ ~Merging(i) => parent' = parent
         /\ UNCHANGED <<n, lpc, next, result, late>>
<1> USE DEF IInv, TypeOK, launcher, Goto, Skipped, MergeFails, Merging
<1>1. CASE Start(i) \/ EndBody(i) \/ RecordBreak(i) \/ LockMerge(i)
  BY <1>1 DEF Start, EndBody, RecordBreak, LockMerge
<1>2. CASE MergeLook(i)
  BY <1>2 DEF MergeLook
<1>3. CASE MergeDefine(i)
  BY <1>3 DEF MergeDefine
<1>4. CASE MergeAssign(i)
  BY <1>4 DEF MergeAssign
<1>5. CASE MergeAlias(i)
  BY <1>5 DEF MergeAlias
<1>6. CASE UnlockMerge(i) \/ Report(i)
  BY <1>6 DEF UnlockMerge, Report
<1> QED
  BY <1>1, <1>2, <1>3, <1>4, <1>5, <1>6 DEF WorkerStep

\* The launching thread touches no worker that it has created.
LEMMA LauncherFrame ==
  ASSUME IInv, LauncherStep
  PROVE  /\ \A i \in Iterations :
              wpc'[i] = wpc[i] \/ (wpc[i] = "none" /\ wpc'[i] = "start")
         /\ UNCHANGED <<outcome, todo, left, parent, mergeLock, stopLaunch>>
BY DEF LauncherStep, CheckStop, Limit, Create, Join, Collect, IInv, TypeOK, LauncherInv

\* Where a worker's steps begin and end.
LEMMA WorkerPlaces ==
  ASSUME IInv, NEW i \in Iterations, WorkerStep(i)
  PROVE  /\ wpc[i] \notin {"none", "ended"}
         /\ wpc'[i] \notin {"none", "start"}
         /\ wpc'[i] = "ended" => Report(i)
         /\ wpc'[i] = "body" => Start(i)
         /\ wpc'[i] = "record" => EndBody(i)
         /\ wpc'[i] = "lock" => Start(i) \/ EndBody(i) \/ RecordBreak(i)
<1>0. wpc \in [Iterations -> {"none", "start", "body", "record", "lock", "merge", "define",
                            "assign", "report", "ended"}]
  BY DEF IInv, TypeOK
<1> USE <1>0 DEF Goto
<1>1. CASE Start(i)
  BY <1>1 DEF Start
<1>2. CASE EndBody(i)
  <2>1. PICK o \in Outcomes :
          wpc' = [wpc EXCEPT ![i] = CASE o.status = "break" -> "record"
                                      [] o.status = "error" -> "report"
                                      [] OTHER -> "lock"]
    BY <1>2 DEF EndBody
  <2>2. wpc'[i] \in {"record", "report", "lock"}
    BY <2>1
  <2> QED
    BY <1>2, <2>2 DEF EndBody
<1>3. CASE RecordBreak(i)
  BY <1>3 DEF RecordBreak
<1>4. CASE LockMerge(i) \/ UnlockMerge(i)
  BY <1>4 DEF LockMerge, UnlockMerge
<1>5. CASE Report(i)
  BY <1>5 DEF Report
<1>6. CASE MergeLook(i)
  BY <1>6 DEF MergeLook, Skipped
<1>7. CASE MergeDefine(i)
  <2>1. wpc' = [wpc EXCEPT ![i] = "assign"] \/ wpc' = [wpc EXCEPT ![i] = "merge"]
    BY <1>7 DEF MergeDefine
  <2> QED
    BY <1>7, <2>1 DEF MergeDefine
<1>8. CASE MergeAssign(i)
  <2>1. wpc' = [wpc EXCEPT ![i] = "merge"]
    BY <1>8, AssignOwn
  <2> QED
    BY <1>8, <2>1 DEF MergeAssign
<1>9. CASE MergeAlias(i)
  <2>1. wpc' = wpc \/ wpc' = [wpc EXCEPT ![i] = "report"]
    BY <1>9 DEF MergeAlias, MergeFails, Skipped
  <2> QED
    BY <1>9, <2>1 DEF MergeAlias
<1> QED
  BY <1>1, <1>2, <1>3, <1>4, <1>5, <1>6, <1>7, <1>8, <1>9 DEF WorkerStep

\* Nobody is created beyond n or max_iterations, nor once the others are collected.
LEMMA LauncherInvStep == IInv /\ [Next]_vars => LauncherInv'
<1> SUFFICES ASSUME IInv, [Next]_vars PROVE LauncherInv'
  OBVIOUS
<1>0. /\ n \in Nat /\ next \in Nat /\ MaxIterations \in Nat
      /\ \A i \in Iterations : i \in Nat
  BY NatTypes
<1>1. LauncherInv /\ TypeOK
  BY DEF IInv
<1>2. CASE CheckStop
  <2>1. /\ lpc' = "create" => next <= n /\ next <= MaxIterations
        /\ lpc' = "limit" => next <= n /\ next > MaxIterations
        /\ lpc' # "collect"
        /\ UNCHANGED <<n, next, wpc>>
    BY <1>0, <1>2 DEF CheckStop
  <2> QED
    BY <1>1, <2>1 DEF LauncherInv
<1>3. CASE Limit
  BY <1>1, <1>3 DEF Limit, LauncherInv
<1>4. CASE Create
  <2>1. /\ next \in Iterations /\ next <= n /\ next' = next + 1 /\ n' = n /\ lpc' = "check"
        /\ wpc' = wpc \/ wpc' = [wpc EXCEPT ![next] = "start"]
    BY <1>4, CreateStep
  <2>2. next' <= n' + 1
    BY <1>0, <2>1
  <2>3. \A i \in Iterations : i >= next' => i >= next /\ i # next
    BY <1>0, <2>1
  <2>4. \A i \in Iterations : i >= next' => wpc'[i] = "none"
    BY <1>1, <2>1, <2>3 DEF LauncherInv, TypeOK
  <2> QED
    BY <2>1, <2>2, <2>4 DEF LauncherInv
<1>5. CASE Join
  BY <1>1, <1>5 DEF Join, LauncherInv, Started
<1>6. CASE Collect
  BY <1>1, <1>6 DEF Collect, LauncherInv
<1>7. ASSUME NEW i \in Iterations, WorkerStep(i) PROVE LauncherInv'
  <2>1. /\ UNCHANGED <<n, lpc, next>>
        /\ \A j \in Iterations \ {i} : wpc'[j] = wpc[j]
    BY <1>7, WorkerFrame
  <2>2. wpc[i] \notin {"none", "ended"}
    BY <1>7, WorkerPlaces
  <2>3. ~ (i >= next) /\ lpc # "collect"
    BY <1>1, <2>2 DEF LauncherInv, Started
  <2> QED
    BY <1>1, <2>1, <2>3 DEF LauncherInv
<1>8. CASE UNCHANGED vars
  BY <1>1, <1>8 DEF vars, LauncherInv, Started
<1> QED
  BY <1>2, <1>3, <1>4, <1>5, <1>6, <1>7, <1>8 DEF Next, LauncherStep

\* An iteration reports once, and only thrd_create's failure reports for it.
LEMMA ReportInvStep == IInv /\ [Next]_vars => ReportInv'
<1> SUFFICES ASSUME IInv, [Next]_vars, NEW j \in Iterations
             PROVE  /\ wpc'[j] = "ended" => report'[j] = outcome'[j]
                    /\ wpc'[j] = "none" /\ j < next' => report'[j].status = "error"
                    /\ wpc'[j] = "none" /\ j >= next' => report'[j] = Clean
  BY DEF ReportInv, Clean
<1>0. next \in Nat /\ j \in Nat
  BY NatTypes
<1>1. /\ wpc[j] = "ended" => report[j] = outcome[j]
      /\ wpc[j] = "none" /\ j < next => report[j].status = "error"
      /\ wpc[j] = "none" /\ j >= next => report[j] = Clean
      /\ TypeOK
  BY DEF IInv, ReportInv
<1>2. CASE CheckStop \/ Limit \/ Join \/ Collect
  BY <1>1, <1>2 DEF CheckStop, Limit, Join, Collect
<1>3. CASE Create
  <2>1. next' = next + 1 /\ outcome' = outcome /\ wpc[next] = "none" /\ next \in Iterations
    BY <1>3, CreateStep
  <2>2. CASE j # next
    <3>1. wpc'[j] = wpc[j] /\ report'[j] = report[j] /\ (j < next' <=> j < next)
      BY <1>0, <1>1, <1>3, <2>1, <2>2, CreateStep DEF TypeOK
    <3>2. j >= next' => j >= next
      BY <1>0, <2>1
    <3> QED
      BY <1>1, <2>1, <3>1, <3>2
  <2>3. CASE j = next
    <3>1. ~ (j >= next')
      BY <1>0, <2>1, <2>3
    <3>2. \/ wpc'[j] = "start"
          \/ wpc'[j] = "none" /\ report'[j] = [status |-> "error", count |-> 0]
      BY <1>1, <1>3, <2>1, <2>3, CreateStep DEF TypeOK
    <3> QED
      BY <3>1, <3>2
  <2> QED
    BY <2>2, <2>3
<1>4. ASSUME NEW i \in Iterations, WorkerStep(i), ~Report(i)
      PROVE  /\ report' = report /\ next' = next
             /\ \/ wpc'[j] = wpc[j] /\ outcome'[j] = outcome[j]
                \/ wpc'[j] \notin {"none", "ended"}
  <2>1. report' = report
    BY <1>4 DEF WorkerStep, Start, EndBody, RecordBreak, LockMerge, MergeLook, MergeDefine,
       MergeAssign, MergeAlias, UnlockMerge
  <2> QED
    BY <1>4, <2>1, WorkerFrame, WorkerPlaces
<1>5. ASSUME NEW i \in Iterations, Report(i)
      PROVE  /\ next' = next
             /\ \/ wpc'[j] = wpc[j] /\ outcome'[j] = outcome[j] /\ report'[j] = report[j]
                \/ wpc'[j] = "ended" /\ report'[j] = outcome'[j]
  BY <1>1, <1>5 DEF Report, Goto, launcher, TypeOK
<1>6. CASE UNCHANGED vars
  BY <1>1, <1>6 DEF vars
<1> QED
  BY <1>1, <1>2, <1>3, <1>4, <1>5, <1>6 DEF Next, LauncherStep

\* What a worker has to merge is what its body leaves.
LEMMA BodyInvStep == IInv /\ [Next]_vars => BodyInv'
<1> SUFFICES ASSUME IInv, [Next]_vars, NEW j \in Iterations
             PROVE  /\ wpc'[j] \in {"none", "start", "body"} =>
                         left'[j] = <<>> /\ todo'[j] = <<>>
                    /\ wpc'[j] \in {"record", "lock"} => todo'[j] = left'[j]
  BY DEF BodyInv
<1>1. /\ wpc[j] \in {"none", "start", "body"} => left[j] = <<>> /\ todo[j] = <<>>
      /\ wpc[j] \in {"record", "lock"} => todo[j] = left[j]
      /\ TypeOK
  BY DEF IInv, BodyInv
<1>2. CASE LauncherStep
  BY <1>1, <1>2, LauncherFrame
<1>3. ASSUME NEW i \in Iterations, WorkerStep(i), i # j
      PROVE  wpc'[j] = wpc[j] /\ left'[j] = left[j] /\ todo'[j] = todo[j]
  BY <1>3, WorkerFrame
<1>4. CASE Start(j)
  BY <1>1, <1>4 DEF Start, Goto, TypeOK
<1>5. CASE EndBody(j)
  <2>1. PICK l : todo' = [todo EXCEPT ![j] = l] /\ left' = [left EXCEPT ![j] = l]
    BY <1>5 DEF EndBody
  <2>2. WorkerStep(j) /\ wpc[j] = "body"
    BY <1>5 DEF WorkerStep, EndBody
  <2>3. ~Start(j)
    BY <2>2 DEF Start
  <2>4. wpc'[j] \notin {"none", "start", "body"}
    BY <2>2, <2>3, WorkerPlaces
  <2> QED
    BY <1>1, <2>1, <2>4 DEF TypeOK
<1>6. CASE RecordBreak(j)
  BY <1>1, <1>6 DEF RecordBreak, Goto, TypeOK
<1>7. ASSUME WorkerStep(j), ~Start(j), ~EndBody(j), ~RecordBreak(j)
      PROVE  wpc'[j] \notin {"none", "start", "body", "record", "lock"}
  BY <1>7, WorkerPlaces
<1>8. CASE UNCHANGED vars
  BY <1>1, <1>8 DEF vars
<1> QED
  BY <1>1, <1>2, <1>3, <1>4, <1>5, <1>6, <1>7, <1>8 DEF Next

\* stop_launch stays set, so an iteration created after it skips its body.
LEMMA LateInvStep == IInv /\ [Next]_vars => LateInv'
<1> SUFFICES ASSUME IInv, [Next]_vars, NEW j \in late'
             PROVE  /\ stopLaunch' /\ left'[j] = <<>>
                    /\ wpc'[j] \notin {"none", "body", "record"}
  BY DEF LateInv
<1>1. /\ j \in late => stopLaunch /\ left[j] = <<>> /\ wpc[j] \notin {"none", "body", "record"}
      /\ TypeOK
  BY DEF IInv, LateInv
<1>2. stopLaunch => stopLaunch'
  BY <1>1 DEF Next, LauncherStep, CheckStop, Limit, Create, Join, Collect, WorkerStep, Start,
     EndBody, RecordBreak, LockMerge, MergeLook, MergeDefine, MergeAssign, MergeAlias,
     UnlockMerge, Report, vars
<1>3. CASE LauncherStep /\ j \in late
  BY <1>1, <1>2, <1>3, LauncherFrame DEF TypeOK
<1>4. CASE Create /\ j \notin late
  <2>1. j = next /\ j \in Iterations /\ wpc' = [wpc EXCEPT ![j] = "start"] /\ stopLaunch
    BY <1>4, CreateStep
  <2>2. left[j] = <<>> /\ left' = left
    BY <1>4, <2>1, CreateStep DEF IInv, BodyInv
  <2> QED
    BY <1>1, <1>2, <2>1, <2>2 DEF TypeOK
<1>5. ASSUME NEW i \in Iterations, WorkerStep(i)
      PROVE  /\ j \in late /\ left'[j] = left[j]
             /\ wpc'[j] \notin {"none", "body", "record"}
  <2>1. j \in late /\ j \in Iterations
    BY <1>1, <1>5, WorkerFrame DEF TypeOK
  <2>2. CASE i # j
    BY <1>1, <1>5, <2>1, <2>2, WorkerFrame
  <2>3. CASE i = j
    <3>1. left' = left
      BY <1>1, <1>5, <2>1, <2>3, WorkerFrame
    <3>2. CASE Start(j)
      BY <1>1, <2>1, <3>1, <3>2 DEF Start, Goto, TypeOK
    <3>3. CASE ~Start(j)
      BY <1>1, <1>5, <2>1, <2>3, <3>1, <3>3, WorkerPlaces DEF EndBody
    <3> QED
      BY <3>2, <3>3
  <2> QED
    BY <2>2, <2>3
<1>6. CASE UNCHANGED vars
  BY <1>1, <1>6 DEF vars
<1>7. CASE CheckStop \/ Limit \/ Join \/ Collect
  BY <1>3, <1>7 DEF LauncherStep, CheckStop, Limit, Join, Collect
<1> QED
  BY <1>1, <1>2, <1>3, <1>4, <1>5, <1>6, <1>7 DEF Next, LauncherStep

\* The merge lock is the merging worker's.
LEMMA LockInvStep == IInv /\ [Next]_vars => LockInv'
<1> SUFFICES ASSUME IInv, [Next]_vars PROVE LockInv'
  OBVIOUS
<1>0. MaxN \in Nat /\ MaxIterations \in Nat /\ Nobody \notin Iterations
  BY ParforAssumption
<1> USE <1>0 DEF IInv, TypeOK, Iterations, launcher, Goto, Skipped, MergeFails, LockInv, Merging
<1>1. CASE CheckStop
  BY <1>1 DEF CheckStop
<1>2. CASE Limit
  BY <1>2 DEF Limit
<1>3. CASE Create
  BY <1>3, CreateStep
<1>4. CASE Join
  BY <1>4 DEF Join
<1>5. CASE Collect
  BY <1>5 DEF Collect
<1>6. ASSUME NEW i \in Iterations, Start(i) PROVE LockInv'
  BY <1>6 DEF Start
<1>7. ASSUME NEW i \in Iterations, EndBody(i) PROVE LockInv'
  BY <1>7 DEF EndBody
<1>8. ASSUME NEW i \in Iterations, RecordBreak(i) PROVE LockInv'
  BY <1>8 DEF RecordBreak
<1>9. ASSUME NEW i \in Iterations, LockMerge(i) PROVE LockInv'
  BY <1>9 DEF LockMerge
<1>10. ASSUME NEW i \in Iterations, MergeLook(i) PROVE LockInv'
  BY <1>10 DEF MergeLook
<1>11. ASSUME NEW i \in Iterations, MergeDefine(i) PROVE LockInv'
  BY <1>11 DEF MergeDefine
<1>12. ASSUME NEW i \in Iterations, MergeAssign(i) PROVE LockInv'
  BY <1>12 DEF MergeAssign
<1>13. ASSUME NEW i \in Iterations, MergeAlias(i) PROVE LockInv'
  BY <1>13 DEF MergeAlias
<1>14. ASSUME NEW i \in Iterations, UnlockMerge(i) PROVE LockInv'
  BY <1>14 DEF UnlockMerge
<1>15. ASSUME NEW i \in Iterations, Report(i) PROVE LockInv'
  BY <1>15 DEF Report
<1>16. CASE UNCHANGED vars
  BY <1>16 DEF vars
<1> QED
  BY <1>1, <1>2, <1>3, <1>4, <1>5, <1>6, <1>7, <1>8, <1>9, <1>10, <1>11, <1>12, <1>13,
      <1>14, <1>15, <1>16 DEF Next, LauncherStep, WorkerStep

\* Two workers do not merge at the same time.
LEMMA OneMerges ==
  ASSUME IInv, NEW i \in Iterations, NEW j \in Iterations, Merging(i), Merging(j)
  PROVE  i = j
BY DEF IInv, LockInv

\* env_define in a merge binds the name, to nobody's value.
LEMMA DefineStep ==
  ASSUME IInv, NEW i \in Iterations, MergeDefine(i)
  PROVE  /\ parent' = [parent EXCEPT ![Head(todo[i]).name] = Own(Head(todo[i]), Nobody)]
         /\ Head(todo[i]).name \in Names
         /\ Own(Head(todo[i]), Nobody) \in Bound /\ Own(Head(todo[i]), Nobody) # Absent
         /\ Own(Head(todo[i]), Nobody).by = Nobody
         /\ parent'[Head(todo[i]).name] = Own(Head(todo[i]), Nobody)
         /\ \/ wpc' = [wpc EXCEPT ![i] = "assign"] /\ todo' = todo
            \/ wpc' = [wpc EXCEPT ![i] = "merge"] /\ todo' = [todo EXCEPT ![i] = Tail(@)]
<1> DEFINE e == Head(todo[i])
<1>0. TypeOK
  BY DEF IInv
<1>1. todo[i] # <<>> /\ e.type # Unknown /\ parent[e.name] = Absent
  BY DEF MergeDefine, IInv, EntryInv
<1>2. e \in Entries
  BY <1>0, <1>1, TailSeq DEF TypeOK
<1>3. /\ e.name \in Names
      /\ Own(e, Nobody) \in Bound /\ Own(e, Nobody) # Absent /\ Own(e, Nobody).by = Nobody
  BY <1>1, <1>2, OwnBound
<1>4. parent' = [parent EXCEPT ![e.name] = Own(e, Nobody)]
  BY <1>1 DEF MergeDefine, Own
<1>5. parent'[e.name] = Own(e, Nobody)
  BY <1>0, <1>3, <1>4 DEF TypeOK
<1>6. \/ wpc' = [wpc EXCEPT ![i] = "assign"] /\ todo' = todo
      \/ wpc' = [wpc EXCEPT ![i] = "merge"] /\ todo' = [todo EXCEPT ![i] = Tail(@)]
  BY DEF MergeDefine, Goto
<1> QED
  BY <1>3, <1>4, <1>5, <1>6

\* env_set_alias in a merge gives the name a target, or fails.
LEMMA AliasStep ==
  ASSUME IInv, NEW i \in Iterations, MergeAlias(i), ~MergeFails(i)
  PROVE  /\ \E b \in Bound : /\ b # Absent /\ b.by = i /\ b.target # ""
                             /\ parent' = [parent EXCEPT ![Head(todo[i]).name] = b]
         /\ Head(todo[i]).name \in Names
         /\ todo' = [todo EXCEPT ![i] = Tail(@)]
         /\ UNCHANGED <<wpc, outcome, mergeLock>>
<1> DEFINE e == Head(todo[i])
<1>0. TypeOK
  BY DEF IInv
<1>7. e \in Entries
  BY <1>0, TailSeq DEF TypeOK, MergeAlias
<1>q. e.name \in Names
  BY <1>7 DEF Entries
<1>1. PICK y \in AliasTargets(e) :
        /\ parent' = [parent EXCEPT ![e.name] =
                        [type |-> parent[y].type, by |-> i, target |-> y]]
        /\ Skipped(i) /\ UNCHANGED <<outcome, mergeLock>>
  BY DEF MergeAlias
<1> DEFINE b == [type |-> parent[y].type, by |-> i, target |-> y]
<1>2. y \in Names /\ parent[y].type \in Types
  BY <1>0, BoundTarget DEF Bound
<1>3. b \in Bound /\ b.by = i /\ b.target = y
  BY <1>2 DEF Bound
<1>4. "" \notin Names
  BY ParforAssumption
<1>5. b # Absent /\ b.target # ""
  BY <1>2, <1>3, <1>4, AbsentAssumption
<1>6. parent' = [parent EXCEPT ![e.name] = b]
  BY <1>1
<1> HIDE DEF b
<1> QED
  BY <1>q, <1>1, <1>3, <1>5, <1>6 DEF Skipped

\* How the enclosing environment changes: the worker that merges binds one name.
LEMMA ParentStep ==
  ASSUME IInv, NEW i \in Iterations, WorkerStep(i), parent' # parent
  PROVE  \E x \in Names, b \in Bound :
           /\ b # Absent /\ parent' = [parent EXCEPT ![x] = b]
           /\ \/ b.by = Nobody
              \/ /\ b.by = i /\ Merging(i)'
                 /\ b.target # "" \/ (MergeAssign(i) /\ Head(todo[i]).name = x)
<1>0. TypeOK
  BY DEF IInv
<1>1. CASE MergeDefine(i)
  BY <1>1, DefineStep
<1>2. CASE MergeAssign(i)
  <2>1. Own(Head(todo[i]), i).by = i
    BY DEF Own
  <2>2. Merging(i)'
    BY <1>0, <1>2, AssignOwn DEF TypeOK, Merging
  <2> QED
    BY <1>2, <2>1, <2>2, AssignOwn
<1>3. CASE MergeAlias(i)
  <2>1. ~MergeFails(i)
    BY DEF MergeFails
  <2>2. Merging(i)'
    BY <1>3, <2>1, AliasStep DEF Merging, MergeAlias
  <2> QED
    BY <1>3, <2>1, <2>2, AliasStep
<1>4. CASE ~(MergeDefine(i) \/ MergeAssign(i) \/ MergeAlias(i))
  BY <1>4 DEF WorkerStep, Start, EndBody, RecordBreak, LockMerge, MergeLook, UnlockMerge,
     Report
<1> QED
  BY <1>1, <1>2, <1>3, <1>4

\* A name that is bound stays bound.
LEMMA BindingsStay ==
  ASSUME IInv, [Next]_vars, NEW x \in Names, parent[x] # Absent
  PROVE  parent'[x] # Absent
<1>0. parent \in [Names -> Bound \cup {Absent}]
  BY DEF IInv, TypeOK
<1>1. ASSUME NEW i \in Iterations, WorkerStep(i), parent' # parent
      PROVE  parent'[x] # Absent
  <2>1. PICK y \in Names, b \in Bound : b # Absent /\ parent' = [parent EXCEPT ![y] = b]
    BY <1>1, ParentStep
  <2> QED
    BY <1>0, <2>1
<1> QED
  BY <1>1, LauncherFrame DEF Next, vars

\* What a worker is about to define or assign is its own affair: nobody else merges.
LEMMA EntryInvStep == IInv /\ [Next]_vars => EntryInv'
<1> SUFFICES ASSUME IInv, [Next]_vars, NEW j \in Iterations
             PROVE  /\ wpc'[j] \in {"define", "assign"} =>
                         /\ todo'[j] # <<>> /\ Head(todo'[j]).target = ""
                         /\ Head(todo'[j]).type # Unknown
                    /\ wpc'[j] = "define" => parent'[Head(todo'[j]).name] = Absent
                    /\ wpc'[j] = "assign" =>
                         parent'[Head(todo'[j]).name] = Own(Head(todo'[j]), Nobody)
  BY DEF EntryInv, Own
<1>0. /\ wpc[j] \in {"define", "assign"} =>
           todo[j] # <<>> /\ Head(todo[j]).target = "" /\ Head(todo[j]).type # Unknown
      /\ wpc[j] = "define" => parent[Head(todo[j]).name] = Absent
      /\ wpc[j] = "assign" =>
           parent[Head(todo[j]).name] = Own(Head(todo[j]), Nobody)
  BY DEF IInv, EntryInv
<1>1. CASE LauncherStep
  BY <1>0, <1>1, LauncherFrame
<1>2. ASSUME NEW i \in Iterations, WorkerStep(i), i # j PROVE
                    /\ wpc'[j] \in {"define", "assign"} =>
                         /\ todo'[j] # <<>> /\ Head(todo'[j]).target = ""
                         /\ Head(todo'[j]).type # Unknown
                    /\ wpc'[j] = "define" => parent'[Head(todo'[j]).name] = Absent
                    /\ wpc'[j] = "assign" =>
                         parent'[Head(todo'[j]).name] = Own(Head(todo'[j]), Nobody)
  <2>1. wpc'[j] = wpc[j] /\ todo'[j] = todo[j]
    BY <1>2, WorkerFrame
  <2>2. wpc[j] \in {"define", "assign"} => parent' = parent
    BY <1>2, WorkerFrame, OneMerges DEF Merging
  <2> QED
    BY <1>0, <2>1, <2>2
<1>3. CASE WorkerStep(j)
  <2> USE <1>0 DEF IInv, TypeOK, Goto, Skipped
  <2>1. CASE MergeLook(j)
    BY <2>1 DEF MergeLook
  <2>2. CASE MergeDefine(j)
    BY <2>2, DefineStep DEF MergeDefine
  <2>3. CASE MergeAssign(j)
    BY <2>3, AssignOwn
  <2>4. CASE MergeAlias(j)
    BY <2>4 DEF MergeAlias, MergeFails
  <2>5. CASE Start(j) \/ EndBody(j) \/ RecordBreak(j) \/ LockMerge(j) \/ UnlockMerge(j)
               \/ Report(j)
    BY <2>5 DEF Start, EndBody, RecordBreak, LockMerge, UnlockMerge, Report
  <2> QED
    BY <1>3, <2>1, <2>2, <2>3, <2>4, <2>5 DEF WorkerStep
<1>4. CASE UNCHANGED vars
  BY <1>0, <1>4 DEF vars
<1> QED
  BY <1>1, <1>2, <1>3, <1>4 DEF Next


\* How an iteration comes to merge, and to have merged, and that what it leaves is
\* fixed by then.
LEMMA Progress ==
  ASSUME IInv, [Next]_vars, NEW i \in Iterations
  PROVE  /\ Merging(i)' => /\ Merging(i) \/ LockMerge(i)
                           /\ left'[i] = left[i]
         /\ Merged(i)' => /\ Merged(i) \/ UnlockMerge(i)
                          /\ left'[i] = left[i] /\ outcome'[i] = outcome[i]
         /\ outcome'[i].status # "error" /\ Merging(i) => outcome[i].status # "error"
         /\ wpc[i] \in {"report", "ended"} =>
              /\ wpc'[i] \in {"report", "ended"}
              /\ left'[i] = left[i] /\ outcome'[i] = outcome[i]
         /\ Merging(i) =>
              /\ Merging(i)' \/ wpc'[i] \in {"report", "ended"}
              /\ left'[i] = left[i]
<1> USE DEF Merging, Merged
<1>1. CASE LauncherStep
  BY <1>1, LauncherFrame
<1>2. ASSUME NEW j \in Iterations, WorkerStep(j), i # j
      PROVE  /\ wpc'[i] = wpc[i] /\ outcome'[i] = outcome[i] /\ left'[i] = left[i]
  BY <1>2, WorkerFrame
<1>3. CASE WorkerStep(i)
  <2> USE DEF IInv, TypeOK, Goto, Skipped, MergeFails
  <2>1. CASE Start(i)
    BY <2>1 DEF Start
  <2>2. CASE EndBody(i)
    BY <2>2 DEF EndBody, Outcomes
  <2>3. CASE RecordBreak(i) \/ LockMerge(i) \/ UnlockMerge(i) \/ Report(i)
    BY <2>3 DEF RecordBreak, LockMerge, UnlockMerge, Report
  <2>4. CASE MergeLook(i)
    BY <2>4 DEF MergeLook
  <2>5. CASE MergeDefine(i)
    BY <2>5 DEF MergeDefine
  <2>6. CASE MergeAssign(i)
    BY <2>6 DEF MergeAssign
  <2>7. CASE MergeAlias(i)
    <3>1. CASE MergeFails(i)
      BY <2>7, <3>1 DEF MergeAlias
    <3>2. CASE ~MergeFails(i)
      <4>1. UNCHANGED <<wpc, outcome>> /\ left' = left
        BY <2>7, <3>2, AliasStep DEF MergeAlias
      <4> QED
        BY <4>1
    <3> QED
      BY <3>1, <3>2
  <2> QED
    BY <1>3, <2>1, <2>2, <2>3, <2>4, <2>5, <2>6, <2>7 DEF WorkerStep
<1>4. CASE UNCHANGED vars
  BY <1>4 DEF vars
<1> QED
  BY <1>1, <1>2, <1>3, <1>4 DEF Next

\* A symbol goes off the queue when it has been merged or is not merged.
LEMMA MergedInvStep == IInv /\ [Next]_vars => MergedInv'
<1> SUFFICES ASSUME IInv, [Next]_vars, NEW i \in Iterations, NEW x \in Names, Leaves(i, x)'
             PROVE  /\ Merged(i)' => parent'[x] # Absent
                    /\ Merging(i)' => \/ parent'[x] # Absent
                                      \/ \E k \in DOMAIN todo'[i] : Valued(todo'[i][k], x)
  BY DEF MergedInv
<1>0. TypeOK /\ (Leaves(i, x) => /\ Merged(i) => parent[x] # Absent
                                 /\ Merging(i) =>
                                      \/ parent[x] # Absent
                                      \/ \E k \in DOMAIN todo[i] : Valued(todo[i][k], x))
  BY DEF IInv, MergedInv
<1>1. Merged(i)' \/ Merging(i)' => Leaves(i, x)
  BY Progress DEF Leaves
<1>2. parent[x] # Absent => parent'[x] # Absent
  BY BindingsStay
<1>3. ASSUME Merged(i)' PROVE parent'[x] # Absent
  <2>1. CASE Merged(i)
    BY <1>0, <1>1, <1>2, <1>3, <2>1
  <2>2. CASE UnlockMerge(i)
    BY <1>0, <1>1, <1>2, <1>3, <2>2 DEF UnlockMerge, Merging
  <2> QED
    BY <1>3, <2>1, <2>2, Progress
<1>4. ASSUME Merging(i)', parent'[x] = Absent
      PROVE  \E k \in DOMAIN todo'[i] : Valued(todo'[i][k], x)
  <2>1. CASE LockMerge(i)
    BY <2>1, <1>1, <1>4 DEF LockMerge, Leaves, Valued, IInv, BodyInv
  <2>2. CASE Merging(i)
    <3>1. PICK k \in DOMAIN todo[i] : Valued(todo[i][k], x)
      BY <1>0, <1>1, <1>2, <1>4, <2>2
    <3>2. todo[i] \in Seq(Entries) /\ todo[i] # <<>>
      BY <1>0, <3>1 DEF TypeOK
    <3>3. k # 1 => k - 1 \in DOMAIN Tail(todo[i]) /\ Tail(todo[i])[k - 1] = todo[i][k]
      BY <3>2, TailSeq
    <3>4. k = 1 => Valued(Head(todo[i]), x)
      BY <3>1, <3>2, TailSeq
    <3>5. CASE WorkerStep(i)
      <4>1. CASE todo'[i] = todo[i]
        BY <3>1, <4>1
      <4>2. CASE MergeLook(i) /\ todo'[i] # todo[i]
        <5>1. /\ todo'[i] = Tail(todo[i])
              /\ Head(todo[i]).type = Unknown \/ parent[Head(todo[i]).name] # Absent
          BY <1>0, <4>2 DEF MergeLook, Skipped, TypeOK
        <5> QED
          BY <1>2, <1>4, <3>1, <3>3, <3>4, <5>1 DEF Valued
      <4>3. CASE MergeDefine(i) /\ todo'[i] # todo[i]
        <5>1. todo'[i] = Tail(todo[i]) /\ parent'[Head(todo[i]).name] # Absent
          BY <1>0, <4>3, DefineStep DEF TypeOK
        <5> QED
          BY <1>4, <3>1, <3>3, <3>4, <5>1 DEF Valued
      <4>4. CASE MergeAssign(i)
        <5>1. todo'[i] = Tail(todo[i]) /\ parent[Head(todo[i]).name] # Absent
          BY <1>0, <4>4, AssignOwn DEF TypeOK
        <5> QED
          BY <1>2, <1>4, <3>1, <3>3, <3>4, <5>1 DEF Valued
      <4>5. CASE MergeAlias(i) /\ todo'[i] # todo[i]
        <5>1. ~MergeFails(i)
          BY <4>5 DEF MergeFails
        <5>2. todo'[i] = Tail(todo[i]) /\ Head(todo[i]).target # ""
          <6>1. todo' = [todo EXCEPT ![i] = Tail(@)]
            BY <4>5, <5>1, AliasStep
          <6>2. Head(todo[i]).target # ""
            BY <4>5 DEF MergeAlias
          <6> QED
            BY <1>0, <6>1, <6>2 DEF TypeOK
        <5> QED
          BY <3>1, <3>3, <3>4, <5>2 DEF Valued
      <4>6. CASE ~(MergeLook(i) \/ MergeDefine(i) \/ MergeAssign(i) \/ MergeAlias(i))
        <5>1. todo' = todo
          BY <2>2, <3>5, <4>6 DEF WorkerStep, Merging, Start, EndBody, RecordBreak,
             LockMerge, UnlockMerge, Report
        <5> QED
          BY <4>1, <5>1
      <4> QED
        BY <4>1, <4>2, <4>3, <4>4, <4>5, <4>6
    <3>6. CASE ~WorkerStep(i)
      <4>1. todo'[i] = todo[i]
        BY <3>6, LauncherFrame, WorkerFrame DEF Next, vars
      <4> QED
        BY <3>1, <4>1
    <3> QED
      BY <3>5, <3>6
  <2> QED
    BY <1>4, <2>1, <2>2, Progress
<1> QED
  BY <1>3, <1>4

\* Nobody ends a merge while another is between its look and its assignment.
LEMMA FirstInvStep == IInv /\ [Next]_vars => FirstInv'
<1> SUFFICES ASSUME IInv, [Next]_vars, NEW i \in Iterations, NEW j \in Iterations,
                    wpc'[i] \in {"define", "assign"}, Merged(j)', Leaves(j, Head(todo[i]).name)'
             PROVE  FALSE
  BY DEF FirstInv
<1>0. TypeOK
  BY DEF IInv
<1>1. Merging(i)' /\ (Merging(i) \/ LockMerge(i))
  BY Progress DEF Merging
<1>2. ~LockMerge(i)
  BY <1>0 DEF LockMerge, Goto, TypeOK
<1>3. Merging(i)
  BY <1>1, <1>2
<1>4. ~UnlockMerge(j)
  BY <1>0, <1>1, <1>3, OneMerges DEF UnlockMerge, Merging, Goto, TypeOK
<1>5. Merged(j) /\ Leaves(j, Head(todo'[i]).name)
  <2>1. Merged(j) /\ left'[j] = left[j]
    BY <1>4, Progress
  <2> QED
    BY <2>1 DEF Leaves
<1>6. CASE wpc[i] \in {"define", "assign"}
  <2>1. CASE todo'[i] = todo[i]
    BY <1>5, <1>6, <2>1 DEF IInv, FirstInv
  <2>2. CASE MergeDefine(i) \/ MergeAssign(i)
    <3>1. todo' = todo
      BY <1>0, <2>2, DefineStep, AssignOwn DEF TypeOK
    <3> QED
      BY <2>1, <3>1
  <2>3. CASE ~(MergeDefine(i) \/ MergeAssign(i))
    <3>1. CASE WorkerStep(i)
      BY <1>6, <2>3, <3>1 DEF WorkerStep, Start, EndBody, RecordBreak, LockMerge, MergeLook,
         MergeAlias, UnlockMerge, Report
    <3>2. CASE ~WorkerStep(i)
      BY <2>1, <3>2, LauncherFrame, WorkerFrame DEF Next, vars
    <3> QED
      BY <3>1, <3>2
  <2> QED
    BY <2>1, <2>2, <2>3
<1>7. CASE wpc[i] = "merge"
  <2>1. WorkerStep(i)
    BY <1>7, LauncherFrame, WorkerFrame DEF Next, vars
  <2>2. ~MergeAlias(i)
    BY <1>0, <1>7 DEF MergeAlias, MergeFails, Skipped, Goto, TypeOK
  <2>3. MergeLook(i)
    BY <1>0, <1>7, <2>1, <2>2 DEF WorkerStep, Start, EndBody, RecordBreak, LockMerge,
       MergeDefine, MergeAssign, UnlockMerge, Report, Goto, TypeOK
  <2>4. todo' = todo /\ parent[Head(todo[i]).name] = Absent /\ todo[i] # <<>>
    BY <1>0, <1>7, <2>3 DEF MergeLook, Skipped, Goto, TypeOK
  <2>5. Head(todo[i]).name \in Names
    <3>1. Head(todo[i]) \in Entries
      BY <1>0, <2>4, TailSeq DEF TypeOK
    <3> QED
      BY <3>1 DEF Entries
  <2> QED
    BY <1>5, <2>4, <2>5 DEF IInv, MergedInv
<1> QED
  BY <1>3, <1>6, <1>7 DEF Merging


\* What a name has stays as it is, or the one that merges gives it what it has next.
LEMMA GaveStep ==
  ASSUME IInv, [Next]_vars, NEW i \in Iterations, NEW x \in Names, Gave(i, x)'
  PROVE  Gave(i, x) \/ (MergeAssign(i) /\ Head(todo[i]).name = x)
<1>0. parent \in [Names -> Bound \cup {Absent}] /\ Nobody # i
  BY ParforAssumption DEF IInv, TypeOK
<1>1. ASSUME NEW j \in Iterations, WorkerStep(j), parent' # parent
      PROVE  Gave(i, x) \/ (MergeAssign(i) /\ Head(todo[i]).name = x)
  <2>1. PICK y \in Names, b \in Bound :
          /\ b # Absent /\ parent' = [parent EXCEPT ![y] = b]
          /\ \/ b.by = Nobody
             \/ /\ b.by = j /\ Merging(j)'
                /\ b.target # "" \/ (MergeAssign(j) /\ Head(todo[j]).name = y)
    BY <1>1, ParentStep
  <2>2. CASE x = y
    <3>1. parent'[x] = b
      BY <1>0, <2>1, <2>2
    <3>2. b.by = i /\ b.target = ""
      BY <3>1 DEF Gave
    <3> QED
      BY <1>0, <2>1, <2>2, <3>2
  <2>3. CASE x # y
    <3>1. parent'[x] = parent[x]
      BY <1>0, <2>1, <2>3
    <3> QED
      BY <3>1 DEF Gave
  <2> QED
    BY <2>2, <2>3
<1>2. CASE parent' = parent
  BY <1>2 DEF Gave
<1> QED
  BY <1>1, <1>2, LauncherFrame DEF Next, vars

\* Whoever gives a name its value merges, and is then done.
LEMMA ByInvStep == IInv /\ [Next]_vars => ByInv'
<1> SUFFICES ASSUME IInv, [Next]_vars, NEW x \in Names, NEW k \in Iterations,
                    parent'[x] # Absent, parent'[x].by = k
             PROVE  Merging(k)' \/ wpc'[k] \in {"report", "ended"}
  BY DEF ByInv
<1>0. parent \in [Names -> Bound \cup {Absent}] /\ Nobody # k
  BY ParforAssumption DEF IInv, TypeOK
<1>1. CASE parent'[x] = parent[x]
  <2>1. Merging(k) \/ wpc[k] \in {"report", "ended"}
    BY <1>1 DEF IInv, ByInv
  <2> QED
    BY <2>1, Progress
<1>2. ASSUME NEW j \in Iterations, WorkerStep(j), parent'[x] # parent[x]
      PROVE  Merging(k)'
  <2>1. PICK y \in Names, b \in Bound :
          /\ b # Absent /\ parent' = [parent EXCEPT ![y] = b]
          /\ \/ b.by = Nobody
             \/ /\ b.by = j /\ Merging(j)'
                /\ b.target # "" \/ (MergeAssign(j) /\ Head(todo[j]).name = y)
    BY <1>2, ParentStep
  <2>2. x = y /\ parent'[x] = b
    BY <1>0, <1>2, <2>1
  <2> QED
    BY <1>0, <2>1, <2>2
<1> QED
  BY <1>1, <1>2, LauncherFrame DEF Next, vars

\* The assignment that would mix two iterations' values is of a name that FirstInv
\* forbids: the other has merged, and it leaves that name.
LEMMA WholeInvStep == IInv /\ [Next]_vars => WholeInv'
<1> SUFFICES ASSUME IInv, [Next]_vars, NEW i \in Iterations, NEW j \in Iterations,
                    NEW x \in Names, NEW y \in Names, i # j,
                    outcome'[i].status # "error", outcome'[j].status # "error",
                    Leaves(i, x)', Leaves(i, y)', Leaves(j, x)', Leaves(j, y)',
                    Gave(i, x)', Gave(j, y)'
             PROVE  FALSE
  BY DEF WholeInv
<1>1. ASSUME NEW k \in Iterations, NEW z \in Names, Gave(k, z)
      PROVE  Merging(k) \/ wpc[k] \in {"report", "ended"}
  BY <1>1 DEF Gave, IInv, ByInv
<1>2. ASSUME NEW k \in Iterations, NEW z \in Names, MergeAssign(k)
      PROVE  Merging(k) /\ wpc[k] = "assign"
  BY <1>2 DEF MergeAssign, Merging
<1>3. ASSUME NEW k \in {i, j}
      PROVE  /\ Merging(k) \/ wpc[k] \in {"report", "ended"}
             /\ outcome[k].status # "error" /\ left'[k] = left[k]
  <2>1. Merging(k) \/ wpc[k] \in {"report", "ended"}
    BY <1>1, <1>2, GaveStep
  <2> QED
    BY <2>1, Progress
<1>4. Leaves(i, x) /\ Leaves(i, y) /\ Leaves(j, x) /\ Leaves(j, y)
  <2>1. left'[i] = left[i] /\ left'[j] = left[j]
    BY <1>3
  <2> QED
    BY <2>1 DEF Leaves
<1>5. CASE Gave(i, x) /\ Gave(j, y)
  BY <1>3, <1>4, <1>5 DEF IInv, WholeInv
<1>6. CASE MergeAssign(i) /\ Head(todo[i]).name = x
  <2>1. Merged(j)
    BY <1>2, <1>3, <1>6, OneMerges DEF Merged
  <2> QED
    BY <1>2, <1>4, <1>6, <2>1 DEF IInv, FirstInv
<1>7. CASE MergeAssign(j) /\ Head(todo[j]).name = y
  <2>1. Merged(i)
    BY <1>2, <1>3, <1>7, OneMerges DEF Merged
  <2> QED
    BY <1>2, <1>4, <1>7, <2>1 DEF IInv, FirstInv
<1> QED
  BY <1>5, <1>6, <1>7, GaveStep

-----------------------------------------------------------------------------
\* IInv holds in every reachable state of a parfor.
THEOREM Invariance == Spec => []IInv
<1>1. IInv /\ [Next]_vars => IInv'
  BY TypeOKStep, LauncherInvStep, ReportInvStep, BodyInvStep, LateInvStep, LockInvStep,
     EntryInvStep, MergedInvStep, FirstInvStep, ByInvStep, WholeInvStep DEF IInv
<1> QED
  BY InitInv, <1>1, PTL DEF Spec

\* Every variable always has its type, so an alias resolves to a name that is bound.
THEOREM TypeCorrect == Spec => []TypeOK
<1>1. IInv => TypeOK
  BY DEF IInv
<1> QED
  BY Invariance, <1>1, PTL

\* An iteration created in spite of a break executes and merges nothing.
THEOREM LateSkips == Spec => []LateIterationsSkip
<1>1. IInv => LateIterationsSkip
  BY DEF IInv, LateInv, LateIterationsSkip
<1> QED
  BY Invariance, <1>1, PTL

\* Two names that two iterations both bind are not taken one from each, whatever
\* else the bodies declare and in whatever order iterations merge.
THEOREM MergeSerial == Spec => []MergesWhole
<1>1. IInv => MergesWhole
  <2> SUFFICES ASSUME IInv, Over,
                      NEW i \in Iterations, NEW j \in Iterations, NEW x \in Names, NEW y \in Names
               PROVE  /\ i # j /\ x # y
                      /\ \A k \in {i, j} : /\ outcome[k].status # "error"
                                           /\ Leaves(k, x) /\ Leaves(k, y)
                      /\ \A z \in {x, y} : parent[z] # Absent /\ parent[z].target = ""
                      => ~ (parent[x].by = i /\ parent[y].by = j)
    BY DEF MergesWhole
  <2> QED
    BY DEF IInv, WholeInv, Gave
<1> QED
  BY Invariance, <1>1, PTL

-----------------------------------------------------------------------------
\* The status and the error ForkJoin sees of iteration i.
Statuses == [i \in Iterations |-> TaskStatus(i)]
ErrorsOf == [i \in Iterations |-> IF Failed(i) THEN IterationError(i) ELSE Clean]

\* Nothing is visible of a step that leaves the launching thread and each
\* iteration's status as they are.
LEMMA Stutters ==
  ASSUME UNCHANGED <<lpc, result>>,
         \A i \in Iterations : TaskStatus(i)' = TaskStatus(i) /\ (Failed(i)' <=> Failed(i))
  PROVE  UNCHANGED <<Statuses, ErrorsOf, StatementError>>
BY DEF Statuses, ErrorsOf, StatementError, Done, IterationError, Clean

\* Creating an iteration is ForkJoin's Start, whether or not thrd_create succeeds.
LEMMA CreateSimulation ==
  ASSUME IInv, Create, NEW k \in Iterations, k = next
  PROVE  FJ!Start(k)
<1>1. /\ TypeOK /\ k \in Nat /\ k <= MaxIterations /\ wpc[k] = "none"
      /\ next' = k + 1 /\ \A i \in Iterations : i \in Nat
      /\ outcome' = outcome
  BY CreateStep, NatTypes DEF IInv
<1>2. FJ!Tasks = Iterations
  BY DEF FJ!Tasks, Iterations
<1>3. /\ StatementError = [status |-> "pending", count |-> 0]
      /\ StatementError' = StatementError
  BY DEF Create, StatementError, Done
<1>4. Statuses[k] = "none" /\ \A j \in 1..(k - 1) : Statuses[j] # "none"
  <2>1. ASSUME NEW j \in 1..(k - 1) PROVE j \in Iterations /\ j < next
    BY <1>1, NatTypes
  <2>2. ASSUME NEW j \in Iterations, j < next PROVE TaskStatus(j) # "none"
    BY <1>1, <2>2 DEF TaskStatus
  <2> QED
    BY <1>1, <2>1, <2>2 DEF Statuses, TaskStatus
<1>5. ASSUME NEW j \in Iterations \ {k}
      PROVE  TaskStatus(j)' = TaskStatus(j) /\ (Failed(j)' <=> Failed(j))
  <2>1. wpc'[j] = wpc[j] /\ outcome'[j] = outcome[j] /\ (j < next' <=> j < next)
        /\ (j >= next' <=> j >= next)
    BY <1>1, CreateStep DEF TypeOK
  <2> QED
    BY <2>1 DEF TaskStatus, Failed
<1>6. k < next' /\ ~ (k >= next') /\ ~ (k < next)
  BY <1>1
<1>7. CASE wpc' = [wpc EXCEPT ![k] = "start"]
  <2>0. wpc'[k] = "start"
    BY <1>1, <1>7 DEF TypeOK
  <2>1. TaskStatus(k)' = "running" /\ ~Failed(k)' /\ ~Failed(k)
    BY <1>6, <2>0 DEF TaskStatus, Failed
  <2>2. Statuses' = [Statuses EXCEPT ![k] = "running"]
    BY <1>5, <2>1 DEF Statuses
  <2>3. ErrorsOf' = ErrorsOf
    BY <1>5, <2>1 DEF ErrorsOf, IterationError, Clean
  <2> QED
    BY <1>1, <1>3, <1>4, <2>2, <2>3 DEF FJ!Start, Statuses, ErrorsOf
<1>8. CASE wpc' = wpc
  <2>1. TaskStatus(k)' = "failed" /\ Failed(k)'
    BY <1>1, <1>6, <1>8 DEF TaskStatus, Failed
  <2>2. Statuses' = [Statuses EXCEPT ![k] = "failed"]
    BY <1>5, <2>1 DEF Statuses
  <2>3. ErrorsOf' = [ErrorsOf EXCEPT ![k] = IterationError(k)]
    BY <1>5, <2>1 DEF ErrorsOf, IterationError, Clean
  <2>4. FJ!Fails(k)
    BY <2>2, <2>3 DEF FJ!Fails, Statuses, ErrorsOf, IterationErrors
  <2> QED
    BY <1>1, <1>3, <1>4, <2>4 DEF FJ!Start, Statuses, ErrorsOf
<1> QED
  BY <1>7, <1>8, CreateStep

\* A worker's last step is ForkJoin's End.
LEMMA ReportSimulation ==
  ASSUME IInv, NEW i \in Iterations, Report(i)
  PROVE  FJ!End(i)
<1>1. TypeOK /\ i < next /\ wpc[i] = "report" /\ wpc'[i] = "ended" /\ next \in Nat /\ i \in Nat
  <2>1. TypeOK /\ LauncherInv /\ next \in Nat /\ i \in Nat
    BY NatTypes DEF IInv
  <2>2. wpc[i] = "report" /\ wpc'[i] = "ended"
    BY <2>1 DEF Report, Goto, TypeOK
  <2> QED
    BY <2>1, <2>2 DEF LauncherInv
<1>2. UNCHANGED <<lpc, next, result, outcome>>
  BY DEF Report, launcher
<1>3. StatementError' = StatementError
  BY <1>2 DEF StatementError, Done, Clean
<1>4. \A j \in Iterations \ {i} :
        TaskStatus(j)' = TaskStatus(j) /\ (Failed(j)' <=> Failed(j))
  BY <1>1, <1>2 DEF Report, Goto, TypeOK, TaskStatus, Failed
<1>5. Statuses[i] = "running" /\ ~Failed(i)
  BY <1>1 DEF Statuses, TaskStatus, Failed, Iterations
<1>6. CASE outcome[i].status = "error"
  <2>1. TaskStatus(i)' = "failed" /\ Failed(i)'
    BY <1>1, <1>2, <1>6 DEF TaskStatus, Failed
  <2>2. Statuses' = [Statuses EXCEPT ![i] = "failed"]
    BY <1>4, <2>1 DEF Statuses
  <2>3. ErrorsOf' = [ErrorsOf EXCEPT ![i] = IterationError(i)]
    BY <1>4, <2>1 DEF ErrorsOf, IterationError, Clean
  <2>4. FJ!Fails(i)
    BY <2>2, <2>3 DEF FJ!Fails, Statuses, ErrorsOf, IterationErrors
  <2> QED
    BY <1>3, <1>5, <2>4 DEF FJ!End, Statuses
<1>7. CASE outcome[i].status # "error"
  <2>1. TaskStatus(i)' = "ok" /\ ~Failed(i)'
    BY <1>1, <1>2, <1>7 DEF TaskStatus, Failed
  <2>2. Statuses' = [Statuses EXCEPT ![i] = "ok"]
    BY <1>4, <2>1 DEF Statuses
  <2>3. ErrorsOf' = ErrorsOf
    BY <1>4, <1>5, <2>1 DEF ErrorsOf, IterationError, Clean
  <2> QED
    BY <1>3, <1>5, <2>2, <2>3 DEF FJ!End, Statuses, ErrorsOf
<1> QED
  BY <1>6, <1>7

\* Collecting is ForkJoin's Return: what the arrays report is what happened.
LEMMA CollectSimulation == IInv /\ Collect => FJ!Return
<1> SUFFICES ASSUME IInv, Collect PROVE FJ!Return
  OBVIOUS
<1>1. /\ TypeOK /\ next \in Nat
      /\ UNCHANGED <<next, wpc, outcome>>
      /\ \A i \in Iterations : wpc[i] \in {"none", "ended"} /\ i \in Nat
  BY NatTypes DEF Collect, IInv, LauncherInv, Started
<1>2. UNCHANGED <<Statuses, ErrorsOf>>
  BY <1>1 DEF Statuses, ErrorsOf, TaskStatus, Failed, IterationError, Clean
<1>3. StatementError = [status |-> "pending", count |-> 0]
  BY DEF Collect, StatementError, Done
<1>4. \A i \in Iterations : Statuses[i] # "running" /\ (Statuses[i] = "failed" <=> Failed(i))
  BY <1>1 DEF Statuses, TaskStatus, Failed
<1>5. \A i \in Iterations : report[i].status = "error" <=> Failed(i)
  BY <1>1 DEF IInv, ReportInv, LauncherInv, Failed, Clean
<1>6. Reported("error") = {i \in FJ!Tasks : Statuses[i] = "failed"}
  BY <1>4, <1>5 DEF Reported, FJ!Tasks, Iterations
<1>7. StatementError' = IF Reported("error") = {} THEN Clean
                        ELSE ErrorsOf[First(Reported("error"))]
  <2>1. CASE Reported("error") = {}
    BY <2>1 DEF Collect, StatementError, Done, Clean
  <2>2. CASE Reported("error") # {}
    <3> DEFINE f == First(Reported("error"))
    <3>1. f \in Iterations /\ Failed(f)
      BY <2>2, <1>5, FirstLeast DEF Reported
    <3>2. result' = IterationError(f) /\ lpc' = "done"
      BY <2>2 DEF Collect, IterationError
    <3> QED
      BY <2>2, <3>1, <3>2 DEF StatementError, Done, ErrorsOf, IterationError
  <2> QED
    BY <2>1, <2>2
<1>8. FJ!AllEnded
  BY <1>4 DEF FJ!AllEnded, FJ!Tasks, Iterations, Statuses
<1>9. StatementError' = FJ!FirstError
  <2>1. FJ!Failed = Reported("error")
    BY <1>6 DEF FJ!Failed, Statuses
  <2>2. FJ!FirstError = IF FJ!Failed = {} THEN Clean ELSE ErrorsOf[First(FJ!Failed)]
    BY DEF FJ!FirstError, First, ErrorsOf
  <2> QED
    BY <1>7, <2>1, <2>2
<1> QED
  BY <1>2, <1>3, <1>8, <1>9 DEF FJ!Return, Statuses, ErrorsOf

\* Ending at max_iterations is ForkJoin's GiveUp.
LEMMA LimitSimulation == IInv /\ Limit => FJ!GiveUp
<1> SUFFICES ASSUME IInv, Limit PROVE FJ!GiveUp
  OBVIOUS
<1>1. /\ n \in Nat /\ n <= MaxN /\ next <= n /\ next > MaxIterations /\ MaxN \in Nat
      /\ MaxIterations \in Nat /\ next \in Nat
      /\ UNCHANGED <<next, wpc, outcome>>
  BY NatTypes DEF Limit, IInv, LauncherInv
<1>2. UNCHANGED <<Statuses, ErrorsOf>>
  BY <1>1 DEF Statuses, ErrorsOf, TaskStatus, Failed, IterationError, Clean
<1>3. /\ StatementError = [status |-> "pending", count |-> 0]
      /\ StatementError' = [status |-> "limit", count |-> 0]
  BY DEF Limit, StatementError, Done
<1>4. \A i \in 1..MaxIterations : Statuses[i] # "none"
  BY <1>1 DEF Statuses, TaskStatus, Iterations
<1> QED
  BY <1>1, <1>2, <1>3, <1>4 DEF FJ!GiveUp, Statuses, ErrorsOf

\* Every step of a parfor is a step of ForkJoin or none.
LEMMA StepSimulation ==
  IInv /\ [Next]_vars => [FJ!Next]_<<Statuses, ErrorsOf, StatementError>>
<1> SUFFICES ASSUME IInv, [Next]_vars
             PROVE  FJ!Next \/ UNCHANGED <<Statuses, ErrorsOf, StatementError>>
  OBVIOUS
<1>0. FJ!Tasks = Iterations
  BY DEF FJ!Tasks, Iterations
<1>1. CASE CheckStop \/ Join
  <2>1. /\ UNCHANGED <<next, wpc, outcome, result>>
        /\ lpc # "done" /\ lpc' # "done"
    BY <1>1 DEF CheckStop, Join
  <2> QED
    BY <2>1 DEF Statuses, ErrorsOf, StatementError, TaskStatus, Failed, IterationError, Done
<1>2. CASE Limit
  BY <1>2, LimitSimulation DEF FJ!Next
<1>3. CASE Create
  <2>1. next \in Iterations
    BY <1>3, CreateStep
  <2> QED
    BY <1>0, <1>3, <2>1, CreateSimulation DEF FJ!Next
<1>4. CASE Collect
  BY <1>4, CollectSimulation DEF FJ!Next
<1>5. ASSUME NEW i \in Iterations, Report(i) PROVE FJ!Next
  BY <1>0, <1>5, ReportSimulation DEF FJ!Next
<1>6. ASSUME NEW i \in Iterations, WorkerStep(i), ~Report(i)
      PROVE  UNCHANGED <<Statuses, ErrorsOf, StatementError>>
  <2>1. /\ UNCHANGED <<lpc, next, result>>
        /\ \A j \in Iterations \ {i} : wpc'[j] = wpc[j] /\ outcome'[j] = outcome[j]
    BY <1>6, WorkerFrame
  <2>2. wpc[i] \notin {"none", "ended"} /\ wpc'[i] \notin {"none", "ended"}
    BY <1>6 DEF WorkerStep, Start, EndBody, RecordBreak, LockMerge, MergeLook, MergeDefine,
       MergeAssign, MergeAlias, MergeFails, Skipped, UnlockMerge, Goto, IInv, TypeOK
  <2>3. \A j \in Iterations : TaskStatus(j)' = TaskStatus(j) /\ (Failed(j)' <=> Failed(j))
    BY <2>1, <2>2 DEF TaskStatus, Failed
  <2> QED
    BY <2>1, <2>3, Stutters
<1>7. CASE UNCHANGED vars
  <2>1. \A j \in Iterations : TaskStatus(j)' = TaskStatus(j) /\ (Failed(j)' <=> Failed(j))
    BY <1>7 DEF TaskStatus, Failed, vars
  <2> QED
    BY <1>7, <2>1, Stutters DEF vars
<1> QED
  BY <1>1, <1>2, <1>3, <1>4, <1>5, <1>6, <1>7 DEF Next, LauncherStep

\* PARFOR implements ForkJoin, for every number of iterations and every limit: it
\* waits for what it has started and ends with the first failing iteration's error.
THEOREM ForkJoinRefined == Spec => ForkJoinSpec
<1>1. Init => FJ!Init
  <2> SUFFICES ASSUME Init PROVE FJ!Init
    OBVIOUS
  <2>1. \A i \in Iterations : TaskStatus(i) = "none" /\ ~Failed(i)
    <3>0. MaxN \in Nat
      BY ParforAssumption
    <3>1. next = 1 /\ wpc = [i \in Iterations |-> "none"]
      BY DEF Init
    <3>2. \A i \in Iterations : i >= next /\ ~ (i < next)
      BY <3>0, <3>1 DEF Iterations
    <3> QED
      BY <3>2 DEF TaskStatus, Failed
  <2>2. StatementError = [status |-> "pending", count |-> 0]
    BY DEF Init, StatementError, Done
  <2> QED
    BY <2>1, <2>2 DEF FJ!Init, FJ!Tasks, Iterations
<1> QED
  BY <1>1, Invariance, StepSimulation, PTL
  DEF Spec, ForkJoinSpec, FJ!Spec, Statuses, ErrorsOf
=============================================================================
