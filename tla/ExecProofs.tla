------------------------------ MODULE ExecProofs ------------------------------
(***************************************************************************)
(* Proofs about Exec for every program, function and bound: the counters a *)
(* thread keeps beside the C stack (loop_depth, the label maps, the        *)
(* environments) say at every step what is on that stack.                  *)
(***************************************************************************)
EXTENDS Exec, SequenceTheorems, FiniteSetTheorems, WellFoundedInduction, TLAPS

\* The activations.  The binding a for loop saves is none or what a lookup reads, and
\* with none further out it is what the name read before.
ListFrames == [kind : {"list"}, list : Seq(Statements), i : Nat \ {0}]

CallFrames == [kind : {"call"}]

TryFrames == [kind : {"try"}, handler : Seq(Statements), named : BOOLEAN]

CatchFrames == [kind : {"catch"}, named : BOOLEAN]

WhileFrames == [kind : {"while"}, body : Seq(Statements), k : Nat]

ForFrames ==
  {f \in [kind : {"for"}, body : Seq(Statements), k : Nat, limit : Nat, env : Nat \ {0},
          local : Binds \ {"loop"}, outer : Binds \ {"loop"}, saw : Binds \ {"loop"}] :
     f.outer = "none" => f.saw = IF f.local = "none" THEN "unset" ELSE f.local}

AnyFrame ==
  ListFrames \cup CallFrames \cup TryFrames \cup CatchFrames \cup WhileFrames \cup ForFrames

\* How many of the first k frames are of a set.
Number(q, k, F) == Cardinality({j \in 1..k : q[j] \in F})

Loops == WhileFrames \cup ForFrames

NamedFrames == {f \in CatchFrames : f.named}

\* A loop's environment is one of those that its activation had.
EnvsWithin(q) ==
  \A k \in 1..Len(q) : q[k] \in ForFrames =>
    q[k].env <= 1 + Number(q, k, CallFrames) + Number(q, k, NamedFrames)

\* A stack of so many loops, calls and catch blocks that name their error.
StackOf(q, loops, calls, named) ==
  /\ q \in Seq(AnyFrame)
  /\ Number(q, Len(q), Loops) = loops
  /\ Number(q, Len(q), CallFrames) = calls
  /\ Number(q, Len(q), NamedFrames) = named
  /\ EnvsWithin(q)

One(b) == IF b THEN 1 ELSE 0

\* Label maps, and environments each inside an earlier one.
Maps == UNION {[S -> Nat \ {0}] : S \in SUBSET Nat}

EnvsOK(es) ==
  /\ es \in Seq([parent : Nat, bind : Binds])
  /\ \A e \in 1..Len(es) : es[e].parent < e

TypeInv ==
  /\ function \in Seq(Statements)
  /\ ret \in [status : Statuses, n : Nat] /\ (ret.status = "goto" => ret.n # 0)
  /\ aim \in Nat
  /\ trace \in Seq(BOOLEAN)
  /\ labels \in Seq(Maps)
  /\ EnvsOK(envs)

\* One label map for the top level and each call, one environment for the top level, each
\* call and each catch block that names its error, and loop_depth for the loops.
StackInv == StackOf(stack, loopDepth, Len(labels) - 1, Len(envs) - Len(labels))

\* A break still has to leave the loops between here and its aim.
BreakInv == ret.status = "break" => aim = loopDepth - ret.n

\* The inductive invariant.
IInv == TypeInv /\ StackInv /\ BreakInv

-----------------------------------------------------------------------------
(* Frames and stacks. *)

\* A frame's kind says which fields it has.
LEMMA FrameKinds ==
  ASSUME NEW f \in AnyFrame
  PROVE  /\ f.kind = "list" <=> f \in ListFrames
         /\ f.kind = "call" <=> f \in CallFrames
         /\ f.kind = "try" <=> f \in TryFrames
         /\ f.kind = "catch" <=> f \in CatchFrames
         /\ f.kind = "while" <=> f \in WhileFrames
         /\ f.kind = "for" <=> f \in ForFrames
         /\ f.kind \in {"list", "call", "try", "catch", "while", "for"}
<1>1. /\ f \in ListFrames => f.kind = "list"
      /\ f \in CallFrames => f.kind = "call"
      /\ f \in TryFrames => f.kind = "try"
      /\ f \in CatchFrames => f.kind = "catch"
      /\ f \in WhileFrames => f.kind = "while"
      /\ f \in ForFrames => f.kind = "for"
  BY DEF ListFrames, CallFrames, TryFrames, CatchFrames, WhileFrames, ForFrames
<1> QED
  BY <1>1 DEF AnyFrame

\* Counting over a prefix.
LEMMA NumberFacts ==
  ASSUME NEW q, NEW F, NEW k \in Nat
  PROVE  /\ Number(q, k, F) \in Nat
         /\ Number(q, k + 1, F) = Number(q, k, F) + One(q[k + 1] \in F)
         /\ Number(q, 0, F) = 0
<1> DEFINE A(n) == {j \in 1..n : q[j] \in F}
<1>1. \A n \in Nat : IsFiniteSet(A(n)) /\ Cardinality(A(n)) \in Nat
  <2> SUFFICES ASSUME NEW n \in Nat PROVE IsFiniteSet(A(n)) /\ Cardinality(A(n)) \in Nat
    OBVIOUS
  <2>1. IsFiniteSet(1..n) /\ A(n) \in SUBSET (1..n)
    BY FS_Interval
  <2>2. IsFiniteSet(A(n))
    BY <2>1, FS_Subset
  <2> QED
    BY <2>2, FS_CardinalityType
<1>2. ASSUME q[k + 1] \in F PROVE Number(q, k + 1, F) = Number(q, k, F) + One(TRUE)
  <2>1. A(k + 1) = A(k) \cup {k + 1} /\ k + 1 \notin A(k)
    BY <1>2
  <2>2. Cardinality(A(k + 1)) = Cardinality(A(k)) + 1
    BY <1>1, <2>1, FS_AddElement
  <2> QED
    BY <2>2 DEF Number, One
<1>3. ASSUME q[k + 1] \notin F PROVE Number(q, k + 1, F) = Number(q, k, F) + One(FALSE)
  <2>1. A(k + 1) = A(k)
    BY <1>3
  <2>2. Cardinality(A(k)) \in Nat
    BY <1>1
  <2>3. Number(q, k + 1, F) = Cardinality(A(k + 1)) /\ Number(q, k, F) = Cardinality(A(k))
    BY DEF Number
  <2> HIDE DEF A
  <2> QED
    BY <2>1, <2>2, <2>3 DEF One
<1>4. Number(q, 0, F) = 0
  <2>1. A(0) = {}
    OBVIOUS
  <2> QED
    BY <2>1, FS_EmptySet DEF Number
<1>5. Number(q, k, F) \in Nat
  BY <1>1 DEF Number
<1> QED
  BY <1>2, <1>3, <1>4, <1>5 DEF One

\* A count depends on the prefix only.
LEMMA NumberSame ==
  ASSUME NEW q, NEW r, NEW F, NEW k \in Nat, \A j \in 1..k : r[j] = q[j]
  PROVE  Number(r, k, F) = Number(q, k, F)
<1>1. {j \in 1..k : r[j] \in F} = {j \in 1..k : q[j] \in F}
  OBVIOUS
<1> QED
  BY <1>1 DEF Number

\* A frame is put on a stack.
LEMMA Push ==
  ASSUME NEW q, NEW l, NEW c, NEW m, StackOf(q, l, c, m), NEW f \in AnyFrame,
         f \in ForFrames => f.env <= 1 + c + m
  PROVE  StackOf(Append(q, f), l + One(f \in Loops), c + One(f \in CallFrames),
                 m + One(f \in NamedFrames))
<1> DEFINE r == Append(q, f)
           n == Len(q)
<1>1. q \in Seq(AnyFrame) /\ n \in Nat
  BY DEF StackOf
<1>2. r \in Seq(AnyFrame) /\ Len(r) = n + 1 /\ r[n + 1] = f /\ \A j \in 1..n : r[j] = q[j]
  BY <1>1, AppendProperties
<1> HIDE DEF r, n
<1>3. \A F : \A k \in 0..n : Number(r, k, F) = Number(q, k, F)
  BY <1>1, <1>2, NumberSame
<1>4. \A F : /\ Number(r, n + 1, F) = Number(q, n, F) + One(f \in F)
             /\ Number(r, n + 1, F) \in Nat /\ Number(q, n, F) \in Nat
  <2> SUFFICES ASSUME NEW F
               PROVE  /\ Number(r, n + 1, F) = Number(q, n, F) + One(f \in F)
                      /\ Number(r, n + 1, F) \in Nat /\ Number(q, n, F) \in Nat
    OBVIOUS
  <2>1. /\ Number(r, n, F) \in Nat
        /\ Number(r, n + 1, F) = Number(r, n, F) + One(r[n + 1] \in F)
    BY <1>1, NumberFacts
  <2>2. Number(r, n, F) = Number(q, n, F)
    BY <1>1, <1>3
  <2> QED
    BY <1>2, <2>1, <2>2 DEF One
<1>5. EnvsWithin(r)
  <2> SUFFICES ASSUME NEW k \in 1..(n + 1), r[k] \in ForFrames
               PROVE  r[k].env <= 1 + Number(r, k, CallFrames) + Number(r, k, NamedFrames)
    BY <1>2 DEF EnvsWithin
  <2>1. CASE k \in 1..n
    BY <1>1, <1>2, <1>3, <2>1 DEF StackOf, EnvsWithin, n
  <2>2. CASE k = n + 1
    <3>1. f.env \in Nat /\ f.env <= 1 + c + m
      BY <1>2, <2>2 DEF ForFrames
    <3>2. f \notin CallFrames /\ f \notin NamedFrames
      BY <1>2, <2>2, FrameKinds DEF NamedFrames
    <3>3. Number(r, k, CallFrames) = c /\ Number(r, k, NamedFrames) = m
      BY <1>4, <2>2, <3>2 DEF StackOf, One, n
    <3> QED
      BY <1>2, <2>2, <3>1, <3>3
  <2> QED
    BY <1>1, <2>1, <2>2
<1> QED
  BY <1>2, <1>4, <1>5 DEF StackOf, r, n

\* The last frame is taken off a stack.
LEMMA Pop ==
  ASSUME NEW q, NEW l, NEW c, NEW m, StackOf(q, l, c, m), q # <<>>
  PROVE  LET f == q[Len(q)]
         IN  /\ f \in AnyFrame
             /\ StackOf(SubSeq(q, 1, Len(q) - 1), l - One(f \in Loops),
                        c - One(f \in CallFrames), m - One(f \in NamedFrames))
             /\ f \in ForFrames => f.env <= 1 + c + m
<1> DEFINE f == q[Len(q)]
           n == Len(q) - 1
           r == SubSeq(q, 1, n)
<1>1. q \in Seq(AnyFrame) /\ Len(q) = n + 1 /\ n \in Nat
  BY EmptySeq DEF StackOf
<1>2. f \in AnyFrame
  BY <1>1
<1>3. r \in Seq(AnyFrame) /\ Len(r) = n /\ \A j \in 1..n : r[j] = q[j]
  BY <1>1, SubSeqProperties
<1> HIDE DEF r, n, f
<1>4. \A F : \A k \in 0..n : Number(r, k, F) = Number(q, k, F)
  BY <1>1, <1>3, NumberSame
<1>5. \A F : /\ Number(q, n + 1, F) = Number(r, n, F) + One(f \in F)
             /\ Number(r, n, F) \in Nat
  <2> SUFFICES ASSUME NEW F
               PROVE  /\ Number(q, n + 1, F) = Number(r, n, F) + One(f \in F)
                      /\ Number(r, n, F) \in Nat
    OBVIOUS
  <2>1. /\ Number(q, n, F) \in Nat
        /\ Number(q, n + 1, F) = Number(q, n, F) + One(q[n + 1] \in F)
    BY <1>1, NumberFacts
  <2>2. Number(r, n, F) = Number(q, n, F)
    BY <1>1, <1>4
  <2> QED
    BY <1>1, <2>1, <2>2 DEF f
<1>6. EnvsWithin(r)
  <2> SUFFICES ASSUME NEW k \in 1..n, r[k] \in ForFrames
               PROVE  r[k].env <= 1 + Number(r, k, CallFrames) + Number(r, k, NamedFrames)
    BY <1>3 DEF EnvsWithin
  <2> QED
    BY <1>1, <1>3, <1>4 DEF StackOf, EnvsWithin
<1>7. f \in ForFrames => f.env <= 1 + c + m
  BY <1>1 DEF StackOf, EnvsWithin, f
<1>8. StackOf(r, l - One(f \in Loops), c - One(f \in CallFrames), m - One(f \in NamedFrames))
  <2>1. \A F : Number(r, n, F) = Number(q, n + 1, F) - One(f \in F)
    BY <1>5 DEF One
  <2> QED
    BY <1>1, <1>3, <1>6, <2>1 DEF StackOf
<1> QED
  BY <1>2, <1>7, <1>8 DEF f, r, n

\* What putting a frame on a stack, or taking it off, counts.
LEMMA Weights ==
  ASSUME NEW f \in AnyFrame
  PROVE  /\ One(f \in Loops) = One(f.kind \in {"while", "for"})
         /\ One(f \in CallFrames) = One(f.kind = "call")
         /\ One(f \in NamedFrames) = One(f.kind = "catch" /\ f.named)
<1>1. f \in NamedFrames <=> (f.kind = "catch" /\ f.named)
  BY FrameKinds DEF NamedFrames
<1> QED
  BY <1>1, FrameKinds DEF Loops, One

\* The counts are natural numbers.
LEMMA Counts ==
  ASSUME NEW q, NEW l, NEW c, NEW m, StackOf(q, l, c, m)
  PROVE  l \in Nat /\ c \in Nat /\ m \in Nat
<1>1. Len(q) \in Nat
  BY DEF StackOf
<1> QED
  BY <1>1, NumberFacts DEF StackOf

\* The sizes of the label maps and the environments.
LEMMA Sizes ==
  ASSUME IInv
  PROVE  /\ Len(labels) \in Nat \ {0} /\ Len(envs) \in Nat \ {0}
         /\ Len(labels) <= Len(envs) /\ loopDepth \in Nat
         /\ Env \in 1..Len(envs)
<1>1. Len(labels) \in Nat /\ Len(envs) \in Nat
  BY DEF IInv, TypeInv, EnvsOK
<1>2. Len(labels) - 1 \in Nat /\ Len(envs) - Len(labels) \in Nat /\ loopDepth \in Nat
  BY Counts DEF IInv, StackInv
<1> QED
  BY <1>1, <1>2 DEF Env

\* The innermost activation, and the stack without it.
LEMMA TopFrame ==
  ASSUME IInv, stack # <<>>
  PROVE  /\ Top \in AnyFrame
         /\ StackOf(Rest, loopDepth - One(Top.kind \in {"while", "for"}),
                    Len(labels) - 1 - One(Top.kind = "call"),
                    Len(envs) - Len(labels) - One(Top.kind = "catch" /\ Top.named))
         /\ Top.kind = "for" => Top.env \in 1..Len(envs)
<1>1. StackOf(stack, loopDepth, Len(labels) - 1, Len(envs) - Len(labels))
  BY DEF IInv, StackInv
<1>2. /\ Top \in AnyFrame
      /\ StackOf(Rest, loopDepth - One(Top \in Loops), Len(labels) - 1 - One(Top \in CallFrames),
                 Len(envs) - Len(labels) - One(Top \in NamedFrames))
      /\ Top \in ForFrames => Top.env <= 1 + (Len(labels) - 1) + (Len(envs) - Len(labels))
  BY <1>1, Pop DEF Top, Rest
<1>3. Top.kind = "for" => Top.env \in 1..Len(envs)
  <2>1. Len(labels) \in Nat /\ Len(envs) \in Nat
    BY Sizes
  <2>2. Top.kind = "for" => Top.env \in Nat \ {0} /\ Top \in ForFrames
    BY <1>2, FrameKinds DEF ForFrames
  <2> QED
    BY <1>2, <2>1, <2>2
<1> QED
  BY <1>2, <1>3, Weights

\* The statement about to be executed.
LEMMA Executing ==
  ASSUME IInv, NEW op, Execute(op)
  PROVE  /\ Stmt \in Statements /\ Stmt.n \in Nat
         /\ Stmt.body \in Seq(Statements) /\ Stmt.handler \in Seq(Statements)
<1>1. Top \in ListFrames
  BY TopFrame, FrameKinds DEF Execute, At
<1>2. Top.list \in Seq(Statements) /\ Top.i \in 1..Len(Top.list)
  BY <1>1 DEF ListFrames, Execute
<1>3. Stmt \in Statements
  BY <1>2 DEF Stmt
<1> QED
  BY <1>3, StatementAssumption

\* The results of statements.
LEMMA Results ==
  /\ Running \in [status : Statuses, n : Nat] /\ Running.status = "run"
  /\ Ok \in [status : Statuses, n : Nat] /\ Ok.status = "ok"
  /\ Error \in [status : Statuses, n : Nat] /\ Error.status = "error"
  /\ \A t \in Statuses, n \in Nat : /\ Result(t, n) \in [status : Statuses, n : Nat]
                                   /\ Result(t, n).status = t /\ Result(t, n).n = n
  BY DEF Running, Ok, Error, Result, Statuses

\* A set of naturals that is not empty has a least element.
LEMMA LeastExists ==
  ASSUME NEW S \in SUBSET Nat, S # {}
  PROVE  \E i \in S : \A j \in S : i <= j
<1> DEFINE Less == OpToRel(<, Nat)
<1>1. IsWellFoundedOn(Less, Nat)
  BY NatLessThanWellFounded
<1>2. PICK i \in S : \A j \in S : ~ (<<j, i>> \in Less)
  BY <1>1, WFMin
<1>3. \A j \in S : ~ (j < i)
  BY <1>2 DEF OpToRel
<1> QED
  BY <1>3

\* A list's gotopoints join those of the map, at indices in the list.
LEMMA RegisteredMap ==
  ASSUME NEW map \in Maps, NEW list \in Seq(Statements)
  PROVE  Registered(map, list) \in Maps
<1> DEFINE new == {list[i].n : i \in {j \in DOMAIN list : list[j].op = "point"}} \ DOMAIN map
           r == Registered(map, list)
<1>1. map \in [DOMAIN map -> Nat \ {0}] /\ DOMAIN map \in SUBSET Nat
  BY DEF Maps
<1>2. DOMAIN list = 1..Len(list) /\ Len(list) \in Nat /\ \A i \in DOMAIN list : list[i].n \in Nat
  BY StatementAssumption
<1>3. new \in SUBSET Nat
  BY <1>2
<1>4. ASSUME NEW n \in new PROVE First(Points(list, n)) \in Nat \ {0}
  <2>1. Points(list, n) \in SUBSET Nat /\ Points(list, n) # {} /\ 0 \notin Points(list, n)
    BY <1>2, <1>4 DEF Points
  <2>2. \E i \in Points(list, n) : \A j \in Points(list, n) : i <= j
    BY <2>1, LeastExists
  <2> QED
    BY <2>1, <2>2 DEF First
<1>5. r = [n \in DOMAIN map \cup new |->
             IF n \in DOMAIN map THEN map[n] ELSE First(Points(list, n))]
  BY DEF Registered
<1> HIDE DEF r, new
<1>6. r \in [DOMAIN map \cup new -> Nat \ {0}]
  BY <1>1, <1>4, <1>5
<1> QED
  BY <1>1, <1>3, <1>6 DEF Maps, r

\* The map of a function that starts has no gotopoint.
LEMMA NoLabelsMap == NoLabels \in Maps
<1>1. NoLabels \in [{} -> Nat \ {0}] /\ {} \in SUBSET Nat
  BY DEF NoLabels
<1> QED
  BY <1>1 DEF Maps

\* A list starts on a stack.
LEMMA Started ==
  ASSUME IInv, NEW q, NEW l, NEW c, NEW m, StackOf(q, l, c, m),
         NEW list \in Seq(Statements), StartList(q, list)
  PROVE  /\ StackOf(stack', l, c, m)
         /\ ret' = Running
         /\ labels' \in Seq(Maps) /\ Len(labels') = Len(labels)
<1> DEFINE f == ListFrame(list)
<1>1. f \in AnyFrame /\ f.kind = "list"
  BY DEF ListFrame, ListFrames, AnyFrame
<1>2. l \in Nat /\ c \in Nat /\ m \in Nat
  BY Counts
<1> HIDE DEF f
<1>3. StackOf(Append(q, f), l + One(f \in Loops), c + One(f \in CallFrames),
              m + One(f \in NamedFrames))
  BY <1>1, FrameKinds, Push
<1>4. StackOf(stack', l, c, m)
  BY <1>1, <1>2, <1>3, Weights DEF One, StartList, f
<1>5. labels[Len(labels)] \in Maps /\ Len(labels) \in 1..Len(labels) /\ labels \in Seq(Maps)
  BY Sizes DEF IInv, TypeInv
<1>6. Registered(labels[Len(labels)], list) \in Maps
  BY <1>5, RegisteredMap
<1>7. labels' \in Seq(Maps) /\ Len(labels') = Len(labels)
  BY <1>5, <1>6, ExceptSeq DEF StartList, Relabel
<1> QED
  BY <1>4, <1>7 DEF StartList

-----------------------------------------------------------------------------
(* The name in the environments. *)

\* Environments are records, each inside an earlier one.
LEMMA EnvTypes ==
  ASSUME NEW es, EnvsOK(es)
  PROVE  /\ Len(es) \in Nat
         /\ \A k \in 1..Len(es) : /\ es[k] \in [parent : Nat, bind : Binds]
                                  /\ es[k].parent \in 0..(k - 1) /\ es[k].bind \in Binds
<1> DEFINE R == [parent : Nat, bind : Binds]
<1>1. es \in Seq(R) /\ \A k \in 1..Len(es) : es[k].parent < k
  BY DEF EnvsOK
<1>2. \A r \in R : r.parent \in Nat /\ r.bind \in Binds
  OBVIOUS
<1> HIDE DEF R
<1>3. Len(es) \in Nat /\ \A k \in 1..Len(es) : es[k] \in R
  BY <1>1, LenProperties, ElementOfSeq
<1>4. \A k \in 1..Len(es) : es[k].parent \in 0..(k - 1) /\ es[k].bind \in Binds
  BY <1>1, <1>2, <1>3
<1> QED
  BY <1>3, <1>4 DEF R

\* The recursion of a lookup is well founded: an environment is inside an earlier one.
LEMMA LookupFunction ==
  ASSUME NEW es, EnvsOK(es), NEW g,
         g = CHOOSE f : f = [k \in 0..Len(es) |->
               IF k = 0 THEN 0 ELSE IF es[k].bind # "none" THEN k ELSE f[es[k].parent]]
  PROVE  \A k \in 0..Len(es) :
           g[k] = IF k = 0 THEN 0 ELSE IF es[k].bind # "none" THEN k ELSE g[es[k].parent]
<1> DEFINE Chain(f, n) == f = [k \in 0..n |->
               IF k = 0 THEN 0 ELSE IF es[k].bind # "none" THEN k ELSE f[es[k].parent]]
           Undefined == {n \in 0..Len(es) : ~\E f : Chain(f, n)}
<1>1. Len(es) \in Nat /\ \A k \in 1..Len(es) : es[k].parent \in 0..(k - 1)
  BY EnvTypes
<1>2. Undefined = {}
  <2>1. SUFFICES ASSUME Undefined # {} PROVE FALSE
    OBVIOUS
  <2>2. Undefined \in SUBSET Nat
    BY <1>1
  <2>3. PICK n \in Undefined : \A i \in Undefined : n <= i
    BY <2>1, <2>2, LeastExists
  <2>4. CASE n = 0
    <3>1. Chain([k \in 0..0 |-> 0], 0)
      OBVIOUS
    <3> QED
      BY <2>3, <2>4, <3>1
  <2>5. CASE n # 0
    <3>1. n - 1 \in 0..Len(es) /\ n - 1 \notin Undefined /\ n \in 1..Len(es)
      <4>1. n \in 0..Len(es) /\ Len(es) \in Nat
        BY <1>1, <2>3
      <4>2. n - 1 \in 0..Len(es) /\ n \in 1..Len(es) /\ ~(n <= n - 1)
        BY <2>5, <4>1
      <4> QED
        BY <2>3, <4>2
    <3>2. PICK f : Chain(f, n - 1)
      BY <3>1
    <3> DEFINE h == [k \in 0..n |-> IF k # n THEN f[k]
                                    ELSE IF es[n].bind # "none" THEN n ELSE f[es[n].parent]]
    <3>3. \A k \in 0..n :
            h[k] = IF k = 0 THEN 0 ELSE IF es[k].bind # "none" THEN k ELSE h[es[k].parent]
      <4>1. \A k \in 0..(n - 1) :
              f[k] = IF k = 0 THEN 0 ELSE IF es[k].bind # "none" THEN k ELSE f[es[k].parent]
        BY <3>2
      <4>2. \A k \in 1..n : es[k].parent \in 0..(n - 1) /\ es[k].parent # n
        BY <1>1, <3>1
      <4> QED
        BY <2>5, <3>1, <4>1, <4>2
    <3>4. Chain(h, n)
      BY <3>3
    <3> QED
      BY <2>3, <3>4
  <2> QED
    BY <2>4, <2>5
<1>3. \E f : Chain(f, Len(es))
  BY <1>1, <1>2
<1>4. Chain(g, Len(es))
  BY <1>3
<1> QED
  BY <1>4

\* What is found: nothing, or an environment that has the name.
LEMMA LookupValues ==
  ASSUME NEW es, EnvsOK(es), NEW g,
         \A k \in 0..Len(es) :
           g[k] = IF k = 0 THEN 0 ELSE IF es[k].bind # "none" THEN k ELSE g[es[k].parent],
         NEW e \in 0..Len(es)
  PROVE  g[e] = 0 \/ (g[e] \in 1..Len(es) /\ es[g[e]].bind # "none")
<1> DEFINE Good(k) == g[k] = 0 \/ (g[k] \in 1..Len(es) /\ es[g[k]].bind # "none")
           Bad == {k \in 0..Len(es) : ~Good(k)}
<1>1. Len(es) \in Nat /\ \A k \in 1..Len(es) : es[k].parent \in 0..(k - 1)
  BY EnvTypes
<1>2. SUFFICES ASSUME Bad # {} PROVE FALSE
  OBVIOUS
<1>3. PICK n \in Bad : \A i \in Bad : n <= i
  <2>1. Bad \in SUBSET Nat
    BY <1>1
  <2> QED
    BY <1>2, <2>1, LeastExists
<1>4. n # 0 /\ es[n].bind = "none"
  BY <1>1, <1>3
<1>5. es[n].parent \in 0..Len(es) /\ ~(n <= es[n].parent)
  BY <1>1, <1>3, <1>4
<1>6. Good(es[n].parent)
  BY <1>3, <1>5
<1> QED
  BY <1>3, <1>4, <1>6

\* What a lookup from an environment finds.
LEMMA LookupFacts ==
  ASSUME EnvsOK(envs), NEW e \in 0..Len(envs)
  PROVE  /\ Lookup(e) = 0 \/ (Lookup(e) \in 1..Len(envs) /\ envs[Lookup(e)].bind # "none")
         /\ Lookup(e) = IF e = 0 THEN 0
                        ELSE IF envs[e].bind # "none" THEN e ELSE Lookup(envs[e].parent)
<1> DEFINE g == CHOOSE f : f = [k \in 0..Len(envs) |->
               IF k = 0 THEN 0 ELSE IF envs[k].bind # "none" THEN k ELSE f[envs[k].parent]]
<1>1. \A i : Lookup(i) = g[i]
  BY DEF Lookup
<1> HIDE DEF g
<1>2. \A k \in 0..Len(envs) :
         g[k] = IF k = 0 THEN 0 ELSE IF envs[k].bind # "none" THEN k ELSE g[envs[k].parent]
  BY LookupFunction DEF g
<1>3. g[e] = 0 \/ (g[e] \in 1..Len(envs) /\ envs[g[e]].bind # "none")
  BY <1>2, LookupValues
<1> QED
  BY <1>1, <1>2, <1>3

\* What a read finds, and that a binding is read where it is.
LEMMA ReadFacts ==
  ASSUME EnvsOK(envs), NEW e \in 0..Len(envs)
  PROVE  /\ Read(e) \in Binds \ {"none", "loop"}
         /\ Lookup(e) = 0 => Read(e) = "unset"
         /\ e # 0 /\ envs[e].bind # "none" =>
              Read(e) = IF envs[e].bind = "loop" THEN "count" ELSE envs[e].bind
<1>1. \A k \in 1..Len(envs) : envs[k].bind \in Binds
  BY EnvTypes
<1>2. Lookup(e) = 0 \/ (Lookup(e) \in 1..Len(envs) /\ envs[Lookup(e)].bind # "none")
  BY LookupFacts
<1>3. e # 0 /\ envs[e].bind # "none" => Lookup(e) = e
  BY LookupFacts
<1> QED
  BY <1>1, <1>2, <1>3 DEF Read, Binds

\* Binding the name in an environment keeps the environments.
LEMMA BindFacts ==
  ASSUME EnvsOK(envs), NEW e \in 1..Len(envs), NEW b \in Binds
  PROVE  /\ EnvsOK(Bind(e, b)) /\ Len(Bind(e, b)) = Len(envs)
         /\ Bind(e, b)[e].bind = b
<1> DEFINE r == [envs[e] EXCEPT !.bind = b]
<1>1. envs[e] \in [parent : Nat, bind : Binds]
  BY EnvTypes
<1>2. r \in [parent : Nat, bind : Binds] /\ r.parent = envs[e].parent /\ r.bind = b
  BY <1>1
<1>3. Bind(e, b) = [envs EXCEPT ![e] = r]
  BY DEF Bind
<1> HIDE DEF r
<1>4. /\ Bind(e, b) \in Seq([parent : Nat, bind : Binds]) /\ Len(Bind(e, b)) = Len(envs)
      /\ \A j \in 1..Len(envs) : Bind(e, b)[j] = IF j = e THEN r ELSE envs[j]
  <2>1. envs \in Seq([parent : Nat, bind : Binds])
    BY DEF EnvsOK
  <2> QED
    BY <1>2, <1>3, <2>1, ExceptSeq
<1> QED
  BY <1>2, <1>4 DEF EnvsOK

-----------------------------------------------------------------------------
(* Lists and the statements without parts. *)

\* The counters keep up with a stack that does not change.
LEMMA SameStack ==
  ASSUME IInv, UNCHANGED <<stack, loopDepth>>,
         Len(labels') = Len(labels), Len(envs') = Len(envs)
  PROVE  StackInv'
  BY DEF IInv, StackInv

\* The activation on top has no more to do: its stack is what TopFrame says.
LEMMA Returned ==
  ASSUME IInv, NEW kind, At(kind), NEW r, Return(r)
  PROVE  /\ Top \in AnyFrame /\ ret' = r
         /\ StackOf(stack', loopDepth - One(kind \in {"while", "for"}),
                    Len(labels) - 1 - One(kind = "call"),
                    Len(envs) - Len(labels) - One(kind = "catch" /\ Top.named))
  BY TopFrame DEF At, Return

\* The end of a list.
LEMMA EndListStep == IInv /\ EndList => IInv'
<1> SUFFICES ASSUME IInv, EndList PROVE IInv'
  OBVIOUS
<1>1. ret' = Ok /\ StackOf(stack', loopDepth, Len(labels) - 1, Len(envs) - Len(labels))
  BY Returned, Sizes DEF EndList, One
<1>2. StackInv'
  BY <1>1 DEF EndList, StackInv
<1>3. TypeInv'
  BY <1>1, Results DEF EndList, IInv, TypeInv
<1>4. BreakInv'
  BY <1>1, Results DEF BreakInv
<1> QED
  BY <1>2, <1>3, <1>4 DEF IInv

\* A list goes on, at the next statement or at an index, or passes its result on.
LEMMA ListResultStep == IInv /\ ListResult => IInv'
<1> SUFFICES ASSUME IInv, ListResult PROVE IInv'
  OBVIOUS
<1>t. ret \in [status : Statuses, n : Nat]
  BY DEF IInv, TypeInv
<1>1. Top \in ListFrames
  BY TopFrame, FrameKinds DEF ListResult, At
<1>3. StackOf(Rest, loopDepth, Len(labels) - 1, Len(envs) - Len(labels))
  BY TopFrame, Sizes DEF ListResult, At, One
<1>4. ASSUME NEW i \in Nat \ {0}, Replace([Top EXCEPT !.i = i]), ret' = Running PROVE IInv'
  <2> DEFINE f == [Top EXCEPT !.i = i]
  <2>1. f \in ListFrames
    BY <1>1 DEF ListFrames
  <2> HIDE DEF f
  <2>2. f \in AnyFrame /\ f.kind = "list"
    BY <2>1 DEF AnyFrame, ListFrames
  <2>3. StackOf(Append(Rest, f), loopDepth + One(f \in Loops), Len(labels) - 1 + One(f \in CallFrames),
                Len(envs) - Len(labels) + One(f \in NamedFrames))
    BY <1>3, <2>2, FrameKinds, Push
  <2>4. StackOf(Append(Rest, f), loopDepth, Len(labels) - 1, Len(envs) - Len(labels))
    BY <2>2, <2>3, Sizes, Weights DEF One
  <2>5. StackInv'
    BY <1>4, <2>4 DEF Replace, StackInv, ListResult, f
  <2>6. TypeInv' /\ BreakInv'
    BY <1>4, Results DEF IInv, TypeInv, BreakInv, ListResult
  <2> QED
    BY <2>5, <2>6 DEF IInv
<1>5. CASE ret.status = "ok"
  <2>1. Top.i + 1 \in Nat \ {0}
    BY <1>1 DEF ListFrames
  <2>2. Replace([Top EXCEPT !.i = Top.i + 1]) /\ ret' = Running
    BY <1>5 DEF ListResult
  <2> QED
    BY <1>4, <2>1, <2>2
<1>6. CASE ret.status = "goto" /\ ret.n <= Len(Top.list)
  <2>1. ret.n \in Nat \ {0}
    BY <1>t, <1>6 DEF IInv, TypeInv
  <2> QED
    BY <1>4, <1>6, <2>1 DEF ListResult
<1>7. CASE Return(ret)
  <2>1. StackInv'
    BY <1>3, <1>7 DEF Return, StackInv, ListResult
  <2>2. TypeInv' /\ BreakInv'
    BY <1>7 DEF IInv, TypeInv, BreakInv, ListResult, Return
  <2> QED
    BY <2>1, <2>2 DEF IInv
<1>8. CASE ret.status # "ok" /\ ~(ret.status = "goto" /\ ret.n <= Len(Top.list))
  BY <1>7, <1>8 DEF ListResult
<1> QED
  BY <1>5, <1>6, <1>8

\* The statements that only give a result.
LEMMA SimpleStep ==
  ASSUME IInv, ExecExpr \/ ExecBreak \/ ExecContinue \/ ExecReturn \/ ExecPoint \/ ExecGoto
  PROVE  IInv'
<1> USE DEF Simple, Yield
<1>1. UNCHANGED <<function, stack, loopDepth, trace, labels, envs>>
  BY DEF ExecExpr, ExecBreak, ExecContinue, ExecReturn, ExecPoint, ExecGoto
<1>2. StackInv'
  BY <1>1, SameStack
<1>3. ASSUME ret' \in [status : Statuses, n : Nat], ret'.status = "goto" => ret'.n # 0,
             aim' \in Nat, BreakInv'
      PROVE  IInv'
  BY <1>1, <1>2, <1>3 DEF IInv, TypeInv
<1>4. CASE ExecExpr \/ ExecContinue \/ ExecReturn \/ ExecPoint
  <2>1. /\ aim' = aim /\ aim \in Nat
        /\ ret' \in {Ok, Error, Result("continue", 0), Result("return", 0)}
    BY <1>4 DEF ExecExpr, ExecContinue, ExecReturn, ExecPoint, IInv, TypeInv
  <2>2. "continue" \in Statuses /\ "return" \in Statuses
    BY DEF Statuses
  <2> QED
    BY <1>3, <2>1, <2>2, Results DEF BreakInv
<1>5. CASE ExecBreak
  <2>1. Stmt.n \in Nat /\ loopDepth \in Nat /\ aim \in Nat /\ "break" \in Statuses
    BY <1>5, Executing, Sizes DEF ExecBreak, IInv, TypeInv, Statuses
  <2>2. CASE Stmt.n > loopDepth
    BY <1>3, <1>5, <2>1, <2>2, Results DEF ExecBreak, BreakInv
  <2>3. CASE ~(Stmt.n > loopDepth)
    <3>1. ret' = Result("break", Stmt.n) /\ aim' = loopDepth - Stmt.n
      BY <1>5, <2>3 DEF ExecBreak
    <3>2. aim' \in Nat
      BY <2>1, <2>3, <3>1
    <3> QED
      BY <1>1, <1>3, <2>1, <3>1, <3>2, Results DEF BreakInv
  <2> QED
    BY <2>2, <2>3
<1>6. CASE ExecGoto
  <2>1. Stmt.n \in Nat /\ "goto" \in Statuses
    BY <1>6, Executing DEF ExecGoto, Statuses
  <2>2. labels[Len(labels)] \in Maps
    BY Sizes DEF IInv, TypeInv
  <2>3. CASE Stmt.n \in DOMAIN labels[Len(labels)]
    <3> DEFINE i == labels[Len(labels)][Stmt.n]
    <3>1. i \in Nat \ {0}
      BY <2>2, <2>3 DEF Maps
    <3>2. ret' = Result("goto", i) /\ aim' = Stmt.n
      BY <1>6, <2>3 DEF ExecGoto
    <3> HIDE DEF i
    <3> QED
      BY <1>3, <2>1, <3>1, <3>2, Results DEF BreakInv
  <2>4. CASE Stmt.n \notin DOMAIN labels[Len(labels)]
    BY <1>3, <1>6, <2>1, <2>4, Results DEF ExecGoto, BreakInv
  <2> QED
    BY <2>3, <2>4
<1> QED
  BY <1>4, <1>5, <1>6

\* An assignment binds the name in an environment there is.
LEMMA AssignStep == IInv /\ ExecAssign => IInv'
<1> SUFFICES ASSUME IInv, ExecAssign PROVE IInv'
  OBVIOUS
<1>1. EnvsOK(envs) /\ Env \in 1..Len(envs) /\ Env \in 0..Len(envs) /\ "assigned" \in Binds
  BY Sizes DEF IInv, TypeInv, Binds
<1>2. envs[Env].parent # 0 => envs[Env].parent \in 1..Len(envs)
  <2>1. Len(envs) \in Nat /\ envs[Env].parent \in 0..(Env - 1)
    BY <1>1, EnvTypes
  <2> QED
    BY <1>1, <2>1
<1>3. Lookup(Env) # 0 => Lookup(Env) \in 1..Len(envs)
  BY <1>1, LookupFacts
<1>4. envs' = envs \/ \E e \in 1..Len(envs) : envs' = Bind(e, "assigned")
  BY <1>1, <1>2, <1>3 DEF ExecAssign
<1>5. EnvsOK(envs') /\ Len(envs') = Len(envs)
  BY <1>1, <1>4, BindFacts
<1>6. StackInv'
  BY <1>5, SameStack DEF ExecAssign, Yield
<1>7. TypeInv' /\ BreakInv'
  BY <1>5, Results DEF ExecAssign, Yield, IInv, TypeInv, BreakInv
<1> QED
  BY <1>6, <1>7 DEF IInv

-----------------------------------------------------------------------------
(* Conditionals, calls and try. *)

\* A list that starts on a stack of the right counts.
LEMMA StartedStep ==
  ASSUME IInv, NEW q, NEW list \in Seq(Statements), StartList(q, list),
         StackOf(q, loopDepth', Len(labels) - 1, Len(envs') - Len(labels)),
         EnvsOK(envs'), trace' \in Seq(BOOLEAN), UNCHANGED <<function, aim>>
  PROVE  IInv'
<1>1. /\ StackOf(stack', loopDepth', Len(labels) - 1, Len(envs') - Len(labels))
      /\ ret' = Running /\ labels' \in Seq(Maps) /\ Len(labels') = Len(labels)
  BY Started
<1>2. StackInv'
  BY <1>1 DEF StackInv
<1>3. TypeInv' /\ BreakInv'
  BY <1>1, Results DEF IInv, TypeInv, BreakInv
<1> QED
  BY <1>2, <1>3 DEF IInv

\* A branch, or none.
LEMMA IfStep == IInv /\ ExecIf => IInv'
<1> SUFFICES ASSUME IInv, ExecIf PROVE IInv'
  OBVIOUS
<1>1. CASE StartList(stack, Stmt.body)
  <2>1. Stmt.body \in Seq(Statements)
    BY Executing DEF ExecIf
  <2>2. StackOf(stack, loopDepth', Len(labels) - 1, Len(envs') - Len(labels))
    BY DEF IInv, StackInv, ExecIf
  <2> QED
    BY <1>1, <2>1, <2>2, StartedStep DEF ExecIf, IInv, TypeInv
<1>2. CASE (Yield(Ok) \/ Yield(Error)) /\ UNCHANGED labels
  <2>1. StackInv'
    BY <1>2, SameStack DEF ExecIf, Yield
  <2>2. TypeInv' /\ BreakInv'
    BY <1>2, Results DEF ExecIf, Yield, IInv, TypeInv, BreakInv
  <2> QED
    BY <2>1, <2>2 DEF IInv
<1> QED
  BY <1>1, <1>2 DEF ExecIf

\* A sequence without its last element.
LEMMA ShorterFacts ==
  ASSUME NEW S, NEW q \in Seq(S)
  PROVE  /\ Shorter(q) \in Seq(S)
         /\ q # <<>> => /\ Len(Shorter(q)) = Len(q) - 1
                       /\ \A i \in 1..(Len(q) - 1) : Shorter(q)[i] = q[i]
<1>1. Len(q) \in Nat /\ \A i \in 1..(Len(q) - 1) : q[i] \in S
  BY LenProperties, ElementOfSeq
<1>2. q # <<>> => Len(q) \in Nat \ {0}
  BY EmptySeq
<1> DEFINE n == Len(q) - 1
<1>3. n \in Int /\ \A i \in 1..n : q[i] \in S
  BY <1>1
<1>4. /\ Shorter(q) \in Seq(S)
      /\ Len(Shorter(q)) = IF 1 <= n THEN n - 1 + 1 ELSE 0
      /\ \A i \in 1..(n - 1 + 1) : Shorter(q)[i] = q[1 + i - 1]
  BY <1>3, SubSeqProperties DEF Shorter
<1>5. \A i \in 1..n : i \in 1..(n - 1 + 1) /\ 1 + i - 1 = i
  BY <1>3
<1>6. ASSUME NEW i \in 1..n PROVE Shorter(q)[i] = q[i]
  BY <1>4, <1>5
<1>7. q # <<>> => Len(Shorter(q)) = n
  <2>1. q # <<>> => n \in Nat
    BY <1>2
  <2>2. Len(Shorter(q)) = IF 1 <= n THEN n - 1 + 1 ELSE 0
    BY <1>4
  <2> HIDE DEF n
  <2> QED
    BY <2>1, <2>2
<1> QED
  BY <1>4, <1>6, <1>7

\* An environment is added inside another, or the last one is left.
LEMMA EnvAdded ==
  ASSUME NEW es, EnvsOK(es), NEW p \in 1..Len(es), NEW b \in Binds
  PROVE  /\ EnvsOK(Append(es, [parent |-> p, bind |-> b]))
         /\ Len(Append(es, [parent |-> p, bind |-> b])) = Len(es) + 1
<1> DEFINE R == [parent : Nat, bind : Binds]
           r == [parent |-> p, bind |-> b]
<1>1. es \in Seq(R) /\ Len(es) \in Nat /\ \A k \in 1..Len(es) : es[k].parent < k
  BY EnvTypes DEF EnvsOK
<1>2. r \in R /\ r.parent = p
  BY <1>1
<1> HIDE DEF r, R
<1>3. /\ Append(es, r) \in Seq(R) /\ Len(Append(es, r)) = Len(es) + 1
      /\ \A k \in 1..Len(es) : Append(es, r)[k] = es[k]
      /\ Append(es, r)[Len(es) + 1] = r
  BY <1>1, <1>2, AppendProperties
<1>4. \A k \in 1..(Len(es) + 1) : Append(es, r)[k].parent < k
  BY <1>1, <1>2, <1>3
<1> QED
  BY <1>3, <1>4 DEF EnvsOK, r, R

\* The last environment is left.
LEMMA EnvLeft ==
  ASSUME NEW es, EnvsOK(es), es # <<>>
  PROVE  EnvsOK(Shorter(es)) /\ Len(Shorter(es)) = Len(es) - 1
<1>1. Len(es) \in Nat /\ \A k \in 1..Len(es) : es[k].parent < k
  BY EnvTypes DEF EnvsOK
<1>2. /\ Shorter(es) \in Seq([parent : Nat, bind : Binds]) /\ Len(Shorter(es)) = Len(es) - 1
      /\ \A k \in 1..(Len(es) - 1) : Shorter(es)[k] = es[k]
  BY ShorterFacts DEF EnvsOK
<1> QED
  BY <1>1, <1>2 DEF EnvsOK

\* A call puts two frames on the stack, a label map and an environment beside it.
LEMMA CallStep == IInv /\ ExecCall => IInv'
<1> SUFFICES ASSUME IInv, ExecCall PROVE IInv'
  OBVIOUS
<1>1. CASE Yield(Error) /\ UNCHANGED <<trace, labels, envs>>
  <2>1. StackInv'
    BY <1>1, SameStack DEF ExecCall, Yield
  <2>2. TypeInv' /\ BreakInv'
    BY <1>1, Results DEF ExecCall, Yield, IInv, TypeInv, BreakInv
  <2> QED
    BY <2>1, <2>2 DEF IInv
<1>2. ASSUME stack' = Append(Append(stack, [kind |-> "call"]), ListFrame(function)),
             ret' = Running, trace' = Append(trace, TRUE),
             labels' = Append(labels, Registered(NoLabels, function)),
             NEW b \in Binds, envs' = Append(envs, [parent |-> 1, bind |-> b])
      PROVE  IInv'
  <2>1. /\ StackOf(stack, loopDepth, Len(labels) - 1, Len(envs) - Len(labels))
        /\ Len(labels) \in Nat \ {0} /\ Len(envs) \in Nat \ {0} /\ loopDepth \in Nat
    BY Sizes DEF IInv, StackInv
  <2> DEFINE f == [kind |-> "call"]
             g == ListFrame(function)
  <2>2. f \in AnyFrame /\ f.kind = "call" /\ g \in AnyFrame /\ g.kind = "list"
    BY DEF IInv, TypeInv, ListFrame, ListFrames, CallFrames, AnyFrame
  <2>3. stack' = Append(Append(stack, f), g)
    BY <1>2
  <2> HIDE DEF f, g
  <2>4. StackOf(Append(stack, f), loopDepth + One(f \in Loops), Len(labels) - 1 + One(f \in CallFrames),
                Len(envs) - Len(labels) + One(f \in NamedFrames))
    BY <2>1, <2>2, FrameKinds, Push
  <2>5. StackOf(Append(stack, f), loopDepth, Len(labels), Len(envs) - Len(labels))
    BY <2>1, <2>2, <2>4, Weights DEF One
  <2>6. StackOf(stack', loopDepth + One(g \in Loops), Len(labels) + One(g \in CallFrames),
                Len(envs) - Len(labels) + One(g \in NamedFrames))
    BY <2>2, <2>3, <2>5, FrameKinds, Push
  <2>7. StackOf(stack', loopDepth, Len(labels), Len(envs) - Len(labels))
    BY <2>1, <2>2, <2>6, Weights DEF One
  <2>8. EnvsOK(envs') /\ Len(envs') = Len(envs) + 1
    BY <1>2, <2>1, EnvAdded DEF IInv, TypeInv
  <2>9. labels' \in Seq(Maps) /\ Len(labels') = Len(labels) + 1
    <3>2. Registered(NoLabels, function) \in Maps
      BY NoLabelsMap, RegisteredMap DEF IInv, TypeInv
    <3> QED
      BY <1>2, <3>2, AppendProperties DEF IInv, TypeInv
  <2>10. trace' \in Seq(BOOLEAN)
    BY <1>2, AppendProperties DEF IInv, TypeInv
  <2>11. StackInv'
    <3>1. Len(labels') - 1 = Len(labels) /\ Len(envs') - Len(labels') = Len(envs) - Len(labels)
      BY <2>1, <2>8, <2>9
    <3> QED
      BY <2>7, <3>1 DEF StackInv, ExecCall
  <2>12. TypeInv' /\ BreakInv'
    BY <1>2, <2>8, <2>9, <2>10, Results DEF ExecCall, IInv, TypeInv, BreakInv
  <2> QED
    BY <2>11, <2>12 DEF IInv
<1>3. "argument" \in Binds /\ "none" \in Binds
  BY DEF Binds
<1> QED
  BY <1>1, <1>2, <1>3 DEF ExecCall

\* A call's frame, label map and environment go together.
LEMMA CallResultStep == IInv /\ CallResult => IInv'
<1> SUFFICES ASSUME IInv, CallResult PROVE IInv'
  OBVIOUS
<1>1. PICK r \in {Ok, Error} : Return(r) /\ trace' \in {trace, Shorter(trace)}
  BY DEF CallResult
<1>2. /\ Len(labels) \in Nat \ {0} /\ Len(envs) \in Nat \ {0} /\ loopDepth \in Nat
  BY Sizes
<1>3. StackOf(stack', loopDepth, Len(labels) - 2, Len(envs) - Len(labels))
  BY <1>1, <1>2, Returned DEF CallResult, One
<1>4. labels # <<>> /\ envs # <<>>
  BY <1>2, EmptySeq
<1>5. EnvsOK(envs') /\ Len(envs') = Len(envs) - 1
  BY <1>4, EnvLeft DEF CallResult, IInv, TypeInv
<1>6. labels' \in Seq(Maps) /\ Len(labels') = Len(labels) - 1
  BY <1>4, ShorterFacts DEF CallResult, IInv, TypeInv
<1>7. trace' \in Seq(BOOLEAN)
  BY <1>1, ShorterFacts DEF IInv, TypeInv
<1>8. StackInv'
  <2>1. /\ Len(labels') - 1 = Len(labels) - 2
        /\ Len(envs') - Len(labels') = Len(envs) - Len(labels)
    BY <1>2, <1>5, <1>6
  <2> QED
    BY <1>3, <2>1 DEF StackInv, CallResult
<1>9. TypeInv' /\ BreakInv'
  BY <1>1, <1>5, <1>6, <1>7, Results DEF Return, CallResult, IInv, TypeInv, BreakInv
<1> QED
  BY <1>8, <1>9 DEF IInv

\* A try block starts.
LEMMA TryStep == IInv /\ ExecTry => IInv'
<1> SUFFICES ASSUME IInv, ExecTry PROVE IInv'
  OBVIOUS
<1> DEFINE f == [kind |-> "try", handler |-> Stmt.handler, named |-> Stmt.n = 1]
<1>1. Stmt.body \in Seq(Statements) /\ Stmt.handler \in Seq(Statements)
  BY Executing DEF ExecTry
<1>2. f \in AnyFrame /\ f.kind = "try"
  BY <1>1 DEF TryFrames, AnyFrame
<1>3. StartList(Append(stack, f), Stmt.body)
  BY DEF ExecTry
<1> HIDE DEF f
<1>4. /\ StackOf(stack, loopDepth, Len(labels) - 1, Len(envs) - Len(labels))
      /\ Len(labels) \in Nat \ {0} /\ Len(envs) \in Nat \ {0} /\ loopDepth \in Nat
  BY Sizes DEF IInv, StackInv
<1>5. StackOf(Append(stack, f), loopDepth + One(f \in Loops), Len(labels) - 1 + One(f \in CallFrames),
              Len(envs) - Len(labels) + One(f \in NamedFrames))
  BY <1>2, <1>4, FrameKinds, Push
<1>6. StackOf(Append(stack, f), loopDepth, Len(labels) - 1, Len(envs) - Len(labels))
  BY <1>2, <1>4, <1>5, Weights DEF One
<1> QED
  BY <1>1, <1>3, <1>6, StartedStep DEF ExecTry, IInv, TypeInv

\* A try block passes its result on, or its error starts the catch block, in an
\* environment of its own if it names the error.
LEMMA TryResultStep == IInv /\ TryResult => IInv'
<1> SUFFICES ASSUME IInv, TryResult PROVE IInv'
  OBVIOUS
<1>1. /\ Len(labels) \in Nat \ {0} /\ Len(envs) \in Nat \ {0} /\ loopDepth \in Nat
      /\ Env \in 1..Len(envs)
  BY Sizes
<1>2. CASE ret.status # "error"
  <2>1. Return(ret) /\ UNCHANGED <<labels, envs>>
    BY <1>2 DEF TryResult
  <2>2. StackOf(stack', loopDepth, Len(labels) - 1, Len(envs) - Len(labels))
    BY <1>1, <2>1, Returned DEF TryResult, One
  <2>3. StackInv'
    BY <2>1, <2>2 DEF StackInv, TryResult
  <2>4. TypeInv' /\ BreakInv'
    BY <2>1 DEF IInv, TypeInv, BreakInv, TryResult, Return
  <2> QED
    BY <2>3, <2>4 DEF IInv
<1>3. CASE ret.status = "error"
  <2> DEFINE f == [kind |-> "catch", named |-> Top.named]
  <2>1. /\ StartList(Append(Rest, f), Top.handler)
        /\ envs' = IF Top.named THEN Append(envs, [parent |-> Env, bind |-> "none"]) ELSE envs
    BY <1>3 DEF TryResult
  <2>2. Top \in TryFrames
    BY TopFrame, FrameKinds DEF TryResult, At
  <2>3. Top.handler \in Seq(Statements) /\ Top.named \in BOOLEAN
    BY <2>2 DEF TryFrames
  <2>4. f \in AnyFrame /\ f.kind = "catch" /\ f.named = Top.named
    BY <2>3 DEF CatchFrames, AnyFrame
  <2>5. StackOf(Rest, loopDepth, Len(labels) - 1, Len(envs) - Len(labels))
    BY <1>1, TopFrame DEF TryResult, At, One
  <2> HIDE DEF f
  <2>6. StackOf(Append(Rest, f), loopDepth + One(f \in Loops), Len(labels) - 1 + One(f \in CallFrames),
                Len(envs) - Len(labels) + One(f \in NamedFrames))
    BY <2>4, <2>5, FrameKinds, Push
  <2>7. EnvsOK(envs') /\ Len(envs') = Len(envs) + One(Top.named)
    <3>1. EnvsOK(envs) /\ "none" \in Binds
      BY DEF IInv, TypeInv, Binds
    <3>2. CASE Top.named
      BY <1>1, <2>1, <3>1, <3>2, EnvAdded DEF One
    <3>3. CASE ~Top.named
      BY <1>1, <2>1, <3>1, <3>3 DEF One
    <3> QED
      BY <2>3, <3>2, <3>3
  <2>8. /\ One(f \in Loops) = 0 /\ One(f \in CallFrames) = 0
        /\ One(f \in NamedFrames) = One(Top.named) /\ One(Top.named) \in Nat
    BY <2>4, Weights DEF One
  <2>9. Len(envs) - Len(labels) + One(f \in NamedFrames) = Len(envs') - Len(labels)
    BY <1>1, <2>7, <2>8
  <2>10. StackOf(Append(Rest, f), loopDepth', Len(labels) - 1, Len(envs') - Len(labels))
    BY <1>1, <2>6, <2>8, <2>9 DEF TryResult
  <2> QED
    BY <2>1, <2>3, <2>7, <2>10, StartedStep DEF TryResult, IInv, TypeInv
<1> QED
  BY <1>2, <1>3

\* A catch block passes its result on and leaves its environment.
LEMMA CatchResultStep == IInv /\ CatchResult => IInv'
<1> SUFFICES ASSUME IInv, CatchResult PROVE IInv'
  OBVIOUS
<1>1. /\ Len(labels) \in Nat \ {0} /\ Len(envs) \in Nat \ {0} /\ loopDepth \in Nat
  BY Sizes
<1>2. Return(ret) /\ envs' = IF Top.named THEN Shorter(envs) ELSE envs
  BY DEF CatchResult
<1>3. StackOf(stack', loopDepth, Len(labels) - 1, Len(envs) - Len(labels) - One(Top.named))
  BY <1>1, <1>2, Returned DEF CatchResult, One
<1>4. envs # <<>>
  BY <1>1, EmptySeq
<1>5. EnvsOK(envs') /\ Len(envs') = Len(envs) - One(Top.named)
  BY <1>1, <1>2, <1>4, EnvLeft DEF IInv, TypeInv, One
<1>6. Len(envs) - Len(labels) - One(Top.named) = Len(envs') - Len(labels)
  BY <1>1, <1>5 DEF One
<1>7. StackInv'
  BY <1>3, <1>6 DEF StackInv, CatchResult
<1>8. TypeInv' /\ BreakInv'
  BY <1>2, <1>5 DEF IInv, TypeInv, BreakInv, CatchResult, Return
<1> QED
  BY <1>7, <1>8 DEF IInv

-----------------------------------------------------------------------------
(* Loops. *)

\* A loop starts: a frame and one more in loop_depth.
LEMMA LoopStarts ==
  ASSUME IInv, NEW f \in AnyFrame, f.kind \in {"while", "for"},
         f.kind = "for" => f.env <= Len(envs),
         Activate(f), loopDepth' = loopDepth + 1, EnvsOK(envs'), Len(envs') = Len(envs),
         UNCHANGED <<function, trace, labels, aim>>
  PROVE  IInv'
<1>1. /\ StackOf(stack, loopDepth, Len(labels) - 1, Len(envs) - Len(labels))
      /\ Len(labels) \in Nat \ {0} /\ Len(envs) \in Nat \ {0} /\ loopDepth \in Nat
  BY Sizes DEF IInv, StackInv
<1>2. 1 + (Len(labels) - 1) + (Len(envs) - Len(labels)) = Len(envs)
  BY <1>1
<1>3. StackOf(Append(stack, f), loopDepth + One(f \in Loops), Len(labels) - 1 + One(f \in CallFrames),
              Len(envs) - Len(labels) + One(f \in NamedFrames))
  BY <1>1, <1>2, FrameKinds, Push
<1>4. One(f \in Loops) = 1 /\ One(f \in CallFrames) = 0 /\ One(f \in NamedFrames) = 0
  BY Weights DEF One
<1>5. StackOf(Append(stack, f), loopDepth + 1, Len(labels) - 1, Len(envs) - Len(labels))
  BY <1>1, <1>3, <1>4
<1>6. StackInv'
  BY <1>5 DEF Activate, StackInv
<1>7. TypeInv' /\ BreakInv'
  BY Results DEF Activate, IInv, TypeInv, BreakInv
<1> QED
  BY <1>6, <1>7 DEF IInv

\* A loop goes on: its frame takes its next count, and its body starts on it.
LEMMA LoopGoes ==
  ASSUME IInv, stack # <<>>, Top.kind \in {"while", "for"},
         NEW f \in AnyFrame, f.kind = Top.kind, f.kind = "for" => f.env = Top.env,
         NEW list \in Seq(Statements), StartList(Append(Rest, f), list),
         EnvsOK(envs'), Len(envs') = Len(envs),
         UNCHANGED <<function, loopDepth, trace, aim>>
  PROVE  IInv'
<1>1. /\ Len(labels) \in Nat \ {0} /\ Len(envs) \in Nat \ {0} /\ loopDepth \in Nat
  BY Sizes
<1>2. /\ StackOf(Rest, loopDepth - 1, Len(labels) - 1, Len(envs) - Len(labels))
      /\ Top.kind = "for" => Top.env \in 1..Len(envs)
  BY <1>1, TopFrame DEF One
<1>3. f \in ForFrames => f.env <= 1 + (Len(labels) - 1) + (Len(envs) - Len(labels))
  <2>1. 1 + (Len(labels) - 1) + (Len(envs) - Len(labels)) = Len(envs)
    BY <1>1
  <2> QED
    BY <1>1, <1>2, <2>1, FrameKinds
<1>4. StackOf(Append(Rest, f), loopDepth - 1 + One(f \in Loops), Len(labels) - 1 + One(f \in CallFrames),
              Len(envs) - Len(labels) + One(f \in NamedFrames))
  BY <1>2, <1>3, Push
<1>5. One(f \in Loops) = 1 /\ One(f \in CallFrames) = 0 /\ One(f \in NamedFrames) = 0
  BY Weights DEF One
<1>6. StackOf(Append(Rest, f), loopDepth', Len(labels) - 1, Len(envs') - Len(labels))
  BY <1>1, <1>4, <1>5
<1> QED
  BY <1>6, StartedStep DEF IInv, TypeInv

\* A loop ends: its frame goes, and one of loop_depth.
LEMMA LoopEnds ==
  ASSUME IInv, NEW kind \in {"while", "for"}, At(kind),
         NEW r \in [status : Statuses, n : Nat], r.status = "goto" => r.n # 0,
         r.status = "break" => aim = loopDepth - 1 - r.n,
         Return(r), loopDepth' = loopDepth - 1, EnvsOK(envs'), Len(envs') = Len(envs),
         UNCHANGED <<function, trace, labels, aim>>
  PROVE  IInv'
<1>1. /\ Len(labels) \in Nat \ {0} /\ Len(envs) \in Nat \ {0} /\ loopDepth \in Nat
  BY Sizes
<1>2. StackOf(stack', loopDepth - 1, Len(labels) - 1, Len(envs) - Len(labels))
  BY <1>1, Returned DEF One
<1>3. StackInv'
  BY <1>2 DEF StackInv
<1>4. TypeInv' /\ BreakInv'
  BY DEF Return, IInv, TypeInv, BreakInv
<1> QED
  BY <1>3, <1>4 DEF IInv

\* What a loop passes on of a break has one loop less to leave.
LEMMA OnwardFacts ==
  ASSUME IInv
  PROVE  /\ Onward(ret) \in [status : Statuses, n : Nat]
         /\ Onward(ret).status = "goto" => Onward(ret).n # 0
         /\ Onward(ret).status = "break" => aim = loopDepth - 1 - Onward(ret).n
         /\ Onward(ret).status = "break" <=> (ret.status = "break" /\ ret.n > 1)
<1>1. /\ ret \in [status : Statuses, n : Nat] /\ ret.n \in Nat /\ "break" \in Statuses
      /\ loopDepth \in Nat
      /\ ret.status = "break" => aim = loopDepth - ret.n
      /\ ret.status = "goto" => ret.n # 0
  BY Sizes DEF IInv, TypeInv, BreakInv, Statuses
<1>2. CASE ret.status # "break"
  BY <1>1, <1>2 DEF Onward
<1>3. CASE ret.status = "break" /\ ret.n > 1
  <2>1. ret.n - 1 \in Nat
    BY <1>1, <1>3
  <2>2. Onward(ret) = Result("break", ret.n - 1)
    BY <1>3 DEF Onward
  <2>3. /\ Onward(ret) \in [status : Statuses, n : Nat]
        /\ Onward(ret).status = "break" /\ Onward(ret).n = ret.n - 1
    BY <1>1, <2>1, <2>2, Results
  <2>4. aim = loopDepth - 1 - (ret.n - 1)
    BY <1>1, <1>3
  <2> QED
    BY <1>3, <2>3, <2>4
<1>4. CASE ret.status = "break" /\ ~(ret.n > 1)
  BY <1>1, <1>4, Results DEF Onward
<1> QED
  BY <1>2, <1>3, <1>4

\* The while loop.
LEMMA WhileStep ==
  ASSUME IInv, ExecWhile \/ WhileTest \/ WhileResult
  PROVE  IInv'
<1>1. CASE ExecWhile
  <2> DEFINE f == [kind |-> "while", body |-> Stmt.body, k |-> 0]
  <2>1. Stmt.body \in Seq(Statements)
    BY <1>1, Executing DEF ExecWhile
  <2>2. f \in AnyFrame /\ f.kind = "while"
    BY <2>1 DEF WhileFrames, AnyFrame
  <2>3. Activate(f)
    BY <1>1 DEF ExecWhile
  <2> HIDE DEF f
  <2> QED
    BY <1>1, <2>2, <2>3, LoopStarts DEF ExecWhile, IInv, TypeInv
<1>2. CASE WhileTest
  <2>1. Top \in WhileFrames /\ stack # <<>> /\ Top.kind = "while"
    BY <1>2, TopFrame, FrameKinds DEF WhileTest, At
  <2>2. EnvsOK(envs') /\ Len(envs') = Len(envs)
    BY <1>2 DEF WhileTest, IInv, TypeInv
  <2>3. CASE StartList(Append(Rest, [Top EXCEPT !.k = @ + 1]), Top.body) /\ UNCHANGED loopDepth
    <3> DEFINE f == [Top EXCEPT !.k = Top.k + 1]
    <3>1. f \in WhileFrames /\ f.kind = "while" /\ Top.body \in Seq(Statements)
      BY <2>1 DEF WhileFrames
    <3>2. StartList(Append(Rest, f), Top.body)
      BY <2>3
    <3> HIDE DEF f
    <3>3. f \in AnyFrame
      BY <3>1 DEF AnyFrame
    <3> QED
      BY <1>2, <2>1, <2>2, <2>3, <3>1, <3>2, <3>3, LoopGoes DEF WhileTest
  <2>4. ASSUME NEW r \in {Ok, Error}, Return(r), loopDepth' = loopDepth - 1, UNCHANGED labels
        PROVE  IInv'
    <3>1. r \in [status : Statuses, n : Nat] /\ r.status \notin {"goto", "break"}
      BY Results
    <3> QED
      BY <1>2, <2>2, <2>4, <3>1, LoopEnds DEF WhileTest
  <2> QED
    BY <1>2, <2>3, <2>4 DEF WhileTest
<1>3. CASE WhileResult
  <2>1. EnvsOK(envs') /\ Len(envs') = Len(envs)
    BY <1>3 DEF WhileResult, IInv, TypeInv
  <2>2. CASE Ends(ret)
    <3>1. Return(Onward(ret)) /\ loopDepth' = loopDepth - 1
      BY <1>3, <2>2 DEF WhileResult
    <3> QED
      BY <1>3, <2>1, <3>1, OnwardFacts, LoopEnds DEF WhileResult
  <2>3. CASE ~Ends(ret)
    <3>1. StackInv'
      BY <1>3, <2>3, SameStack DEF WhileResult
    <3>2. TypeInv' /\ BreakInv'
      BY <1>3, <2>3, Results DEF WhileResult, IInv, TypeInv, BreakInv
    <3> QED
      BY <3>1, <3>2 DEF IInv
  <2> QED
    BY <2>2, <2>3
<1> QED
  BY <1>1, <1>2, <1>3

\* A for loop's frame.
LEMMA ForTop ==
  ASSUME IInv, At("for")
  PROVE  /\ Top \in ForFrames /\ stack # <<>> /\ Top.kind = "for"
         /\ Top.env \in 1..Len(envs) /\ EnvsOK(envs)
         /\ Top.local \in Binds \ {"loop"} /\ Top.outer \in Binds \ {"loop"}
         /\ Top.body \in Seq(Statements) /\ Top.k \in Nat
<1>1. Top \in ForFrames /\ stack # <<>> /\ Top.kind = "for"
  BY TopFrame, FrameKinds DEF At
<1> QED
  BY <1>1, TopFrame DEF IInv, TypeInv, ForFrames

\* What a for loop leaves of the name, and that it is bound where the loop was.
LEMMA RestoredFacts ==
  ASSUME IInv, At("for")
  PROVE  /\ EnvsOK(Restored(Top)) /\ Len(Restored(Top)) = Len(envs)
         /\ Restored(Top)[Top.env].bind = IF Top.local = "none" THEN "unset" ELSE Top.local
         /\ EnvsOK(RestoredTwice(Top)) /\ Len(RestoredTwice(Top)) = Len(envs)
         /\ EnvsOK(Counted(Top)) /\ Len(Counted(Top)) = Len(envs)
<1>1. /\ EnvsOK(envs) /\ Top.env \in 1..Len(envs)
      /\ Top.local \in Binds /\ Top.outer \in Binds /\ "unset" \in Binds /\ "count" \in Binds
  BY ForTop DEF Binds
<1> QED
  BY <1>1, BindFacts DEF Restored, RestoredTwice, Counted

\* The for loop starts: the name is bound to its counter.
LEMMA ForStarts == IInv /\ ExecFor => IInv'
<1> SUFFICES ASSUME IInv, ExecFor PROVE IInv'
  OBVIOUS
<1> DEFINE f == [kind |-> "for", body |-> Stmt.body, k |-> 0, limit |-> Stmt.n, env |-> Env,
                 local |-> IF envs[Env].bind = "loop" THEN "count" ELSE envs[Env].bind,
                 outer |-> IF Outer(Env) = 0 THEN "none" ELSE Read(envs[Env].parent),
                 saw |-> Read(Env)]
<1>1. CASE Yield(Error) /\ UNCHANGED <<loopDepth, envs>>
  <2>1. StackInv'
    BY <1>1, SameStack DEF ExecFor, Yield
  <2>2. TypeInv' /\ BreakInv'
    BY <1>1, Results DEF ExecFor, Yield, IInv, TypeInv, BreakInv
  <2> QED
    BY <2>1, <2>2 DEF IInv
<1>2. CASE Activate(f) /\ loopDepth' = loopDepth + 1 /\ envs' = Bind(Env, "loop")
  <2>1. /\ EnvsOK(envs) /\ Env \in 1..Len(envs) /\ Len(envs) \in Nat /\ Env \in 0..Len(envs)
        /\ envs[Env].parent \in 0..Len(envs) /\ envs[Env].bind \in Binds
    <3>1. EnvsOK(envs) /\ Env \in 1..Len(envs) /\ Len(envs) \in Nat
      BY Sizes DEF IInv, TypeInv
    <3>2. envs[Env].parent \in 0..(Env - 1) /\ envs[Env].bind \in Binds
      BY <3>1, EnvTypes
    <3> QED
      BY <3>1, <3>2
  <2>2. Stmt.body \in Seq(Statements) /\ Stmt.n \in Nat
    BY Executing DEF ExecFor
  <2>3. /\ Read(Env) \in Binds \ {"none", "loop"}
        /\ Read(envs[Env].parent) \in Binds \ {"none", "loop"}
    BY <2>1, ReadFacts
  <2> DEFINE local == IF envs[Env].bind = "loop" THEN "count" ELSE envs[Env].bind
             outer == IF Outer(Env) = 0 THEN "none" ELSE Read(envs[Env].parent)
  <2>4. local \in Binds \ {"loop"} /\ outer \in Binds \ {"loop"}
    BY <2>1, <2>3 DEF Binds
  <2>5. outer = "none" => Read(Env) = IF local = "none" THEN "unset" ELSE local
    <3>1. CASE envs[Env].bind # "none"
      BY <2>1, <3>1, ReadFacts
    <3>2. CASE envs[Env].bind = "none"
      <4>1. outer = "none" => Outer(Env) = 0
        BY <2>3
      <4>2. Lookup(Env) = Lookup(envs[Env].parent)
        BY <2>1, <3>2, LookupFacts
      <4>3. outer = "none" => Read(Env) = "unset"
        BY <2>1, <4>1, <4>2, ReadFacts DEF Outer
      <4> QED
        BY <3>2, <4>3
    <3> QED
      BY <3>1, <3>2
  <2>6. f \in ForFrames /\ f.kind = "for" /\ f.env = Env
    <3> HIDE DEF local, outer
    <3>1. f = [kind |-> "for", body |-> Stmt.body, k |-> 0, limit |-> Stmt.n, env |-> Env,
               local |-> local, outer |-> outer, saw |-> Read(Env)]
      BY DEF local, outer
    <3> HIDE DEF f
    <3> QED
      BY <2>1, <2>2, <2>3, <2>4, <2>5, <3>1 DEF ForFrames
  <2> HIDE DEF f
  <2>7. f \in AnyFrame
    BY <2>6 DEF AnyFrame
  <2>8. EnvsOK(envs') /\ Len(envs') = Len(envs)
    <3>1. "loop" \in Binds
      BY DEF Binds
    <3> QED
      BY <1>2, <2>1, <3>1, BindFacts
  <2>9. Env <= Len(envs)
    BY <2>1
  <2> QED
    BY <1>2, <2>6, <2>7, <2>8, <2>9, LoopStarts DEF ExecFor
<1> QED
  BY <1>1, <1>2 DEF ExecFor

\* The for loop goes on or ends, with the name bound again.
LEMMA ForStep ==
  ASSUME IInv, ForTest \/ ForResult
  PROVE  IInv'
<1>0. At("for")
  BY DEF ForTest, ForResult
<1>1. /\ Top \in ForFrames /\ stack # <<>> /\ Top.kind = "for" /\ EnvsOK(envs)
      /\ Top.body \in Seq(Statements) /\ Top.k \in Nat
  BY <1>0, ForTop
<1>2. ASSUME StartList(Append(Rest, [Top EXCEPT !.k = @ + 1]), Top.body),
             envs' = Counted(Top), UNCHANGED <<function, loopDepth, trace, aim>>
      PROVE  IInv'
  <2> DEFINE f == [Top EXCEPT !.k = Top.k + 1]
  <2>1. f \in ForFrames /\ f.kind = "for" /\ f.env = Top.env
    BY <1>1 DEF ForFrames
  <2>2. StartList(Append(Rest, f), Top.body)
    BY <1>2
  <2> HIDE DEF f
  <2>3. f \in AnyFrame
    BY <2>1 DEF AnyFrame
  <2> QED
    BY <1>0, <1>1, <1>2, <2>1, <2>2, <2>3, RestoredFacts, LoopGoes
<1>3. ASSUME NEW r \in [status : Statuses, n : Nat], r.status = "goto" => r.n # 0,
             r.status = "break" => aim = loopDepth - 1 - r.n,
             Return(r), loopDepth' = loopDepth - 1, envs' \in {Restored(Top), RestoredTwice(Top)},
             UNCHANGED <<function, trace, labels, aim>>
      PROVE  IInv'
  <2>1. EnvsOK(envs') /\ Len(envs') = Len(envs)
    BY <1>0, <1>3, RestoredFacts
  <2> QED
    BY <1>0, <1>3, <2>1, LoopEnds
<1>4. CASE ForTest
  <2>1. /\ Ok \in [status : Statuses, n : Nat] /\ Ok.status \notin {"goto", "break"}
        /\ Error \in [status : Statuses, n : Nat] /\ Error.status \notin {"goto", "break"}
    BY Results
  <2> QED
    BY <1>2, <1>3, <1>4, <2>1 DEF ForTest
<1>5. CASE ForResult
  <2>1. CASE Ends(ret)
    BY <1>3, <1>5, <2>1, OnwardFacts DEF ForResult
  <2>2. CASE ~Ends(ret)
    <3>1. StackInv'
      BY <1>5, <2>2, SameStack DEF ForResult
    <3>2. TypeInv' /\ BreakInv'
      BY <1>5, <2>2, Results DEF ForResult, IInv, TypeInv, BreakInv
    <3> QED
      BY <3>1, <3>2 DEF IInv
  <2> QED
    BY <2>1, <2>2
<1> QED
  BY <1>4, <1>5

-----------------------------------------------------------------------------
(* Theorems. *)

\* A thread that begins a program satisfies the invariant.
LEMMA InitInv == Init => IInv
<1> SUFFICES ASSUME Init PROVE IInv
  OBVIOUS
<1>1. PICK p \in Programs : stack = <<ListFrame(p)>> /\ labels = <<Registered(NoLabels, p)>>
  BY DEF Init
<1>2. p \in Seq(Statements) /\ function \in Seq(Statements)
  BY StatementAssumption DEF Init
<1>4. Registered(NoLabels, p) \in Maps
  BY <1>2, NoLabelsMap, RegisteredMap
<1>5. labels \in Seq(Maps) /\ Len(labels) = 1
  BY <1>1, <1>4
<1>6. EnvsOK(envs) /\ Len(envs) = 1
  BY DEF Init, EnvsOK, Binds
<1>7. TypeInv
  <2>1. trace \in Seq(BOOLEAN)
    <3>1. <<>> \in Seq(BOOLEAN) /\ <<FALSE>> \in Seq(BOOLEAN)
      OBVIOUS
    <3> QED
      BY <3>1 DEF Init
  <2>2. ret = Running /\ aim = 0
    BY DEF Init
  <2> QED
    BY <1>2, <1>5, <1>6, <2>1, <2>2, Results DEF TypeInv
<1>8. StackOf(<<>>, 0, 0, 0)
  <2>1. <<>> \in Seq(AnyFrame) /\ Len(<<>>) = 0
    OBVIOUS
  <2>2. \A F : Number(<<>>, 0, F) = 0
    BY NumberFacts
  <2> QED
    BY <2>1, <2>2 DEF StackOf, EnvsWithin
<1> DEFINE f == ListFrame(p)
<1>9. f \in AnyFrame /\ f.kind = "list"
  BY <1>2 DEF ListFrame, ListFrames, AnyFrame
<1>10. stack = Append(<<>>, f)
  BY <1>1
<1> HIDE DEF f
<1>11. StackOf(stack, 0 + One(f \in Loops), 0 + One(f \in CallFrames), 0 + One(f \in NamedFrames))
  BY <1>8, <1>9, <1>10, FrameKinds, Push
<1>12. StackInv
  <2>1. StackOf(stack, 0, 0, 0)
    BY <1>9, <1>11, Weights DEF One
  <2>2. loopDepth = 0 /\ Len(labels) - 1 = 0 /\ Len(envs) - Len(labels) = 0
    BY <1>5, <1>6 DEF Init
  <2> QED
    BY <2>1, <2>2 DEF StackInv
<1>13. BreakInv
  BY Results DEF Init, BreakInv
<1> QED
  BY <1>7, <1>12, <1>13 DEF IInv

\* The invariant holds at every step.
THEOREM Invariance == Spec => []IInv
<1>1. IInv /\ [Next]_vars => IInv'
  <2> SUFFICES ASSUME IInv, [Next]_vars PROVE IInv'
    OBVIOUS
  <2>1. CASE EndList \/ ListResult \/ ExecExpr \/ ExecAssign \/ ExecBreak \/ ExecContinue
             \/ ExecReturn \/ ExecPoint \/ ExecGoto \/ ExecIf
    BY <2>1, EndListStep, ListResultStep, SimpleStep, AssignStep, IfStep
  <2>2. CASE ExecCall \/ CallResult \/ ExecTry \/ TryResult \/ CatchResult
    BY <2>2, CallStep, CallResultStep, TryStep, TryResultStep, CatchResultStep
  <2>3. CASE ExecWhile \/ WhileTest \/ WhileResult \/ ExecFor \/ ForTest \/ ForResult
    BY <2>3, WhileStep, ForStarts, ForStep
  <2>4. CASE UNCHANGED vars
    BY <2>4 DEF vars, IInv, TypeInv, StackInv, BreakInv
  <2> QED
    BY <2>1, <2>2, <2>3, <2>4 DEF Next
<1> QED
  BY <1>1, InitInv, PTL DEF Spec

\* The frames of a kind, as Exec and as the invariant count them.
LEMMA FramesNumber ==
  ASSUME IInv
  PROVE  /\ Cardinality(Frames({"while", "for"})) = loopDepth
         /\ Cardinality(Frames({"call"})) = Len(labels) - 1
         /\ Cardinality({k \in Frames({"catch"}) : stack[k].named}) = Len(envs) - Len(labels)
<1>1. /\ stack \in Seq(AnyFrame) /\ DOMAIN stack = 1..Len(stack)
      /\ Number(stack, Len(stack), Loops) = loopDepth
      /\ Number(stack, Len(stack), CallFrames) = Len(labels) - 1
      /\ Number(stack, Len(stack), NamedFrames) = Len(envs) - Len(labels)
  BY DEF IInv, StackInv, StackOf
<1>2. \A k \in 1..Len(stack) : stack[k] \in AnyFrame
  BY <1>1, ElementOfSeq
<1>3. \A k \in 1..Len(stack) :
        /\ stack[k].kind \in {"while", "for"} <=> stack[k] \in Loops
        /\ stack[k].kind \in {"call"} <=> stack[k] \in CallFrames
        /\ stack[k].kind \in {"catch"} /\ stack[k].named <=> stack[k] \in NamedFrames
  BY <1>2, FrameKinds DEF Loops, NamedFrames
<1>4. Frames({"while", "for"}) = {j \in 1..Len(stack) : stack[j] \in Loops}
  BY <1>1, <1>3 DEF Frames
<1>5. Frames({"call"}) = {j \in 1..Len(stack) : stack[j] \in CallFrames}
  BY <1>1, <1>3 DEF Frames
<1>6. {k \in Frames({"catch"}) : stack[k].named} = {j \in 1..Len(stack) : stack[j] \in NamedFrames}
  BY <1>1, <1>3 DEF Frames
<1> QED
  BY <1>1, <1>4, <1>5, <1>6 DEF Number

\* Every variable has its type, and each call a label map and an environment, like each
\* catch block that names its error, however a statement in them ended.
THEOREM TypeCorrect == Spec => []TypeOK
<1>1. IInv => TypeOK
  <2> SUFFICES ASSUME IInv PROVE TypeOK
    OBVIOUS
  <2>1. /\ loopDepth \in Nat /\ Len(labels) \in Nat \ {0} /\ Len(envs) \in Nat \ {0}
    BY Sizes
  <2>2. /\ Len(labels) = 1 + Cardinality(Frames({"call"}))
        /\ Len(envs) = 1 + Cardinality(Frames({"call"}))
                       + Cardinality({k \in Frames({"catch"}) : stack[k].named})
    <3> DEFINE c == Cardinality(Frames({"call"}))
               n == Cardinality({k \in Frames({"catch"}) : stack[k].named})
    <3>1. c = Len(labels) - 1 /\ n = Len(envs) - Len(labels)
      BY FramesNumber
    <3> HIDE DEF c, n
    <3>2. Len(labels) = 1 + c /\ Len(envs) = 1 + c + n
      BY <2>1, <3>1
    <3> QED
      BY <3>2 DEF c, n
  <2>3. \A e \in DOMAIN envs : envs[e].parent \in 0..(e - 1) /\ envs[e].bind \in Binds
    <3>1. EnvsOK(envs) /\ DOMAIN envs = 1..Len(envs)
      BY DEF IInv, TypeInv, EnvsOK
    <3> QED
      BY <3>1, EnvTypes
  <2> QED
    BY <2>1, <2>2, <2>3 DEF IInv, TypeInv, TypeOK
<1> QED
  BY <1>1, Invariance, PTL

\* loop_depth is the number of loops in progress, however the others were left
\* (interpreter.c:3929-4163).
THEOREM DepthExact == Spec => []LoopDepthExact
<1>1. IInv => LoopDepthExact
  BY FramesNumber DEF LoopDepthExact
<1> QED
  BY <1>1, Invariance, PTL

\* What runs on a loop's frame while there is a result: the loop.
LEMMA LoopActs ==
  ASSUME Next, stack # <<>>
  PROVE  /\ At("while") /\ ret.status = "break" => WhileResult
         /\ At("for") /\ ret.status = "break" => ForResult
         /\ At("for") => ForTest \/ ForResult
<1>1. ret.status = "break" => ret # Running
  BY Results
<1>2. CASE EndList \/ ListResult
  BY <1>2 DEF EndList, ListResult, At
<1>3. CASE ExecExpr \/ ExecAssign \/ ExecBreak \/ ExecContinue \/ ExecReturn \/ ExecPoint
           \/ ExecGoto \/ ExecIf \/ ExecCall \/ ExecTry \/ ExecWhile \/ ExecFor
  <2>1. At("list")
    BY <1>3 DEF ExecExpr, ExecAssign, ExecBreak, ExecContinue, ExecReturn, ExecPoint,
       ExecGoto, ExecIf, ExecCall, ExecTry, ExecWhile, ExecFor, Execute
  <2> QED
    BY <2>1 DEF At
<1>4. CASE CallResult \/ TryResult \/ CatchResult
  BY <1>4 DEF CallResult, TryResult, CatchResult, At
<1>5. CASE WhileTest \/ WhileResult
  <2>1. At("while") /\ (WhileTest => ret = Running)
    BY <1>5 DEF WhileTest, WhileResult
  <2> QED
    BY <1>1, <1>5, <2>1 DEF At
<1>6. CASE ForTest \/ ForResult
  <2>1. At("for") /\ (ForTest => ret = Running)
    BY <1>6 DEF ForTest, ForResult
  <2> QED
    BY <1>1, <1>6, <2>1 DEF At
<1> QED
  BY <1>2, <1>3, <1>4, <1>5, <1>6 DEF Next

\* A break ends as many loops as it asks for, through every list, conditional, try and
\* catch block between them (interpreter.c:3718-3752, 3967-3978).
THEOREM BreakCount == Spec => BreakExact
<1>1. IInv /\ [Next]_vars =>
        [(At("while") \/ At("for")) /\ ret.status = "break" =>
           (ret'.status = "break" <=> loopDepth' > aim)]_vars
  <2> SUFFICES ASSUME IInv, Next, At("while") \/ At("for"), ret.status = "break"
               PROVE  ret'.status = "break" <=> loopDepth' > aim
    OBVIOUS
  <2>1. WhileResult \/ ForResult
    BY LoopActs DEF At
  <2>2. Ends(ret)
    BY DEF Ends
  <2>3. ret' = Onward(ret) /\ loopDepth' = loopDepth - 1
    BY <2>1, <2>2 DEF WhileResult, ForResult, Return
  <2>4. ret.n \in Nat /\ loopDepth \in Nat /\ aim = loopDepth - ret.n
    BY Sizes DEF IInv, TypeInv, BreakInv
  <2>5. ret'.status = "break" <=> ret.n > 1
    BY <2>3, OnwardFacts
  <2>6. loopDepth' > aim <=> ret.n > 1
    BY <2>3, <2>4
  <2> QED
    BY <2>5, <2>6
<1> QED
  BY <1>1, Invariance, PTL DEF Spec, BreakExact

\* Whichever way a for loop is left, the name of its counter reads what it read before,
\* unless it is bound further out as well (interpreter.c:4113-4163).
THEOREM CounterBack == Spec => CounterRestored
<1>1. IInv /\ [Next]_vars =>
        [Leaves("for") /\ Top.outer = "none" => ReadNext(Top.env) = Top.saw]_vars
  <2> SUFFICES ASSUME IInv, Next, Leaves("for"), Top.outer = "none"
               PROVE  ReadNext(Top.env) = Top.saw
    OBVIOUS
  <2>1. /\ Top \in ForFrames /\ stack # <<>> /\ Top.env \in 1..Len(envs)
        /\ Top.local \in Binds \ {"loop"}
    BY ForTop DEF Leaves
  <2>2. envs' = Restored(Top)
    <3>1. ForTest \/ ForResult
      BY <2>1, LoopActs DEF Leaves
    <3>2. RestoredTwice(Top) = Restored(Top)
      BY DEF RestoredTwice
    <3>3. stack' # stack
      BY <2>1 DEF Leaves, IInv, StackInv, StackOf
    <3>4. CASE ForResult
      BY <3>2, <3>3, <3>4 DEF ForResult
    <3>5. CASE ForTest
      <4> DEFINE f == [Top EXCEPT !.k = Top.k + 1]
                 g == ListFrame(Top.body)
      <4>1. f \in ForFrames /\ Top.body \in Seq(Statements)
        BY <2>1 DEF ForFrames
      <4>2. f \in AnyFrame /\ g \in AnyFrame
        BY <4>1 DEF ListFrame, ListFrames, AnyFrame
      <4>3. Rest \in Seq(AnyFrame) /\ Len(Rest) = Len(stack) - 1 /\ Len(stack) \in Nat
        <5>1. Rest = Shorter(stack) /\ stack \in Seq(AnyFrame)
          BY DEF Rest, Shorter, IInv, StackInv, StackOf
        <5> QED
          BY <2>1, <5>1, ShorterFacts
      <4> HIDE DEF f, g
      <4>4. Len(Append(Append(Rest, f), g)) = Len(stack) + 1
        BY <4>2, <4>3, AppendProperties
      <4>5. ~StartList(Append(Rest, f), Top.body)
        BY <4>3, <4>4 DEF StartList, Leaves, g
      <4>6. ~StartList(Append(Rest, [Top EXCEPT !.k = @ + 1]), Top.body)
        BY <4>5 DEF f
      <4> QED
        BY <3>2, <3>5, <4>6 DEF ForTest
    <3> QED
      BY <3>1, <3>4, <3>5
  <2>3. /\ EnvsOK(envs') /\ Len(envs') = Len(envs)
        /\ envs'[Top.env].bind = IF Top.local = "none" THEN "unset" ELSE Top.local
    BY <2>2, RestoredFacts DEF Leaves
  <2>4. Top.saw = IF Top.local = "none" THEN "unset" ELSE Top.local
    BY <2>1 DEF ForFrames
  <2> DEFINE g == CHOOSE f : f = [k \in 0..Len(envs') |->
                IF k = 0 THEN 0 ELSE IF envs'[k].bind # "none" THEN k ELSE f[envs'[k].parent]]
  <2>5. ReadNext(Top.env) = IF g[Top.env] = 0 THEN "unset"
                            ELSE IF envs'[g[Top.env]].bind = "loop" THEN "count"
                            ELSE envs'[g[Top.env]].bind
    BY DEF ReadNext
  <2> HIDE DEF g
  <2>6. g[Top.env] = Top.env
    <3>1. \A k \in 0..Len(envs') : g[k] = IF k = 0 THEN 0
             ELSE IF envs'[k].bind # "none" THEN k ELSE g[envs'[k].parent]
      BY <2>3, LookupFunction DEF g
    <3>2. Top.env \in 0..Len(envs') /\ Top.env # 0 /\ envs'[Top.env].bind # "none"
      <4>1. Len(envs) \in Nat
        BY Sizes
      <4> QED
        BY <2>1, <2>3, <4>1
    <3> QED
      BY <3>1, <3>2
  <2> QED
    BY <2>1, <2>3, <2>4, <2>5, <2>6
<1> QED
  BY <1>1, Invariance, PTL DEF Spec, CounterRestored

=============================================================================
