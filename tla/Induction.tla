----------------------------- MODULE Induction -----------------------------
(***************************************************************************)
(* Induction over the naturals and along a fold, for one predicate P and   *)
(* one operation Op at a time.  A proof that needs either takes an         *)
(* instance of this module, with its own operators for P and Op.           *)
(***************************************************************************)
EXTENDS Integers, WellFoundedInduction, TLAPS

CONSTANTS
  Op(_, _, _),   \* a step: parameters, accumulator, element
  P(_, _, _)     \* a property: parameters, number of steps, accumulator

Greatest(s) == CHOOSE x \in s : \A y \in s : x >= y

\* The fold of a sequence, with parameters c: FoldLeft of the community modules, with what
\* it is defined by put in.
Fold(c, base, seq) ==
  LET iter[s \in SUBSET DOMAIN seq] ==
        IF s = {} THEN base
        ELSE LET x == Greatest(s) IN Op(c, iter[s \ {x}], seq[x])
  IN  iter[DOMAIN seq]

\* The equation of the function by which FoldLeft is defined.
Equation(c, base, seq, D, f) ==
  f = [s \in SUBSET D |-> IF s = {} THEN base ELSE Op(c, f[s \ {Greatest(s)}], seq[Greatest(s)])]

-----------------------------------------------------------------------------
\* A set of natural numbers that is not empty has a least element.
LEMMA LeastExists ==
  ASSUME NEW S \in SUBSET Nat, S # {}
  PROVE  \E i \in S : \A j \in S : i <= j
<1> DEFINE Less == OpToRel(<, Nat)
<1>1. IsWellFoundedOn(Less, Nat)
  BY NatLessThanWellFounded
<1>2. PICK i \in S : \A j \in S : ~ (<<j, i>> \in Less)
  BY <1>1, WFMin
<1>3. \A j \in S : ~ (j < i)
  BY <1>2 DEF OpToRel
<1> QED
  BY <1>3

\* What holds of 0 and of every successor holds of every natural number.
LEMMA Induct ==
  ASSUME NEW c, NEW s, P(c, 0, s), \A n \in Nat : P(c, n, s) => P(c, n + 1, s)
  PROVE  \A n \in Nat : P(c, n, s)
<1> DEFINE S == {n \in Nat : ~P(c, n, s)}
<1>1. SUFFICES ASSUME S # {} PROVE FALSE
  OBVIOUS
<1>2. PICK n \in S : \A m \in S : n <= m
  BY <1>1, LeastExists
<1>3. n \in Nat /\ n # 0 /\ ~P(c, n, s)
  OBVIOUS
<1>4. n - 1 \in Nat /\ ~(n <= n - 1)
  BY <1>3
<1>5. P(c, n - 1, s)
  BY <1>2, <1>4
<1>6. P(c, (n - 1) + 1, s)
  BY <1>4, <1>5
<1>7. (n - 1) + 1 = n
  BY <1>3
<1> QED
  BY <1>3, <1>6, <1>7

\* The greatest number of a range, and of a set that ends in it.
LEMMA MaxOf ==
  ASSUME NEW k \in Nat, NEW s \in SUBSET (1..k), k \in s
  PROVE  Greatest(s) = k
<1>1. \A x \in s : (\A y \in s : x >= y) <=> x = k
  OBVIOUS
<1> QED
  BY <1>1 DEF Greatest

LEMMA MaxWithin ==
  ASSUME NEW k \in Nat, NEW s \in SUBSET (1..k), s # {}
  PROVE  Greatest(s) \in s
<1> DEFINE above == {k - x : x \in s}
<1>1. above \in SUBSET Nat /\ above # {}
  <2>1. \A x \in s : k - x \in Nat
    OBVIOUS
  <2> QED
    BY <2>1
<1>2. PICK d \in above : \A e \in above : d <= e
  BY <1>1, LeastExists
<1>3. PICK x \in s : d = k - x
  BY <1>2
<1>4. \A y \in s : k - x <= k - y
  BY <1>2, <1>3
<1>5. \A y \in s : x >= y
  BY <1>4
<1> QED
  BY <1>5 DEF Greatest

\* There is such a function, for every number of elements.
LEMMA FoldExists ==
  ASSUME NEW c, NEW base, NEW seq
  PROVE  \A k \in Nat : \E f : Equation(c, base, seq, 1..k, f)
<1> DEFINE S == {k \in Nat : ~ \E f : Equation(c, base, seq, 1..k, f)}
<1>1. SUFFICES ASSUME S # {} PROVE FALSE
  OBVIOUS
<1>2. PICK k \in S : \A m \in S : k <= m
  BY <1>1, LeastExists
<1>3. k \in Nat /\ ~ \E f : Equation(c, base, seq, 1..k, f)
  OBVIOUS
<1>4. CASE k = 0
  <2> DEFINE f == [s \in SUBSET (1..0) |-> base]
  <2>1. \A s \in SUBSET (1..0) : s = {}
    OBVIOUS
  <2>2. f = [s \in SUBSET (1..0) |->
               IF s = {} THEN base ELSE Op(c, f[s \ {Greatest(s)}], seq[Greatest(s)])]
    BY <2>1
  <2>3. Equation(c, base, seq, 1..0, f)
    BY <2>2 DEF Equation
  <2> QED
    BY <1>3, <1>4, <2>3
<1>5. CASE k # 0
  <2>1. k - 1 \in Nat /\ ~(k <= k - 1)
    BY <1>3, <1>5
  <2>2. PICK f : Equation(c, base, seq, 1..(k - 1), f)
    BY <1>2, <2>1
  <2> DEFINE D == 1..(k - 1)
             g == [s \in SUBSET (1..k) |->
                     IF s \in SUBSET D THEN f[s] ELSE Op(c, f[s \ {k}], seq[k])]
  <2>3. ASSUME NEW s \in SUBSET (1..k)
        PROVE  g[s] = IF s = {} THEN base ELSE Op(c, g[s \ {Greatest(s)}], seq[Greatest(s)])
    <3>1. CASE s \in SUBSET D
      <4>1. g[s] = IF s = {} THEN base ELSE Op(c, f[s \ {Greatest(s)}], seq[Greatest(s)])
        BY <2>2, <3>1 DEF Equation
      <4>2. g[s \ {Greatest(s)}] = f[s \ {Greatest(s)}]
        BY <3>1
      <4> QED
        BY <4>1, <4>2
    <3>2. CASE s \notin SUBSET D
      <4>1. k \in s /\ s # {}
        BY <1>3, <3>2
      <4>2. Greatest(s) = k
        BY <1>3, <4>1, MaxOf
      <4>3. s \ {k} \in SUBSET D
        BY <1>3
      <4>4. g[s \ {k}] = f[s \ {k}] /\ g[s] = Op(c, f[s \ {k}], seq[k])
        BY <3>2, <4>3
      <4> QED
        BY <4>1, <4>2, <4>4
    <3> QED
      BY <3>1, <3>2
  <2>4. g = [s \in SUBSET (1..k) |->
               IF s = {} THEN base ELSE Op(c, g[s \ {Greatest(s)}], seq[Greatest(s)])]
    <3>1. g = [s \in SUBSET (1..k) |-> g[s]]
      OBVIOUS
    <3> HIDE DEF g
    <3> QED
      BY <2>3, <3>1
  <2> HIDE DEF g
  <2>5. Equation(c, base, seq, 1..k, g)
    BY <2>4 DEF Equation
  <2> QED
    BY <1>3, <2>5
<1> QED
  BY <1>4, <1>5

\* The accumulators along a sequence of n elements.
Trace(c, base, seq, n, g) ==
  g[0] = base /\ \A k \in 1..n : g[k] = Op(c, g[k - 1], seq[k])

\* The last of them is the fold.
LEMMA FoldTrace ==
  ASSUME NEW c, NEW base, NEW seq, NEW n \in Nat, DOMAIN seq = 1..n
  PROVE  \E g : Trace(c, base, seq, n, g) /\ g[n] = Fold(c, base, seq)
<1> DEFINE f == CHOOSE f : Equation(c, base, seq, 1..n, f)
<1>1. Equation(c, base, seq, 1..n, f)
  BY FoldExists
<1>2. Fold(c, base, seq) = f[1..n]
  BY DEF Fold, Equation
<1> HIDE DEF f
<1>3. f[{}] = base
  BY <1>1 DEF Equation
<1>4. ASSUME NEW k \in 1..n
      PROVE  f[1..k] = Op(c, f[1..(k - 1)], seq[k])
  <2>1. Greatest(1..k) = k
    BY MaxOf
  <2>2. (1..k) \ {k} = 1..(k - 1) /\ 1..k # {} /\ 1..k \in SUBSET (1..n)
    OBVIOUS
  <2> QED
    BY <1>1, <2>1, <2>2 DEF Equation
<1> DEFINE g == [k \in 0..n |-> f[1..k]]
<1>5. g[0] = base
  <2>1. 1..0 = {}
    OBVIOUS
  <2> QED
    BY <1>3, <2>1
<1>6. ASSUME NEW k \in 1..n
      PROVE  g[k] = Op(c, g[k - 1], seq[k])
  <2>1. k \in 0..n /\ k - 1 \in 0..n
    OBVIOUS
  <2> QED
    BY <1>4, <2>1
<1>7. g[n] = f[1..n]
  OBVIOUS
<1> HIDE DEF g
<1> QED
  BY <1>2, <1>5, <1>6, <1>7 DEF Trace

\* What holds at the start and is kept by every step along a sequence holds of its fold.
LEMMA FoldInduct ==
  ASSUME NEW c, NEW base, NEW seq, NEW n \in Nat, DOMAIN seq = 1..n,
         P(c, 0, base),
         \A i \in 1..n : \A s : P(c, i - 1, s) => P(c, i, Op(c, s, seq[i]))
  PROVE  P(c, n, Fold(c, base, seq))
<1>0. PICK g : Trace(c, base, seq, n, g) /\ g[n] = Fold(c, base, seq)
  BY FoldTrace
<1>1. /\ g[0] = base /\ g[n] = Fold(c, base, seq)
      /\ \A k \in 1..n : g[k] = Op(c, g[k - 1], seq[k])
  BY <1>0 DEF Trace
<1> DEFINE S == {k \in 0..n : ~P(c, k, g[k])}
<1>2. S = {}
  <2>1. SUFFICES ASSUME S # {} PROVE FALSE
    OBVIOUS
  <2>2. S \in SUBSET Nat
    OBVIOUS
  <2>3. PICK k \in S : \A m \in S : k <= m
    BY <2>1, <2>2, LeastExists
  <2>4. k \in 0..n /\ ~P(c, k, g[k])
    OBVIOUS
  <2>5. k # 0
    BY <1>1, <2>4
  <2>6. k - 1 \in 0..n /\ ~(k <= k - 1)
    BY <2>4, <2>5
  <2>7. P(c, k - 1, g[k - 1])
    BY <2>3, <2>6
  <2>8. P(c, k, Op(c, g[k - 1], seq[k]))
    BY <2>4, <2>5, <2>7
  <2> QED
    BY <1>1, <2>4, <2>5, <2>8
<1>3. P(c, n, g[n])
  BY <1>2
<1> QED
  BY <1>1, <1>3
=============================================================================
