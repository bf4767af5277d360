--------------------------- MODULE ContainersProofs ---------------------------
(***************************************************************************)
(* Proofs about maps, for every set of keys, every hash and every size.    *)
(* First the table: each operation leaves the chains that building it at   *)
(* once would, and along those chains a key is found exactly where a       *)
(* search through the entries finds it.  Then the heap: every statement,   *)
(* on every path, leaves such a table in every map.                        *)
(***************************************************************************)
EXTENDS Containers, FiniteSetTheorems, SequenceTheorems, WellFoundedInduction, TLAPS

\* Entries in order, with their keys.
IsEntries(items) ==
  \E Value : items \in Seq([key : Key, value : Value])

\* A table as the operations leave it.
IsTable(t) ==
  /\ IsEntries(t.items)
  /\ t.count \in Nat
  /\ WellLinked(t)
  /\ KeysDistinct(t)

-----------------------------------------------------------------------------
\* What is known of a sequence of entries.
LEMMA EntryFacts ==
  ASSUME NEW items, IsEntries(items)
  PROVE  /\ Len(items) \in Nat /\ DOMAIN items = 1..Len(items)
         /\ \A i \in 1..Len(items) : items[i].key \in Key /\ Hash[items[i].key] \in Nat
<1>1. PICK Value : items \in Seq([key : Key, value : Value])
  BY DEF IsEntries
<1> DEFINE R == [key : Key, value : Value]
<1>2. items \in Seq(R)
  BY <1>1
<1>3. \A r \in R : r.key \in Key
  OBVIOUS
<1> HIDE DEF R
<1>4. Len(items) \in Nat /\ DOMAIN items = 1..Len(items)
      /\ \A i \in 1..Len(items) : items[i] \in R
  BY <1>2
<1> QED
  BY <1>3, <1>4, TableAssumption

\* A set of numbers that is not empty has a least element.
LEMMA LeastExists ==
  ASSUME NEW S \in SUBSET Nat, S # {}
  PROVE  \E i \in S : \A j \in S : i <= j
<1> DEFINE Less == OpToRel(<, Nat)
<1>1. IsWellFoundedOn(Less, Nat)
  BY NatLessThanWellFounded
<1>2. PICK i \in S : \A j \in S : ~ (<<j, i>> \in Less)
  BY <1>1, WFMin
<1>3. \A j \in S : ~ (j < i)
  BY <1>2 DEF OpToRel
<1> QED
  BY <1>3

\* A set of numbers with a bound has a greatest element.
LEMMA GreatestExists ==
  ASSUME NEW n \in Nat, NEW S \in SUBSET (0..n), S # {}
  PROVE  \E i \in S : \A j \in S : i >= j
<1> DEFINE D == {n - i : i \in S}
<1>1. D \in SUBSET Nat /\ D # {}
  <2>1. \A i \in S : i \in Nat /\ n - i \in Nat
    OBVIOUS
  <2> QED
    BY <2>1
<1>2. PICK d \in D : \A e \in D : d <= e
  BY <1>1, LeastExists
<1>3. PICK i \in S : d = n - i
  BY <1>2
<1>4. \A j \in S : n - i <= n - j
  BY <1>2, <1>3
<1>5. \A j \in S : i >= j
  BY <1>4
<1> QED
  BY <1>5

\* LatestBefore is the last entry of the bucket before i, or 0.
LEMMA LatestFacts ==
  ASSUME NEW items, NEW b, NEW count, NEW i \in Nat,
         NEW last, last = LatestBefore(items, b, count, i)
  PROVE  \/ /\ last = 0
            /\ \A j \in 1..(i - 1) : Bucket(items[j].key, count) # b
         \/ /\ last \in 1..(i - 1)
            /\ Bucket(items[last].key, count) = b
            /\ \A j \in (last + 1)..(i - 1) : Bucket(items[j].key, count) # b
<1> DEFINE earlier == {j \in 1..(i - 1) : Bucket(items[j].key, count) = b}
<1>1. CASE earlier = {}
  BY <1>1 DEF LatestBefore
<1>2. CASE earlier # {}
  <2>1. earlier \in SUBSET (0..i)
    OBVIOUS
  <2>2. \E m \in earlier : \A j \in earlier : m >= j
    BY <1>2, <2>1, GreatestExists
  <2>3. last = Max(earlier)
    BY <1>2 DEF LatestBefore
  <2>4. last \in earlier /\ \A j \in earlier : last >= j
    BY <2>2, <2>3 DEF Max
  <2> QED
    BY <2>4
<1> QED
  BY <1>1, <1>2

\* A key is in a bucket of the table.
LEMMA BucketFacts ==
  ASSUME NEW k \in Key, NEW count \in Nat \ {0}
  PROVE  Bucket(k, count) \in 0..(count - 1)
<1>1. Hash[k] \in Nat
  BY TableAssumption
<1> QED
  BY <1>1 DEF Bucket

\* A table with buckets.
LEMMA RehashFacts ==
  ASSUME NEW items, IsEntries(items), NEW count \in Nat \ {0}, NEW t, t = Rehash(items, count)
  PROVE  /\ t.items = items /\ t.count = count /\ WellLinked(t)
         /\ t.next = [i \in 1..Len(items) |->
                        LatestBefore(items, Bucket(items[i].key, count), count, i)]
         /\ t.buckets = [b \in 0..(count - 1) |-> LatestBefore(items, b, count, Len(items) + 1)]
BY DEF Rehash, WellLinked

\* The number of buckets a table is given is found, and is not 0.
LEMMA RecommendedFacts ==
  ASSUME NEW entries \in Nat
  PROVE  RecommendedBuckets(entries) \in Nat \ {0}
<1> DEFINE needed == IF entries < SmallMap THEN MinBuckets ELSE 2 * entries
           Doubles(f, n) == f = [i \in 0..n |-> IF i = 0 THEN MinBuckets ELSE 2 * f[i - 1]]
           doubled == CHOOSE f : Doubles(f, needed)
           enough == {i \in 0..needed : doubled[i] >= needed}
<1>1. needed \in Nat /\ MinBuckets \in Nat \ {0}
  BY TableAssumption
<1>2. RecommendedBuckets(entries) = doubled[Min(enough)]
  BY DEF RecommendedBuckets
<1> HIDE DEF needed
<1>3. \E f : Doubles(f, needed)
  <2> DEFINE Undefined == {n \in Nat : ~\E f : Doubles(f, n)}
  <2>1. SUFFICES ASSUME Undefined # {} PROVE FALSE
    BY <1>1
  <2>2. PICK n \in Undefined : \A i \in Undefined : n <= i
    BY <2>1, LeastExists
  <2>3. CASE n = 0
    <3>1. Doubles([i \in 0..0 |-> MinBuckets], 0)
      OBVIOUS
    <3> QED
      BY <2>2, <2>3, <3>1
  <2>4. CASE n # 0
    <3>1. n - 1 \in Nat /\ ~(n <= n - 1)
      BY <2>4
    <3>2. PICK f : Doubles(f, n - 1)
      BY <2>2, <3>1
    <3> DEFINE g == [i \in 0..n |-> IF i = n THEN 2 * f[n - 1] ELSE f[i]]
    <3>3. \A i \in 0..n : g[i] = IF i = 0 THEN MinBuckets ELSE 2 * g[i - 1]
      <4>1. \A i \in 0..(n - 1) : f[i] = IF i = 0 THEN MinBuckets ELSE 2 * f[i - 1]
        BY <3>2
      <4> QED
        BY <2>4, <3>1, <4>1
    <3>4. Doubles(g, n)
      BY <3>3
    <3> QED
      BY <2>2, <3>4
  <2> QED
    BY <2>3, <2>4
<1>4. \A i \in 0..needed : doubled[i] = IF i = 0 THEN MinBuckets ELSE 2 * doubled[i - 1]
  <2>1. Doubles(doubled, needed)
    BY <1>3
  <2> HIDE DEF doubled
  <2> QED
    BY <2>1
<1> HIDE DEF doubled
<1>5. \A i \in 0..needed : doubled[i] \in Nat /\ doubled[i] >= i + 1
  <2> DEFINE Bad == {i \in 0..needed : ~(doubled[i] \in Nat /\ doubled[i] >= i + 1)}
  <2>1. SUFFICES ASSUME Bad # {} PROVE FALSE
    OBVIOUS
  <2>2. Bad \in SUBSET Nat
    BY <1>1
  <2>3. PICK i \in Bad : \A j \in Bad : i <= j
    BY <2>1, <2>2, LeastExists
  <2>4. i # 0
    BY <1>1, <1>4, <2>3
  <2>5. i - 1 \in 0..needed /\ ~(i <= i - 1) /\ i \in Nat
    BY <1>1, <2>3, <2>4
  <2>6. doubled[i - 1] \in Nat /\ doubled[i - 1] >= i
    BY <2>3, <2>5
  <2>7. doubled[i] = 2 * doubled[i - 1]
    BY <1>4, <2>3, <2>4
  <2> QED
    BY <2>3, <2>5, <2>6, <2>7
<1>6. enough \in SUBSET Nat /\ needed \in enough
  BY <1>1, <1>5
<1>7. \E i \in enough : \A j \in enough : i <= j
  BY <1>6, LeastExists
<1>8. Min(enough) \in enough
  BY <1>7 DEF Min
<1> QED
  BY <1>1, <1>2, <1>5, <1>8

-----------------------------------------------------------------------------
(* Lookup. *)

\* A step along the chain of k, of FindIndex.
FollowStep(items, next, k, f) ==
  [i \in 0..Len(items) |-> IF i = 0 \/ items[i].key = k THEN i ELSE f[next[i]]]

\* The recursion along a chain ends: an entry is linked to an earlier one.
LEMMA FollowFunction ==
  ASSUME NEW items, IsEntries(items), NEW next,
         \A i \in 1..Len(items) : next[i] \in 0..(i - 1),
         NEW k
  PROVE  \E f : f = FollowStep(items, next, k, f)
<1> DEFINE Follows(f, n) ==
             f = [i \in 0..n |-> IF i = 0 \/ items[i].key = k THEN i ELSE f[next[i]]]
           Undefined == {n \in 0..Len(items) : ~\E f : Follows(f, n)}
<1>1. Len(items) \in Nat
  BY EntryFacts
<1>2. Undefined = {}
  <2>1. SUFFICES ASSUME Undefined # {} PROVE FALSE
    OBVIOUS
  <2>2. Undefined \in SUBSET Nat
    BY <1>1
  <2>3. PICK n \in Undefined : \A i \in Undefined : n <= i
    BY <2>1, <2>2, LeastExists
  <2>4. CASE n = 0
    <3>1. Follows([i \in 0..0 |-> 0], 0)
      OBVIOUS
    <3> QED
      BY <2>3, <2>4, <3>1
  <2>5. CASE n # 0
    <3>1. n \in 1..Len(items) /\ n - 1 \in 0..Len(items) /\ ~(n <= n - 1)
      BY <1>1, <2>3, <2>5
    <3>2. PICK f : Follows(f, n - 1)
      BY <2>3, <3>1
    <3> DEFINE g == [i \in 0..n |-> IF i # n THEN f[i]
                                    ELSE IF items[n].key = k THEN n ELSE f[next[n]]]
    <3>3. \A i \in 0..n : g[i] = IF i = 0 \/ items[i].key = k THEN i ELSE g[next[i]]
      <4>1. \A i \in 0..(n - 1) :
              f[i] = IF i = 0 \/ items[i].key = k THEN i ELSE f[next[i]]
        BY <3>2
      <4>2. \A i \in 1..n : next[i] \in 0..n /\ next[i] # n
        BY <1>1, <3>1
      <4> QED
        BY <2>5, <3>1, <4>1, <4>2
    <3>4. Follows(g, n)
      BY <3>3
    <3> QED
      BY <2>3, <3>4
  <2> QED
    BY <2>4, <2>5
<1>3. \E f : Follows(f, Len(items))
  BY <1>1, <1>2
<1> QED
  BY <1>3 DEF FollowStep

\* What a chain leads to: an entry with the key, or nothing when no entry up to the
\* place where the chain starts has it.
LEMMA FollowFinds ==
  ASSUME NEW items, IsEntries(items), NEW count \in Nat \ {0}, NEW k \in Key,
         NEW next, next = Rehash(items, count).next,
         NEW follow, follow = FollowStep(items, next, k, follow),
         NEW start \in 0..Len(items),
         start = 0 \/ Bucket(items[start].key, count) = Bucket(k, count)
  PROVE  \/ follow[start] = 0 /\ \A j \in 1..start : items[j].key # k
         \/ follow[start] \in 1..start /\ items[follow[start]].key = k
<1> DEFINE Linked(i) == i = 0 \/ Bucket(items[i].key, count) = Bucket(k, count)
           Found(i) == \/ follow[i] = 0 /\ \A j \in 1..i : items[j].key # k
                       \/ follow[i] \in 1..i /\ items[follow[i]].key = k
           Bad == {i \in 0..Len(items) : Linked(i) /\ ~Found(i)}
<1>1. Len(items) \in Nat
  BY EntryFacts
<1>2. SUFFICES ASSUME Bad # {} PROVE FALSE
  OBVIOUS
<1>3. Bad \in SUBSET Nat
  BY <1>1
<1>4. PICK i \in Bad : \A j \in Bad : i <= j
  BY <1>2, <1>3, LeastExists
<1>5. i # 0 /\ items[i].key # k
  <2>1. i \in 0..Len(items) /\ ~Found(i)
    BY <1>4
  <2>2. follow[i] = IF i = 0 \/ items[i].key = k THEN i ELSE follow[next[i]]
    BY <1>1, <2>1 DEF FollowStep
  <2> QED
    BY <1>1, <2>1, <2>2
<1>6. i \in 1..Len(items) /\ i \in Nat
  BY <1>1, <1>4, <1>5
<1>7. follow[i] = follow[next[i]] /\ follow[0] = 0
  BY <1>1, <1>5, <1>6 DEF FollowStep
<1> DEFINE b == Bucket(k, count)
<1>8. next[i] = LatestBefore(items, b, count, i)
  <2>1. Bucket(items[i].key, count) = b
    BY <1>4, <1>5
  <2>2. next = [j \in 1..Len(items) |->
                  LatestBefore(items, Bucket(items[j].key, count), count, j)]
    BY DEF Rehash
  <2> QED
    BY <1>6, <2>1, <2>2
<1>9. CASE next[i] = 0
  <2>1. \A j \in 1..(i - 1) : Bucket(items[j].key, count) # b
    <3>1. LatestBefore(items, b, count, i) = 0 /\ 0 \notin 1..(i - 1)
      BY <1>8, <1>9
    <3> QED
      BY <1>6, <3>1, LatestFacts
  <2>2. \A j \in 1..i : items[j].key # k
    BY <1>5, <1>6, <2>1
  <2>3. follow[i] = 0
    BY <1>1, <1>7, <1>9
  <2> QED
    BY <1>4, <2>2, <2>3
<1>10. CASE next[i] # 0
  <2>1. /\ next[i] \in 1..(i - 1)
        /\ Bucket(items[next[i]].key, count) = b
        /\ \A j \in (next[i] + 1)..(i - 1) : Bucket(items[j].key, count) # b
    BY <1>6, <1>8, <1>10, LatestFacts
  <2>2. next[i] \in 0..Len(items) /\ Linked(next[i]) /\ ~(i <= next[i])
    BY <1>1, <1>6, <2>1
  <2>3. Found(next[i])
    BY <1>4, <2>2
  <2>4. CASE follow[next[i]] = 0 /\ \A j \in 1..next[i] : items[j].key # k
    <3>1. ASSUME NEW j \in 1..i PROVE items[j].key # k
      <4>1. j \in 1..next[i] \/ j \in (next[i] + 1)..(i - 1) \/ j = i
        BY <1>6, <2>1
      <4> QED
        BY <1>5, <2>1, <2>4, <4>1
    <3> QED
      BY <1>4, <1>7, <2>4, <3>1
  <2>5. CASE follow[next[i]] \in 1..next[i] /\ items[follow[next[i]]].key = k
    <3>1. follow[i] \in 1..i
      BY <1>6, <1>7, <2>1, <2>5
    <3> QED
      BY <1>4, <1>7, <2>5, <3>1
  <2> QED
    BY <2>3, <2>4, <2>5
<1> QED
  BY <1>9, <1>10

\* Looking a key up along the chains of its bucket finds the entry that has it, which a
\* search through all the entries finds, for any keys, hashes and numbers of buckets.
THEOREM LookupFinds ==
  ASSUME NEW t, IsTable(t), NEW k \in Key
  PROVE  /\ FindIndex(t, k) = Position(t, k)
         /\ FindIndex(t, k) = 0 => \A i \in 1..Len(t.items) : t.items[i].key # k
         /\ FindIndex(t, k) # 0 => /\ FindIndex(t, k) \in 1..Len(t.items)
                                   /\ t.items[FindIndex(t, k)].key = k
<1> DEFINE items == t.items
           at == {i \in 1..Len(items) : items[i].key = k}
<1>1. IsEntries(items) /\ Len(items) \in Nat /\ DOMAIN items = 1..Len(items)
  BY EntryFacts DEF IsTable
<1>2. SUFFICES /\ FindIndex(t, k) = 0 => \A i \in 1..Len(items) : items[i].key # k
               /\ FindIndex(t, k) # 0 => /\ FindIndex(t, k) \in 1..Len(items)
                                         /\ items[FindIndex(t, k)].key = k
  <2>1. CASE FindIndex(t, k) = 0
    <3>1. at = {}
      BY <1>2, <2>1
    <3> QED
      BY <1>2, <2>1, <3>1 DEF Position
  <2>2. CASE FindIndex(t, k) # 0
    <3>1. FindIndex(t, k) \in at
      BY <1>2, <2>2
    <3>2. \A i \in at : i = FindIndex(t, k)
      BY <1>2, <3>1 DEF IsTable, KeysDistinct
    <3>3. \A i \in at : FindIndex(t, k) <= i
      BY <1>1, <3>1, <3>2
    <3>4. Min(at) \in at
      BY <3>1, <3>3 DEF Min
    <3> QED
      BY <1>2, <2>2, <3>1, <3>2, <3>4 DEF Position
  <2> QED
    BY <2>1, <2>2
<1>3. CASE items = <<>>
  <2>1. FindIndex(t, k) = 0 /\ Len(items) = 0
    BY <1>3 DEF FindIndex
  <2> QED
    BY <2>1
<1>4. CASE items # <<>>
  <2> DEFINE count == t.count
             next == t.next
             follow == CHOOSE f : f = [i \in 0..Len(items) |->
                         IF i = 0 \/ items[i].key = k THEN i ELSE f[next[i]]]
             start == t.buckets[Bucket(k, count)]
  <2>1. count \in Nat \ {0} /\ t = Rehash(items, count)
    <3>1. count = 0 => t = NewTable
      BY DEF IsTable, WellLinked
    <3>2. NewTable.items = <<>>
      BY DEF NewTable
    <3> QED
      BY <1>4, <3>1, <3>2 DEF IsTable, WellLinked
  <2>2. FindIndex(t, k) = follow[start]
    BY <1>4 DEF FindIndex
  <2>3. /\ next = [i \in 1..Len(items) |->
                     LatestBefore(items, Bucket(items[i].key, count), count, i)]
        /\ next = Rehash(items, count).next
    BY <2>1 DEF Rehash
  <2>4. start = LatestBefore(items, Bucket(k, count), count, Len(items) + 1)
    <3>1. Bucket(k, count) \in 0..(count - 1)
      BY <2>1, BucketFacts
    <3>2. t.buckets = [b \in 0..(count - 1) |-> LatestBefore(items, b, count, Len(items) + 1)]
      BY <2>1 DEF Rehash
    <3> QED
      BY <3>1, <3>2
  <2>5. follow = FollowStep(items, next, k, follow)
    <3>1. follow = CHOOSE f : f = FollowStep(items, next, k, f)
      BY DEF FollowStep
    <3> HIDE DEF items, next, follow
    <3>2. ASSUME NEW i \in 1..Len(items) PROVE next[i] \in 0..(i - 1)
      <4>1. next[i] = LatestBefore(items, Bucket(items[i].key, count), count, i) /\ i \in Nat
        BY <1>1, <2>3
      <4> QED
        BY <4>1, LatestFacts
    <3> QED
      <4>1. \E f : f = FollowStep(items, next, k, f)
        BY <1>1, <3>2, FollowFunction
      <4> QED
        BY <3>1, <4>1
  <2> HIDE DEF follow
  <2>6. \/ start = 0 /\ \A j \in 1..Len(items) : Bucket(items[j].key, count) # Bucket(k, count)
        \/ /\ start \in 1..Len(items) /\ Bucket(items[start].key, count) = Bucket(k, count)
           /\ \A j \in (start + 1)..Len(items) : Bucket(items[j].key, count) # Bucket(k, count)
    BY <1>1, <2>4, LatestFacts
  <2>7. start \in 0..Len(items)
        /\ (start = 0 \/ Bucket(items[start].key, count) = Bucket(k, count))
    BY <1>1, <2>6
  <2> HIDE DEF items, next, start, count
  <2>8. \/ follow[start] = 0 /\ \A j \in 1..start : items[j].key # k
        \/ follow[start] \in 1..start /\ items[follow[start]].key = k
    <3>1. IsEntries(items) /\ count \in Nat \ {0}
      BY <1>1, <2>1
    <3>2. next = Rehash(items, count).next
      BY <2>3
    <3> QED
      BY <2>5, <2>7, <3>1, <3>2, FollowFinds
  <2>9. CASE follow[start] = 0 /\ \A j \in 1..start : items[j].key # k
    <3>1. ASSUME NEW j \in 1..Len(items) PROVE items[j].key # k
      <4>1. j \in 1..start \/ (start # 0 /\ j \in (start + 1)..Len(items)) \/ start = 0
        BY <1>1, <2>7
      <4> QED
        BY <2>6, <2>9, <4>1
    <3> QED
      BY <2>2, <2>9, <3>1
  <2>10. CASE follow[start] \in 1..start /\ items[follow[start]].key = k
    BY <1>1, <2>2, <2>7, <2>10
  <2> QED
    BY <2>8, <2>9, <2>10
<1> QED
  BY <1>3, <1>4

-----------------------------------------------------------------------------
(* The operations. *)

\* Entries with the same keys are linked in the same way.
LEMMA LatestSame ==
  ASSUME NEW items, NEW others, NEW b, NEW count, NEW i \in Nat,
         \A j \in 1..(i - 1) : items[j].key = others[j].key
  PROVE  LatestBefore(items, b, count, i) = LatestBefore(others, b, count, i)
<1>1. {j \in 1..(i - 1) : Bucket(items[j].key, count) = b}
        = {j \in 1..(i - 1) : Bucket(others[j].key, count) = b}
  OBVIOUS
<1> QED
  BY <1>1 DEF LatestBefore

\* The entry before i is the last of its bucket.
LEMMA LatestNext ==
  ASSUME NEW items, NEW b, NEW count, NEW n \in Nat, n >= 1
  PROVE  LatestBefore(items, b, count, n + 1) =
           IF Bucket(items[n].key, count) = b THEN n ELSE LatestBefore(items, b, count, n)
<1> DEFINE before(i) == {j \in 1..(i - 1) : Bucket(items[j].key, count) = b}
<1>1. CASE Bucket(items[n].key, count) = b
  <2>1. n \in before(n + 1) /\ \A j \in before(n + 1) : n >= j
    BY <1>1
  <2>2. \A m \in before(n + 1) : (\A j \in before(n + 1) : m >= j) => m = n
    <3>1. \A m \in before(n + 1) : m \in Nat /\ m <= n
      OBVIOUS
    <3> QED
      BY <2>1, <3>1
  <2>3. Max(before(n + 1)) = n
    BY <2>1, <2>2 DEF Max
  <2> QED
    BY <1>1, <2>1, <2>3 DEF LatestBefore
<1>2. CASE Bucket(items[n].key, count) # b
  <2>1. before(n + 1) = before(n)
    BY <1>2
  <2> QED
    BY <1>2, <2>1 DEF LatestBefore
<1> QED
  BY <1>1, <1>2

\* The entries with one more.
LEMMA Appended ==
  ASSUME NEW items, IsEntries(items), NEW k \in Key, NEW v, NEW more,
         more = Append(items, [key |-> k, value |-> v])
  PROVE  /\ IsEntries(more)
         /\ Len(more) = Len(items) + 1
         /\ more[Len(items) + 1].key = k /\ more[Len(items) + 1].value = v
         /\ \A i \in 1..Len(items) : more[i] = items[i]
<1> DEFINE e == [key |-> k, value |-> v]
<1>1. PICK Value : items \in Seq([key : Key, value : Value])
  BY DEF IsEntries
<1> DEFINE R == [key : Key, value : Value \cup {v}]
<1>2. items \in Seq(R)
  <2> DEFINE Q == [key : Key, value : Value]
  <2>1. Q \subseteq R
    OBVIOUS
  <2>2. items \in Seq(Q)
    BY <1>1
  <2> HIDE DEF Q, R
  <2> QED
    BY <2>1, <2>2
<1>3. e \in R /\ e.key = k /\ e.value = v
  OBVIOUS
<1>4. \A q : q \in Seq(R) => IsEntries(q)
  BY DEF IsEntries
<1> HIDE DEF R, e
<1>5. more = Append(items, e)
  BY DEF e
<1>6. more \in Seq(R) /\ Len(more) = Len(items) + 1
  BY <1>2, <1>3, <1>5
<1>7. more[Len(items) + 1] = e /\ \A i \in 1..Len(items) : more[i] = items[i]
  BY <1>2, <1>3, <1>5
<1> QED
  BY <1>3, <1>4, <1>6, <1>7

\* The keys are distinct when a new one is put behind them.
LEMMA AppendedDistinct ==
  ASSUME NEW t, IsTable(t), NEW k \in Key, ~Has(t, k), NEW v, NEW u,
         u.items = Append(t.items, [key |-> k, value |-> v])
  PROVE  KeysDistinct(u)
<1>1. \A i \in 1..Len(t.items) : t.items[i].key # k
  BY LookupFinds DEF Has
<1>2. IsEntries(t.items) /\ KeysDistinct(t)
  BY DEF IsTable
<1>3. Len(t.items) \in Nat
  BY <1>2, EntryFacts
<1>4. /\ Len(u.items) = Len(t.items) + 1 /\ u.items[Len(t.items) + 1].key = k
      /\ \A i \in 1..Len(t.items) : u.items[i] = t.items[i]
  BY <1>2, Appended
<1>5. \A i \in 1..Len(u.items) : i \in 1..Len(t.items) \/ i = Len(t.items) + 1
  BY <1>3, <1>4
<1> QED
  BY <1>1, <1>2, <1>4, <1>5 DEF KeysDistinct

\* A table built from entries with distinct keys.
LEMMA Built ==
  ASSUME NEW items, IsEntries(items), NEW count \in Nat \ {0}, NEW t, t = Rehash(items, count),
         KeysDistinct(t)
  PROVE  IsTable(t) /\ t.items = items
<1>1. t.items = items /\ t.count = count
  BY DEF Rehash
<1>2. WellLinked(t)
  BY <1>1 DEF WellLinked
<1> QED
  BY <1>1, <1>2 DEF IsTable

\* A new entry put in front of its bucket leaves the chains that building the table
\* would: the entries before it keep their links.
LEMMA LinkedInFront ==
  ASSUME NEW items, NEW n \in Nat, Len(items) = n, NEW more, Len(more) = n + 1,
         \A i \in 1..n : more[i] = items[i],
         NEW count \in Nat \ {0}, NEW k \in Key, more[n + 1].key = k,
         NEW t, t = Rehash(items, count), NEW b, b = Bucket(k, count)
  PROVE  [items |-> more, next |-> Append(t.next, t.buckets[b]),
          buckets |-> [t.buckets EXCEPT ![b] = Len(more)], count |-> count]
           = Rehash(more, count)
<1> DEFINE next == [i \in 1..n |-> LatestBefore(items, Bucket(items[i].key, count), count, i)]
           buckets == [c \in 0..(count - 1) |-> LatestBefore(items, c, count, n + 1)]
           after == [i \in 1..(n + 1) |->
                       LatestBefore(more, Bucket(more[i].key, count), count, i)]
<1>1. \A i \in 1..n : more[i].key = items[i].key
  OBVIOUS
<1>2. b \in 0..(count - 1)
  BY BucketFacts
<1>3. ASSUME NEW c, NEW i \in 1..(n + 1)
      PROVE  LatestBefore(more, c, count, i) = LatestBefore(items, c, count, i)
  <2>1. i \in Nat /\ 1..(i - 1) \subseteq 1..n
    OBVIOUS
  <2>2. \A j \in 1..(i - 1) : more[j].key = items[j].key
    BY <1>1, <2>1
  <2> QED
    BY <2>1, <2>2, LatestSame
<1>4. Append(next, buckets[b]) = after
  <2>1. next \in Seq(Nat)
    <3>1. \A i \in 1..n : LatestBefore(items, Bucket(items[i].key, count), count, i) \in Nat
      <4> TAKE i \in 1..n
      <4>1. i \in Nat
        BY <1>1
      <4> QED
        BY <4>1, LatestFacts
    <3> QED
      BY <1>1, <3>1
  <2>2. Len(next) = n
    BY <1>1
  <2>3. buckets[b] \in Nat
    <3>1. LatestBefore(items, b, count, n + 1) \in Nat
      BY <1>1, LatestFacts
    <3> QED
      BY <1>2, <3>1
  <2>4. \A i \in 1..n : after[i] = next[i]
    BY <1>1, <1>3
  <2>5. after[n + 1] = buckets[b]
    <3>1. after[n + 1] = LatestBefore(more, b, count, n + 1)
      BY <1>1
    <3> QED
      BY <1>1, <1>2, <1>3, <3>1
  <2> HIDE DEF next, buckets
  <2>6. Append(next, buckets[b]) =
          [i \in 1..(n + 1) |-> IF i <= n THEN next[i] ELSE buckets[b]]
    BY <1>1, <2>1, <2>2, <2>3
  <2>7. after = [i \in 1..(n + 1) |-> IF i <= n THEN next[i] ELSE buckets[b]]
    <3>1. ASSUME NEW i \in 1..(n + 1)
          PROVE  after[i] = IF i <= n THEN next[i] ELSE buckets[b]
      <4> HIDE DEF after
      <4>1. CASE i = n + 1
        BY <2>5, <4>1
      <4>2. CASE i # n + 1
        <5>1. i \in 1..n /\ i <= n
          BY <4>2
        <5> QED
          BY <2>4, <5>1
      <4> QED
        BY <4>1, <4>2
    <3> QED
      BY <3>1
  <2> QED
    BY <2>6, <2>7
<1>5. [buckets EXCEPT ![b] = Len(more)]
        = [c \in 0..(count - 1) |-> LatestBefore(more, c, count, Len(more) + 1)]
  <2>1. ASSUME NEW c \in 0..(count - 1)
        PROVE  [buckets EXCEPT ![b] = Len(more)][c]
                 = LatestBefore(more, c, count, Len(more) + 1)
    <3>1. LatestBefore(more, c, count, (n + 1) + 1) =
            IF Bucket(more[n + 1].key, count) = c THEN n + 1
            ELSE LatestBefore(more, c, count, n + 1)
      <4>1. n + 1 \in Nat /\ n + 1 >= 1
        BY <1>1
      <4> QED
        BY <4>1, LatestNext
    <3>2. LatestBefore(more, c, count, n + 1) = LatestBefore(items, c, count, n + 1)
      BY <1>1, <1>3
    <3> QED
      BY <1>1, <3>1, <3>2
  <2> QED
    BY <2>1
<1>6. t.next = next /\ t.buckets = buckets
  BY DEF Rehash
<1>7. Rehash(more, count) =
        [items |-> more, next |-> after,
         buckets |-> [c \in 0..(count - 1) |-> LatestBefore(more, c, count, Len(more) + 1)],
         count |-> count]
  BY <1>1 DEF Rehash
<1> HIDE DEF next, buckets, after
<1> QED
  BY <1>4, <1>5, <1>6, <1>7

\* The values of entries have no part in the chains.
LEMMA SameKeys ==
  ASSUME NEW items, NEW others, Len(others) = Len(items), Len(items) \in Nat,
         \A i \in 1..Len(items) : others[i].key = items[i].key, NEW count \in Nat \ {0}
  PROVE  /\ Rehash(others, count).next = Rehash(items, count).next
         /\ Rehash(others, count).buckets = Rehash(items, count).buckets
<1> DEFINE n == Len(items)
<1>1. ASSUME NEW b, NEW i \in 1..(n + 1)
      PROVE  LatestBefore(others, b, count, i) = LatestBefore(items, b, count, i)
  <2>1. i \in Nat /\ 1..(i - 1) \subseteq 1..n
    OBVIOUS
  <2>2. \A j \in 1..(i - 1) : others[j].key = items[j].key
    BY <2>1
  <2> QED
    BY <2>1, <2>2, LatestSame
<1>2. \A i \in 1..n : LatestBefore(others, Bucket(others[i].key, count), count, i)
                      = LatestBefore(items, Bucket(items[i].key, count), count, i)
  <2> TAKE i \in 1..n
  <2>1. i \in 1..(n + 1) /\ others[i].key = items[i].key
    OBVIOUS
  <2> QED
    BY <1>1, <2>1
<1>3. \A b : LatestBefore(others, b, count, n + 1) = LatestBefore(items, b, count, n + 1)
  BY <1>1
<1> QED
  BY <1>2, <1>3 DEF Rehash

\* Values are read from the entry of the key.
LEMMA GetFacts ==
  ASSUME NEW t, IsTable(t)
  PROVE  /\ \A k \in Key : Has(t, k) => \E i \in 1..Len(t.items) :
                             t.items[i].key = k /\ Get(t, k) = t.items[i].value
         /\ \A i \in 1..Len(t.items) : /\ t.items[i].key \in Key
                                       /\ Has(t, t.items[i].key)
                                       /\ Get(t, t.items[i].key) = t.items[i].value
<1>1. ASSUME NEW k \in Key, Has(t, k)
      PROVE  \E i \in 1..Len(t.items) : t.items[i].key = k /\ Get(t, k) = t.items[i].value
  BY <1>1, LookupFinds DEF Has, Get
<1>2. ASSUME NEW i \in 1..Len(t.items)
      PROVE  /\ t.items[i].key \in Key
             /\ Has(t, t.items[i].key)
             /\ Get(t, t.items[i].key) = t.items[i].value
  <2>1. t.items[i].key \in Key
    BY EntryFacts DEF IsTable
  <2>2. FindIndex(t, t.items[i].key) # 0
    BY <2>1, LookupFinds
  <2>3. /\ FindIndex(t, t.items[i].key) \in 1..Len(t.items)
        /\ t.items[FindIndex(t, t.items[i].key)].key = t.items[i].key
    BY <2>1, <2>2, LookupFinds
  <2>4. FindIndex(t, t.items[i].key) = i
    BY <2>3 DEF IsTable, KeysDistinct
  <2> QED
    BY <2>1, <2>2, <2>4 DEF Has, Get
<1> QED
  BY <1>1, <1>2

\* A key that is new to a table, behind the others: the table is built when it has no
\* buckets, built again when it gets too full, and linked in front otherwise.
LEMMA AppendKeeps ==
  ASSUME NEW t, IsTable(t), NEW k \in Key, ~Has(t, k), NEW v, NEW u, u = AppendEntry(t, k, v)
  PROVE  IsTable(u) /\ u.items = Append(t.items, [key |-> k, value |-> v])
<1> DEFINE items == t.items
           more == Append(items, [key |-> k, value |-> v])
           b == Bucket(k, t.count)
<1>1. IsEntries(items) /\ Len(items) \in Nat
  BY EntryFacts DEF IsTable
<1>2. IsEntries(more) /\ Len(more) \in Nat
  <2>1. IsEntries(more)
    BY <1>1, Appended
  <2> QED
    BY <2>1, EntryFacts
<1>3. ASSUME NEW count \in Nat \ {0}, u = Rehash(more, count)
      PROVE  IsTable(u) /\ u.items = more
  <2>1. u.items = more
    BY <1>3 DEF Rehash
  <2>2. KeysDistinct(u)
    BY <2>1, AppendedDistinct
  <2> QED
    BY <1>2, <1>3, <2>2, Built
<1>4. CASE t.count = 0
  <2>1. u = Rehash(more, RecommendedBuckets(Len(more)))
    BY <1>4 DEF AppendEntry
  <2> QED
    BY <1>2, <1>3, <2>1, RecommendedFacts
<1>5. CASE t.count # 0
  <2>1. t.count \in Nat \ {0} /\ t = Rehash(items, t.count)
    BY <1>5 DEF IsTable, WellLinked
  <2>2. CASE Len(more) * 4 > t.count * 3
    <3>1. u = Rehash(more, 2 * t.count)
      BY <1>5, <2>2 DEF AppendEntry
    <3>2. 2 * t.count \in Nat \ {0}
      BY <2>1
    <3> QED
      BY <1>3, <3>1, <3>2
  <2>3. CASE ~(Len(more) * 4 > t.count * 3)
    <3>1. u = [items |-> more, next |-> Append(t.next, t.buckets[b]),
               buckets |-> [t.buckets EXCEPT ![b] = Len(more)], count |-> t.count]
      BY <1>5, <2>3 DEF AppendEntry
    <3>2. u = Rehash(more, t.count)
      <4> DEFINE n == Len(items)
                 count == t.count
      <4>1. n \in Nat /\ Len(items) = n /\ Len(more) = n + 1 /\ more[n + 1].key = k
        BY <1>1, <1>2, Appended
      <4>2. \A i \in 1..n : more[i] = items[i]
        BY <1>1, Appended
      <4>3. count \in Nat \ {0} /\ t = Rehash(items, count) /\ b = Bucket(k, count)
        BY <2>1
      <4>4. u = [items |-> more, next |-> Append(t.next, t.buckets[b]),
                 buckets |-> [t.buckets EXCEPT ![b] = Len(more)], count |-> count]
        BY <3>1
      <4> HIDE DEF items, more, n, count, b
      <4>5. [items |-> more, next |-> Append(t.next, t.buckets[b]),
             buckets |-> [t.buckets EXCEPT ![b] = Len(more)], count |-> count]
              = Rehash(more, count)
        BY <4>1, <4>2, <4>3, LinkedInFront
      <4> QED
        BY <4>4, <4>5 DEF items, more, count, b
    <3> QED
      BY <1>3, <2>1, <3>2
  <2> QED
    BY <2>2, <2>3
<1> QED
  BY <1>4, <1>5

\* A new value for an entry leaves the chains.
LEMMA ValueKeeps ==
  ASSUME NEW t, IsTable(t), NEW i \in 1..Len(t.items), NEW v, NEW u, u = SetValue(t, i, v)
  PROVE  /\ IsTable(u) /\ Len(u.items) = Len(t.items)
         /\ u.items[i].key = t.items[i].key /\ u.items[i].value = v
         /\ \A j \in 1..Len(t.items) : j # i => u.items[j] = t.items[j]
<1> DEFINE items == t.items
           changed == [items EXCEPT ![i] = [items[i] EXCEPT !.value = v]]
<1>1. PICK Value : items \in Seq([key : Key, value : Value])
  BY DEF IsTable, IsEntries
<1> DEFINE R == [key : Key, value : Value \cup {v}]
<1>2. items \in Seq(R)
  <2> DEFINE Q == [key : Key, value : Value]
  <2>1. Q \subseteq R
    OBVIOUS
  <2>2. items \in Seq(Q)
    BY <1>1
  <2> HIDE DEF Q, R
  <2> QED
    BY <2>1, <2>2
<1>3. Len(items) \in Nat /\ DOMAIN items = 1..Len(items) /\ items[i] \in R
  <2>1. i \in 1..Len(items)
    OBVIOUS
  <2> HIDE DEF R, items
  <2> QED
    BY <1>2, <2>1
<1>4. /\ [items[i] EXCEPT !.value = v] \in R
      /\ [items[i] EXCEPT !.value = v].key = items[i].key
      /\ [items[i] EXCEPT !.value = v].value = v
  BY <1>3
<1>5. \A q : q \in Seq(R) => IsEntries(q)
  BY DEF IsEntries
<1> HIDE DEF R
<1>6. changed \in Seq(R) /\ Len(changed) = Len(items)
  BY <1>2, <1>3, <1>4
<1>7. /\ changed[i].key = items[i].key /\ changed[i].value = v
      /\ \A j \in 1..Len(items) : j # i => changed[j] = items[j]
  BY <1>3, <1>4
<1>8. t.count \in Nat \ {0} /\ t = Rehash(items, t.count)
  <2>1. t.count = 0 => Len(items) = 0
    BY DEF IsTable, WellLinked, NewTable
  <2> QED
    BY <1>3, <2>1 DEF IsTable, WellLinked
<1> HIDE DEF changed
<1>9. u = [items |-> changed, next |-> t.next, buckets |-> t.buckets, count |-> t.count]
  <2>1. t = [items |-> items, next |-> t.next, buckets |-> t.buckets, count |-> t.count]
    BY <1>8 DEF Rehash
  <2>2. u = [t EXCEPT !.items = changed]
    BY DEF SetValue, changed
  <2> QED
    BY <2>1, <2>2
<1>10. \A j \in 1..Len(items) : changed[j].key = items[j].key
  BY <1>7
<1>11. u = Rehash(changed, t.count)
  <2>1. /\ Rehash(changed, t.count).next = Rehash(items, t.count).next
        /\ Rehash(changed, t.count).buckets = Rehash(items, t.count).buckets
    <3> DEFINE count == t.count
    <3>1. count \in Nat \ {0} /\ Len(items) \in Nat /\ Len(changed) = Len(items)
      BY <1>3, <1>6, <1>8
    <3> HIDE DEF items, count
    <3>2. /\ Rehash(changed, count).next = Rehash(items, count).next
          /\ Rehash(changed, count).buckets = Rehash(items, count).buckets
      BY <1>10, <3>1, SameKeys
    <3> QED
      BY <3>2 DEF items, count
  <2>2. Rehash(changed, t.count).next = t.next /\ Rehash(changed, t.count).buckets = t.buckets
    BY <1>8, <2>1
  <2>3. Rehash(changed, t.count) =
          [items |-> changed, next |-> Rehash(changed, t.count).next,
           buckets |-> Rehash(changed, t.count).buckets, count |-> t.count]
    BY DEF Rehash
  <2> QED
    BY <1>9, <2>2, <2>3
<1>12. u.items = changed
  BY <1>9
<1>13. KeysDistinct(u)
  BY <1>6, <1>10, <1>12 DEF KeysDistinct, IsTable
<1>14. IsTable(u)
  BY <1>5, <1>6, <1>8, <1>11, <1>13, Built
<1> QED
  BY <1>6, <1>7, <1>12, <1>14

\* The entries without one of them: those behind it move up.
LEMMA Removed ==
  ASSUME NEW items, IsEntries(items), NEW at \in 1..Len(items), NEW rest,
         rest = RemoveAt(items, at)
  PROVE  /\ IsEntries(rest) /\ Len(rest) = Len(items) - 1
         /\ \A i \in 1..Len(rest) : rest[i] = items[IF i < at THEN i ELSE i + 1]
<1>1. PICK Value : items \in Seq([key : Key, value : Value])
  BY DEF IsEntries
<1> DEFINE R == [key : Key, value : Value]
           before == SubSeq(items, 1, at - 1)
           behind == SubSeq(items, at + 1, Len(items))
<1>2. items \in Seq(R)
  BY <1>1
<1>3. \A q : q \in Seq(R) => IsEntries(q)
  BY DEF IsEntries
<1> HIDE DEF R
<1>4. Len(items) \in Nat /\ at \in Nat /\ at >= 1 /\ at <= Len(items)
  BY <1>2
<1>5. /\ before \in Seq(R) /\ Len(before) = at - 1
      /\ \A i \in 1..(at - 1) : before[i] = items[i]
  BY <1>2, <1>4
<1>6. /\ behind \in Seq(R) /\ Len(behind) = Len(items) - at
      /\ \A i \in 1..(Len(items) - at) : behind[i] = items[i + at]
  BY <1>2, <1>4
<1>7. rest = before \o behind
  BY DEF RemoveAt
<1> HIDE DEF before, behind
<1>8. rest \in Seq(R) /\ Len(rest) = Len(items) - 1
  BY <1>4, <1>5, <1>6, <1>7
<1>9. \A i \in 1..(Len(items) - 1) :
        rest[i] = IF i <= at - 1 THEN before[i] ELSE behind[i - (at - 1)]
  BY <1>4, <1>5, <1>6, <1>7
<1>10. ASSUME NEW i \in 1..(Len(items) - 1)
       PROVE  rest[i] = items[IF i < at THEN i ELSE i + 1]
  <2>1. CASE i < at
    BY <1>4, <1>5, <1>9, <2>1
  <2>2. CASE ~(i < at)
    <3>1. i - (at - 1) \in 1..(Len(items) - at) /\ (i - (at - 1)) + at = i + 1
      BY <1>4, <2>2
    <3>2. rest[i] = behind[i - (at - 1)]
      BY <1>4, <1>9, <2>2
    <3> QED
      BY <1>6, <2>2, <3>1, <3>2
  <2> QED
    BY <2>1, <2>2
<1> QED
  BY <1>3, <1>8, <1>10

\* A table of entries, with the buckets their number asks for.
LEMMA BuiltAnew ==
  ASSUME NEW items, IsEntries(items),
         \A i, j \in 1..Len(items) : items[i].key = items[j].key => i = j,
         NEW t, t = Rehash(items, RecommendedBuckets(Len(items)))
  PROVE  IsTable(t) /\ t.items = items
<1> DEFINE count == RecommendedBuckets(Len(items))
<1>1. count \in Nat \ {0}
  BY EntryFacts, RecommendedFacts
<1>2. t.items = items
  BY DEF Rehash
<1>3. KeysDistinct(t)
  BY <1>2 DEF KeysDistinct
<1> HIDE DEF count
<1>4. t = Rehash(items, count)
  BY DEF count
<1> QED
  BY <1>1, <1>3, <1>4, Built

-----------------------------------------------------------------------------
(* A table is a dictionary. *)

\* value_map_set stores the value under its key and leaves every other key with what it
\* had, through insertion, rehash and replacement, for any keys and hashes; entries keep
\* their places, and a new one comes last.
THEOREM SetStores ==
  ASSUME NEW t, IsTable(t), NEW k \in Key, NEW v, NEW u, u = SetEntry(t, k, v)
  PROVE  /\ IsTable(u)
         /\ Has(u, k) /\ Get(u, k) = v
         /\ \A l \in Key \ {k} : /\ Has(u, l) <=> Has(t, l)
                                 /\ Has(t, l) => Get(u, l) = Get(t, l)
         /\ Len(u.items) = Len(t.items) + (IF Has(t, k) THEN 0 ELSE 1)
         /\ \A i \in 1..Len(t.items) : u.items[i].key = t.items[i].key
<1>1. IsEntries(t.items) /\ Len(t.items) \in Nat
  BY EntryFacts DEF IsTable
<1>2. CASE Has(t, k)
  <2> DEFINE at == FindIndex(t, k)
  <2>1. at \in 1..Len(t.items) /\ t.items[at].key = k
    BY <1>2, LookupFinds DEF Has
  <2>2. u = SetValue(t, at, v)
    BY <1>2 DEF SetEntry
  <2> HIDE DEF at
  <2>3. /\ IsTable(u) /\ Len(u.items) = Len(t.items)
        /\ u.items[at].key = k /\ u.items[at].value = v
    BY <2>1, <2>2, ValueKeeps
  <2>4. \A j \in 1..Len(t.items) : j # at => u.items[j] = t.items[j]
    BY <2>1, <2>2, ValueKeeps
  <2>5. Has(u, k) /\ Get(u, k) = v
    BY <2>1, <2>3, GetFacts
  <2>6. ASSUME NEW l \in Key \ {k}, Has(t, l)
        PROVE  Has(u, l) /\ Get(u, l) = Get(t, l)
    <3>1. PICK i \in 1..Len(t.items) : t.items[i].key = l /\ Get(t, l) = t.items[i].value
      BY <2>6, GetFacts
    <3>2. u.items[i] = t.items[i]
      BY <2>1, <2>4, <3>1
    <3> QED
      BY <2>3, <3>1, <3>2, GetFacts
  <2>7. ASSUME NEW l \in Key \ {k}, Has(u, l)
        PROVE  Has(t, l)
    <3>1. PICK i \in 1..Len(u.items) : u.items[i].key = l
      BY <2>3, <2>7, GetFacts
    <3>2. t.items[i].key = l /\ i \in 1..Len(t.items)
      BY <2>3, <2>4, <3>1
    <3> QED
      BY <3>2, GetFacts
  <2>8. /\ Len(u.items) = Len(t.items) + (IF Has(t, k) THEN 0 ELSE 1)
        /\ \A i \in 1..Len(t.items) : u.items[i].key = t.items[i].key
    BY <1>1, <1>2, <2>1, <2>3, <2>4
  <2> QED
    BY <2>3, <2>5, <2>6, <2>7, <2>8
<1>3. CASE ~Has(t, k)
  <2> DEFINE n == Len(t.items)
  <2>1. u = AppendEntry(t, k, v)
    BY <1>3 DEF SetEntry
  <2>2. IsTable(u)
    BY <1>3, <2>1, AppendKeeps
  <2>3. u.items = Append(t.items, [key |-> k, value |-> v])
    BY <1>3, <2>1, AppendKeeps
  <2>4. Len(u.items) = n + 1 /\ u.items[n + 1].key = k /\ u.items[n + 1].value = v
    BY <1>1, <2>3, Appended
  <2>5. \A i \in 1..n : u.items[i] = t.items[i]
    BY <1>1, <2>3, Appended
  <2>6. Has(u, k) /\ Get(u, k) = v
    <3>1. n + 1 \in 1..Len(u.items)
      BY <1>1, <2>4
    <3> QED
      BY <2>2, <2>4, <3>1, GetFacts
  <2>7. ASSUME NEW l \in Key \ {k}, Has(t, l)
        PROVE  Has(u, l) /\ Get(u, l) = Get(t, l)
    <3>1. PICK i \in 1..n : t.items[i].key = l /\ Get(t, l) = t.items[i].value
      BY <2>7, GetFacts
    <3>2. u.items[i] = t.items[i] /\ i \in 1..Len(u.items)
      BY <1>1, <2>4, <2>5, <3>1
    <3> QED
      BY <2>2, <3>1, <3>2, GetFacts
  <2>8. ASSUME NEW l \in Key \ {k}, Has(u, l)
        PROVE  Has(t, l)
    <3>1. PICK i \in 1..Len(u.items) : u.items[i].key = l
      BY <2>2, <2>8, GetFacts
    <3>2. i \in 1..n
      BY <1>1, <2>4, <3>1
    <3>3. t.items[i].key = l
      BY <2>5, <3>1, <3>2
    <3> QED
      BY <3>2, <3>3, GetFacts
  <2>9. /\ Len(u.items) = Len(t.items) + (IF Has(t, k) THEN 0 ELSE 1)
        /\ \A i \in 1..Len(t.items) : u.items[i].key = t.items[i].key
    BY <1>3, <2>4, <2>5
  <2> QED
    BY <2>2, <2>6, <2>7, <2>8, <2>9
<1> QED
  BY <1>2, <1>3

\* value_map_delete removes its key and leaves every other key with what it had.
THEOREM DeleteRemoves ==
  ASSUME NEW t, IsTable(t), NEW k \in Key, Has(t, k), NEW u, u = DeleteEntry(t, k)
  PROVE  /\ IsTable(u)
         /\ ~Has(u, k)
         /\ \A l \in Key \ {k} : /\ Has(u, l) <=> Has(t, l)
                                 /\ Has(t, l) => Get(u, l) = Get(t, l)
<1> DEFINE at == FindIndex(t, k)
           rest == RemoveAt(t.items, at)
           old(i) == IF i < at THEN i ELSE i + 1
           new(i) == IF i < at THEN i ELSE i - 1
<1>1. IsEntries(t.items) /\ Len(t.items) \in Nat /\ KeysDistinct(t)
  BY EntryFacts DEF IsTable
<1>2. at \in 1..Len(t.items) /\ t.items[at].key = k
  BY LookupFinds DEF Has
<1>3. u = Rehash(rest, RecommendedBuckets(Len(rest)))
  BY DEF DeleteEntry
<1> HIDE DEF at
<1>4. IsEntries(rest)
  BY <1>1, <1>2, Removed
<1>5. Len(rest) = Len(t.items) - 1
  BY <1>1, <1>2, Removed
<1>6. \A i \in 1..Len(rest) : rest[i] = t.items[old(i)]
  BY <1>1, <1>2, Removed
<1> HIDE DEF rest
<1>7. \A i \in 1..Len(rest) : old(i) \in 1..Len(t.items) /\ old(i) # at
  BY <1>1, <1>2, <1>5
<1>8. \A i, j \in 1..Len(rest) : old(i) = old(j) => i = j
  BY <1>1, <1>2, <1>5
<1>9. \A i \in 1..Len(t.items) : i # at => new(i) \in 1..Len(rest) /\ old(new(i)) = i
  BY <1>1, <1>2, <1>5
<1> HIDE DEF old, new
<1>10. \A i, j \in 1..Len(rest) : rest[i].key = rest[j].key => i = j
  BY <1>1, <1>6, <1>7, <1>8 DEF KeysDistinct
<1>11. IsTable(u) /\ u.items = rest
  BY <1>3, <1>4, <1>10, BuiltAnew
<1>12. ~Has(u, k)
  <2>1. SUFFICES ASSUME Has(u, k) PROVE FALSE
    OBVIOUS
  <2>2. PICK i \in 1..Len(rest) : rest[i].key = k
    BY <1>11, <2>1, GetFacts
  <2>3. t.items[old(i)].key = k /\ old(i) \in 1..Len(t.items) /\ old(i) # at
    BY <1>6, <1>7, <2>2
  <2> QED
    BY <1>1, <1>2, <2>3 DEF KeysDistinct
<1>13. ASSUME NEW l \in Key \ {k}, Has(t, l)
       PROVE  Has(u, l) /\ Get(u, l) = Get(t, l)
  <2>1. PICK i \in 1..Len(t.items) : t.items[i].key = l /\ Get(t, l) = t.items[i].value
    BY <1>13, GetFacts
  <2>2. i # at
    BY <1>2, <2>1
  <2>3. new(i) \in 1..Len(rest) /\ rest[new(i)] = t.items[i]
    BY <1>6, <1>9, <2>2
  <2> QED
    BY <1>11, <2>1, <2>3, GetFacts
<1>14. ASSUME NEW l \in Key \ {k}, Has(u, l)
       PROVE  Has(t, l)
  <2>1. PICK i \in 1..Len(rest) : rest[i].key = l
    BY <1>11, <1>14, GetFacts
  <2>2. old(i) \in 1..Len(t.items) /\ t.items[old(i)].key = l
    BY <1>6, <1>7, <2>1
  <2> QED
    BY <2>2, GetFacts
<1> QED
  BY <1>11, <1>12, <1>13, <1>14

\* A copy has its own table over the entries it is given, whatever values they hold.
THEOREM CopyHolds ==
  ASSUME NEW items, IsEntries(items),
         \A i, j \in 1..Len(items) : items[i].key = items[j].key => i = j,
         NEW t, t = CopyTable(items)
  PROVE  /\ IsTable(t) /\ t.items = items
         /\ \A i \in 1..Len(items) : Has(t, items[i].key) /\ Get(t, items[i].key) = items[i].value
<1>1. CASE items = <<>>
  <2>1. t = NewTable /\ t.items = items /\ t.count = 0
    BY <1>1 DEF CopyTable, NewTable
  <2>2. IsTable(t)
    BY <2>1 DEF IsTable, WellLinked, KeysDistinct
  <2> QED
    BY <2>1, <2>2, GetFacts
<1>2. CASE items # <<>>
  <2>1. t = Rehash(items, RecommendedBuckets(Len(items)))
    BY <1>2 DEF CopyTable
  <2>2. IsTable(t) /\ t.items = items
    BY <2>1, BuiltAnew
  <2> QED
    BY <2>2, GetFacts
<1> QED
  BY <1>1, <1>2

-----------------------------------------------------------------------------
(* The heap. *)

\* A list, of whatever it is.
IsList(s) == \E S : s \in Seq(S)

\* A cell, with a table as the operations leave it.
IsCell(c) ==
  \/ c = [type |-> "unused", refcount |-> c.refcount]
  \/ IsTable(c.table) /\ c = [type |-> "map", refcount |-> c.refcount, table |-> c.table]
  \/ /\ c.shape \in Seq(Int) /\ IsList(c.data)
     /\ c = [type |-> "tensor", refcount |-> c.refcount, elem |-> c.elem,
             shape |-> c.shape, data |-> c.data]

IsHeap(h) == IsFiniteSet(DOMAIN h) /\ \A a \in DOMAIN h : IsCell(h[a])

\* The numbers of a list, one more element and another list behind it.
LEMMA ListFacts ==
  ASSUME NEW s, IsList(s)
  PROVE  Len(s) \in Nat /\ DOMAIN s = 1..Len(s)
<1>1. PICK S : s \in Seq(S)
  BY DEF IsList
<1> QED
  BY <1>1

LEMMA ListAppend ==
  ASSUME NEW s, IsList(s), NEW x
  PROVE  IsList(Append(s, x))
<1>1. PICK S : s \in Seq(S)
  BY DEF IsList
<1> DEFINE T == S \cup {x}
<1>2. s \in Seq(T) /\ x \in T
  <2>1. S \subseteq T /\ x \in T
    OBVIOUS
  <2> HIDE DEF T
  <2> QED
    BY <1>1, <2>1
<1> HIDE DEF T
<1>3. Append(s, x) \in Seq(T)
  BY <1>2
<1> QED
  BY <1>3 DEF IsList

LEMMA ListConcat ==
  ASSUME NEW s, IsList(s), NEW t, IsList(t)
  PROVE  IsList(s \o t)
<1>1. PICK S, T : s \in Seq(S) /\ t \in Seq(T)
  BY DEF IsList
<1> DEFINE U == S \cup T
<1>2. s \in Seq(U) /\ t \in Seq(U)
  <2>1. S \subseteq U /\ T \subseteq U
    OBVIOUS
  <2> HIDE DEF U
  <2> QED
    BY <1>1, <2>1
<1> HIDE DEF U
<1>3. s \o t \in Seq(U)
  BY <1>2
<1> QED
  BY <1>3 DEF IsList

\* A function of 1 to n is a list.
LEMMA ListMade ==
  ASSUME NEW n \in Nat, NEW s, s = [i \in 1..n |-> s[i]]
  PROVE  IsList(s)
<1> DEFINE S == {s[i] : i \in 1..n}
<1>1. s \in [1..n -> S]
  BY Zenon
<1> HIDE DEF S
<1>2. s \in Seq(S)
  BY <1>1
<1> QED
  BY <1>2 DEF IsList

\* A value set at a place the table has not leaves it.
LEMMA ValueAnywhere ==
  ASSUME NEW t, IsTable(t), NEW i, NEW v
  PROVE  IsTable(SetValue(t, i, v))
<1>1. CASE i \in 1..Len(t.items)
  BY <1>1, ValueKeeps
<1>2. CASE i \notin 1..Len(t.items)
  <2>1. DOMAIN t.items = 1..Len(t.items) /\ t.items = [j \in DOMAIN t.items |-> t.items[j]]
    <3>1. PICK Value : t.items \in Seq([key : Key, value : Value])
      BY DEF IsTable, IsEntries
    <3> DEFINE R == [key : Key, value : Value]
    <3>2. t.items \in Seq(R)
      BY <3>1
    <3> HIDE DEF R
    <3> QED
      BY <3>2
  <2>2. t = [items |-> t.items, next |-> t.next, buckets |-> t.buckets, count |-> t.count]
    BY DEF IsTable, WellLinked, NewTable, Rehash
  <2>3. [j \in DOMAIN t.items |-> IF j = i THEN [t.items[j] EXCEPT !.value = v] ELSE t.items[j]]
          = t.items
    BY <1>2, <2>1
  <2>4. SetValue(t, i, v) = [t EXCEPT !.items = t.items]
    BY <2>3 DEF SetValue
  <2>5. SetValue(t, i, v) = t
    BY <2>2, <2>4
  <2> QED
    BY <2>5
<1> QED
  BY <1>1, <1>2

\* What a cell is, its elements and shape are lists.
LEMMA CellFacts ==
  ASSUME NEW c, IsCell(c)
  PROVE  /\ IsList(Elements(c)) /\ Shape(c) \in Seq(Int)
         /\ c.type = "map" => /\ IsTable(c.table)
                              /\ DOMAIN Elements(c) = 1..Len(c.table.items)
<1>1. CASE c = [type |-> "unused", refcount |-> c.refcount]
  <2>1. c.type = "unused"
    BY <1>1
  <2>2. Elements(c) = <<>> /\ Shape(c) = <<>> /\ c.type # "map"
    BY <2>1 DEF Elements, Shape
  <2> QED
    BY <2>2 DEF IsList
<1>2. CASE IsTable(c.table) /\ c = [type |-> "map", refcount |-> c.refcount, table |-> c.table]
  <2>1. c.type = "map"
    BY <1>2
  <2> DEFINE e == Elements(c)
             n == Len(c.table.items)
  <2>2. n \in Nat /\ DOMAIN c.table.items = 1..n
    BY <1>2, EntryFacts DEF IsTable
  <2>3. e = [i \in 1..n |-> c.table.items[i].value] /\ Shape(c) = <<>>
    BY <2>1, <2>2 DEF Elements, Shape
  <2> HIDE DEF e
  <2>4. e = [i \in 1..n |-> e[i]] /\ DOMAIN e = 1..n
    BY <2>3
  <2> HIDE DEF n
  <2>5. IsList(e)
    BY <2>2, <2>4, ListMade
  <2> QED
    BY <1>2, <2>3, <2>4, <2>5 DEF e, n
<1>3. CASE /\ c.shape \in Seq(Int) /\ IsList(c.data)
           /\ c = [type |-> "tensor", refcount |-> c.refcount, elem |-> c.elem,
                   shape |-> c.shape, data |-> c.data]
  <2>1. c.type = "tensor"
    BY <1>3
  <2> QED
    BY <1>3, <2>1 DEF Elements, Shape
<1> QED
  BY <1>1, <1>2, <1>3 DEF IsCell

LEMMA CellOf ==
  ASSUME NEW h, IsHeap(h), NEW a
  PROVE  IsCell(Cell(h, a))
BY DEF IsHeap, Cell, IsCell, Unused

\* Stores into a heap: another count, another element, another cell.
LEMMA CountedCell ==
  ASSUME NEW c, IsCell(c), NEW n
  PROVE  IsCell([c EXCEPT !.refcount = n])
BY DEF IsCell

LEMMA SetElementCell ==
  ASSUME NEW c, IsCell(c), NEW i, NEW v
  PROVE  IsCell(SetElement(c, i, v))
<1>1. CASE IsTable(c.table) /\ c = [type |-> "map", refcount |-> c.refcount, table |-> c.table]
  <2> DEFINE t == SetValue(c.table, i, v)
  <2>1. IsTable(t)
    BY <1>1, ValueAnywhere
  <2>2. c.type = "map"
    BY <1>1
  <2>3. SetElement(c, i, v) = [c EXCEPT !.table = t]
    BY <2>2 DEF SetElement
  <2> HIDE DEF t
  <2> QED
    BY <1>1, <2>1, <2>3 DEF IsCell
<1>2. CASE /\ c.shape \in Seq(Int) /\ IsList(c.data)
           /\ c = [type |-> "tensor", refcount |-> c.refcount, elem |-> c.elem,
                   shape |-> c.shape, data |-> c.data]
  <2> DEFINE n == Len(c.data)
             d == [j \in DOMAIN c.data |-> IF j = i THEN v ELSE c.data[j]]
  <2>1. n \in Nat /\ DOMAIN c.data = 1..n
    BY <1>2, ListFacts
  <2>2. d = [j \in 1..n |-> d[j]]
    BY <2>1
  <2> HIDE DEF n
  <2>3. IsList(d)
    <3> HIDE DEF d
    <3> QED
      BY <2>1, <2>2, ListMade
  <2>4. SetElement(c, i, v) = [c EXCEPT !.data = d]
    <3>1. c.type # "map"
      BY <1>2
    <3> QED
      BY <3>1 DEF SetElement
  <2> HIDE DEF d
  <2> QED
    BY <1>2, <2>3, <2>4 DEF IsCell
<1>3. CASE c = [type |-> "unused", refcount |-> c.refcount]
  <2> DEFINE d == [j \in DOMAIN c.data |-> IF j = i THEN v ELSE c.data[j]]
  <2>1. SetElement(c, i, v) = [c EXCEPT !.data = d]
    <3>1. c.type = "unused"
      BY <1>3
    <3> QED
      BY <3>1 DEF SetElement
  <2> HIDE DEF d
  <2>2. [c EXCEPT !.data = d] = c
    BY <1>3
  <2> QED
    BY <2>1, <2>2
<1> QED
  BY <1>1, <1>2, <1>3 DEF IsCell

LEMMA StoreKeeps ==
  ASSUME NEW h, IsHeap(h), NEW a, NEW c, a \in DOMAIN h => IsCell(c)
  PROVE  IsHeap([h EXCEPT ![a] = c])
BY DEF IsHeap

LEMMA AddKeeps ==
  ASSUME NEW h, IsHeap(h), NEW a, NEW c, IsCell(c)
  PROVE  IsHeap(With(h, a, c))
<1> DEFINE g == With(h, a, c)
<1>1. DOMAIN g = DOMAIN h \cup {a}
  BY DEF With
<1>2. \A b \in DOMAIN g : g[b] = IF b = a THEN c ELSE h[b]
  BY DEF With
<1> HIDE DEF g
<1>3. IsFiniteSet(DOMAIN g)
  BY <1>1, FS_AddElement DEF IsHeap
<1>4. \A b \in DOMAIN g : IsCell(g[b])
  BY <1>1, <1>2 DEF IsHeap
<1>5. IsHeap(g)
  BY <1>3, <1>4 DEF IsHeap
<1> QED
  BY <1>5 DEF g

LEMMA RemoveKeeps ==
  ASSUME NEW h, IsHeap(h), NEW a
  PROVE  IsHeap(Restrict(h, DOMAIN h \ {a}))
<1> DEFINE g == Restrict(h, DOMAIN h \ {a})
<1>1. DOMAIN g = DOMAIN h \ {a} /\ \A b \in DOMAIN g : g[b] = h[b]
  BY DEF Restrict
<1> HIDE DEF g
<1>2. IsFiniteSet(DOMAIN g)
  BY <1>1, FS_RemoveElement DEF IsHeap
<1>3. IsHeap(g)
  BY <1>1, <1>2 DEF IsHeap
<1> QED
  BY <1>3 DEF g

\* A count changes.
LEMMA CountKeeps ==
  ASSUME NEW h, IsHeap(h), NEW a, NEW n
  PROVE  IsHeap([h EXCEPT ![a].refcount = n])
<1> DEFINE c == [h[a] EXCEPT !.refcount = n]
<1>1. a \in DOMAIN h => IsCell(c)
  BY CountedCell DEF IsHeap
<1> HIDE DEF c
<1>2. IsHeap([h EXCEPT ![a] = c])
  BY <1>1, StoreKeeps
<1> QED
  BY <1>2 DEF c

\* A cell of its own, with as many elements.
LEMMA DuplicateCell ==
  ASSUME NEW c, IsCell(c), NEW elements, IsList(elements), DOMAIN elements = DOMAIN Elements(c)
  PROVE  IsCell(Duplicate(c, elements))
<1>1. CASE IsTable(c.table) /\ c = [type |-> "map", refcount |-> c.refcount, table |-> c.table]
  <2> DEFINE items == c.table.items
             n == Len(items)
             changed == [i \in DOMAIN elements |-> [items[i] EXCEPT !.value = elements[i]]]
  <2>0. c.type = "map"
    BY <1>1
  <2>1. DOMAIN elements = 1..n
    BY <2>0, CellFacts
  <2>2. PICK Value : items \in Seq([key : Key, value : Value])
    BY <1>1 DEF IsTable, IsEntries
  <2> DEFINE All == {elements[i] : i \in 1..n}
             Q == [key : Key, value : Value]
             R == [key : Key, value : All]
  <2>3. n \in Nat /\ \A i \in 1..n : items[i] \in Q
    <3>1. items \in Seq(Q)
      BY <2>2
    <3> HIDE DEF Q, items
    <3> QED
      BY <3>1
  <2>4. \A i \in 1..n : changed[i] \in R /\ changed[i].key = items[i].key
    <3>1. \A q \in Q : \A v \in All : [q EXCEPT !.value = v] \in R /\ [q EXCEPT !.value = v].key = q.key
      OBVIOUS
    <3> HIDE DEF Q, R, items
    <3> QED
      BY <2>1, <2>3, <3>1
  <2>5. changed = [i \in 1..n |-> changed[i]]
    BY <2>1
  <2> HIDE DEF changed, R, n
  <2>6. changed \in Seq(R) /\ Len(changed) = n
    BY <2>3, <2>4, <2>5
  <2>7. IsEntries(changed)
    BY <2>6 DEF IsEntries, R
  <2>8. \A i, j \in 1..Len(changed) : changed[i].key = changed[j].key => i = j
    BY <1>1, <2>4, <2>6 DEF IsTable, KeysDistinct, n
  <2>9. IsTable(CopyTable(changed))
    BY <2>7, <2>8, CopyHolds
  <2>10. Duplicate(c, elements) = MapCell(CopyTable(changed))
    BY <2>0 DEF Duplicate, changed
  <2> HIDE DEF items
  <2> QED
    BY <2>9, <2>10 DEF MapCell, IsCell
<1>2. CASE /\ c.shape \in Seq(Int) /\ IsList(c.data)
           /\ c = [type |-> "tensor", refcount |-> c.refcount, elem |-> c.elem,
                   shape |-> c.shape, data |-> c.data]
  <2>1. Duplicate(c, elements) = [c EXCEPT !.refcount = 1, !.data = elements]
    <3>1. c.type # "map"
      BY <1>2
    <3> QED
      BY <3>1 DEF Duplicate
  <2>2. [c EXCEPT !.refcount = 1, !.data = elements]
          = [type |-> "tensor", refcount |-> 1, elem |-> c.elem, shape |-> c.shape, data |-> elements]
    <3> DEFINE u == [type |-> "tensor", refcount |-> 1, elem |-> c.elem, shape |-> c.shape,
                     data |-> c.data]
    <3>1. [c EXCEPT !.refcount = 1] = u
      BY <1>2
    <3>2. [u EXCEPT !.data = elements]
            = [type |-> "tensor", refcount |-> 1, elem |-> c.elem, shape |-> c.shape,
               data |-> elements]
      OBVIOUS
    <3>3. [c EXCEPT !.refcount = 1, !.data = elements]
            = [[c EXCEPT !.refcount = 1] EXCEPT !.data = elements]
      OBVIOUS
    <3> HIDE DEF u
    <3> QED
      BY <3>1, <3>2, <3>3
  <2> DEFINE d == [type |-> "tensor", refcount |-> 1, elem |-> c.elem, shape |-> c.shape,
                   data |-> elements]
  <2>3. IsCell(d)
    BY <1>2 DEF IsCell
  <2> QED
    BY <2>1, <2>2, <2>3
<1>3. CASE c = [type |-> "unused", refcount |-> c.refcount]
  <2>1. Duplicate(c, elements) = [c EXCEPT !.refcount = 1, !.data = elements]
    <3>1. c.type # "map"
      BY <1>3
    <3> QED
      BY <3>1 DEF Duplicate
  <2>2. [c EXCEPT !.refcount = 1, !.data = elements] = [type |-> "unused", refcount |-> 1]
    <3>1. [c EXCEPT !.refcount = 1] = [type |-> "unused", refcount |-> 1]
      BY <1>3
    <3>2. [[type |-> "unused", refcount |-> 1] EXCEPT !.data = elements]
            = [type |-> "unused", refcount |-> 1]
      OBVIOUS
    <3>3. [c EXCEPT !.refcount = 1, !.data = elements]
            = [[c EXCEPT !.refcount = 1] EXCEPT !.data = elements]
      OBVIOUS
    <3> QED
      BY <3>1, <3>2, <3>3
  <2> QED
    BY <2>1, <2>2 DEF IsCell
<1> QED
  BY <1>1, <1>2, <1>3 DEF IsCell

-----------------------------------------------------------------------------
(* Copies. *)

\* A result with a heap.
Holds(s) == "heap" \in DOMAIN s /\ IsHeap(s.heap)

\* The accumulator of a fold is a heap, has one, or has one and a list.
HeapAt(c, n, h) == IsHeap(h)
HeapIn(c, n, s) == Holds(s)
GatheredIn(c, n, s) == IsHeap(s.heap) /\ IsList(s.elements)
WorkIn(c, n, s) ==
  s = [heap |-> s.heap, left |-> s.left] /\ IsHeap(s.heap) /\ IsList(s.left)

AliasStep(c, h, v) == Alias(h, v)
Aliasing == INSTANCE Induction WITH Op <- AliasStep, P <- HeapAt

\* value_alias, of one value and of a list.
LEMMA AliasKeeps ==
  ASSUME NEW h, IsHeap(h), NEW v
  PROVE  IsHeap(Alias(h, v))
<1>1. CASE IsContainer(v)
  <2> DEFINE a == v.at
             n == h[a].refcount + 1
  <2>1. Alias(h, v) = [h EXCEPT ![a].refcount = n]
    BY <1>1 DEF Alias
  <2> HIDE DEF a, n
  <2>2. IsHeap([h EXCEPT ![a].refcount = n])
    BY CountKeeps
  <2> QED
    BY <2>1, <2>2
<1>2. CASE ~IsContainer(v)
  BY <1>2 DEF Alias
<1> QED
  BY <1>1, <1>2

LEMMA AliasAllKeeps ==
  ASSUME NEW h, IsHeap(h), NEW list, IsList(list)
  PROVE  IsHeap(FoldLeft(Alias, h, list))
<1> DEFINE g == FoldLeft(Alias, h, list)
           n == Len(list)
<1>1. n \in Nat /\ DOMAIN list = 1..n
  BY ListFacts
<1>2. g = Aliasing!Fold(0, h, list)
  BY DEF AliasStep, Aliasing!Fold, FoldLeft, MapThenFoldSet, Aliasing!Greatest, Max
<1> HIDE DEF g, n
<1>3. HeapAt(0, 0, h)
  BY DEF HeapAt
<1>4. ASSUME NEW i \in 1..n, NEW r, HeapAt(0, i - 1, r)
      PROVE  HeapAt(0, i, AliasStep(0, r, list[i]))
  BY <1>4, AliasKeeps DEF HeapAt, AliasStep
<1>5. HeapAt(0, n, Aliasing!Fold(0, h, list))
  BY <1>1, <1>3, <1>4, Aliasing!FoldInduct
<1>6. IsHeap(g)
  BY <1>2, <1>5 DEF HeapAt
<1> QED
  BY <1>6 DEF g

\* value_copy
LEMMA CopyKeeps ==
  ASSUME NEW h, IsHeap(h), NEW v
  PROVE  Holds(Copy(h, v))
<1>1. CASE IsContainer(v)
  <2> DEFINE a == Fresh(h)
             c == Cell(h, v.at)
             e == Elements(c)
             own == Owned(v, e, a)
             d == Duplicate(c, own)
             g == With(h, a, d)
  <2>1. IsCell(c)
    BY CellOf
  <2>2. IsList(e)
    BY <2>1, CellFacts
  <2>3. IsList(own) /\ DOMAIN own = DOMAIN e
    <3> DEFINE n == Len(e)
    <3>1. n \in Nat /\ DOMAIN e = 1..n
      <4> HIDE DEF e
      <4> QED
        BY <2>2, ListFacts
    <3> HIDE DEF a, c, e
    <3>2. own = [i \in 1..n |-> own[i]] /\ DOMAIN own = 1..n
      BY <3>1 DEF Owned
    <3> HIDE DEF own, n
    <3> QED
      BY <3>1, <3>2, ListMade
  <2>4. IsCell(d)
    <3> HIDE DEF own, c
    <3> QED
      BY <2>1, <2>3, DuplicateCell DEF c
  <2>5. IsHeap(g)
    <3> HIDE DEF d
    <3> QED
      BY <2>4, AddKeeps
  <2>6. IsHeap(FoldLeft(Alias, g, own))
    <3> HIDE DEF g, own
    <3> QED
      BY <2>3, <2>5, AliasAllKeeps
  <2>7. Copy(h, v) = [heap |-> FoldLeft(Alias, g, own), value |-> [v EXCEPT !.at = a]]
    BY <1>1 DEF Copy, CopyTo
  <2> DEFINE x == FoldLeft(Alias, g, own)
             y == [v EXCEPT !.at = a]
  <2> HIDE DEF x, y
  <2>8. Holds([heap |-> x, value |-> y])
    BY <2>6 DEF Holds, x
  <2> QED
    BY <2>7, <2>8 DEF x, y
<1>2. CASE ~IsContainer(v)
  <2>1. Copy(h, v) = [heap |-> h, value |-> v]
    BY <1>2 DEF Copy
  <2> QED
    BY <2>1 DEF Holds
<1> QED
  BY <1>1, <1>2

-----------------------------------------------------------------------------
(* Releases. *)

\* What is done in rounds: a heap and what is left for the next one.
GiveUpStep(c, s, v) == GiveUp(s, v)
FreeRoundStep(c, s, n) == FreeRound(s, n)
GivingUp == INSTANCE Induction WITH Op <- GiveUpStep, P <- WorkIn
Freeing == INSTANCE Induction WITH Op <- FreeRoundStep, P <- WorkIn

LEMMA RoundsList ==
  ASSUME NEW h, IsHeap(h)
  PROVE  \E n \in Nat : DOMAIN Rounds(h) = 1..n
<1>1. Cardinality(DOMAIN h) + 1 \in Nat
  BY FS_CardinalityType DEF IsHeap
<1> QED
  BY <1>1 DEF Rounds

LEMMA GiveUpKeeps ==
  ASSUME NEW s, WorkIn(0, 0, s), NEW v
  PROVE  WorkIn(0, 0, GiveUp(s, v))
<1> DEFINE a == v.at
           c == Cell(s.heap, a)
<1>0. s = [heap |-> s.heap, left |-> s.left] /\ IsHeap(s.heap) /\ IsList(s.left)
  BY DEF WorkIn
<1>1. CASE ~IsContainer(v)
  BY <1>1 DEF GiveUp
<1>2. CASE IsContainer(v) /\ c.refcount > 1
  <2> DEFINE n == s.heap[a].refcount - 1
             g == [s.heap EXCEPT ![a].refcount = n]
  <2>1. GiveUp(s, v) = [s EXCEPT !.heap = g]
    BY <1>2 DEF GiveUp
  <2>2. IsHeap(g)
    <3> HIDE DEF n, a
    <3> QED
      BY <1>0, CountKeeps
  <2> HIDE DEF g
  <2>3. [s EXCEPT !.heap = g] = [heap |-> g, left |-> s.left]
    BY <1>0
  <2> QED
    BY <1>0, <2>1, <2>2, <2>3 DEF WorkIn
<1>3. CASE IsContainer(v) /\ ~(c.refcount > 1)
  <2> DEFINE g == Restrict(s.heap, DOMAIN s.heap \ {a})
             left == s.left \o Elements(c)
  <2>1. GiveUp(s, v) = [heap |-> g, left |-> left]
    BY <1>3 DEF GiveUp
  <2>2. IsHeap(g)
    <3> HIDE DEF a
    <3> QED
      BY <1>0, RemoveKeeps
  <2>3. IsList(left)
    <3>1. IsCell(c)
      <4> HIDE DEF a
      <4> QED
        BY <1>0, CellOf
    <3>2. IsList(Elements(c))
      <4> HIDE DEF c
      <4> QED
        BY <3>1, CellFacts
    <3> HIDE DEF c
    <3> QED
      BY <1>0, <3>2, ListConcat
  <2> HIDE DEF g, left
  <2> QED
    BY <2>1, <2>2, <2>3 DEF WorkIn
<1> QED
  BY <1>1, <1>2, <1>3

LEMMA FreeRoundKeeps ==
  ASSUME NEW s, WorkIn(0, 0, s), NEW r
  PROVE  WorkIn(0, 0, FreeRound(s, r))
<1> DEFINE base == [heap |-> s.heap, left |-> <<>>]
           list == s.left
           n == Len(list)
           t == FoldLeft(GiveUp, base, list)
<1>1. IsHeap(s.heap) /\ IsList(list)
  BY DEF WorkIn
<1>2. WorkIn(0, 0, base)
  BY <1>1 DEF WorkIn, IsList
<1>3. n \in Nat /\ DOMAIN list = 1..n
  <2> HIDE DEF list
  <2> QED
    BY <1>1, ListFacts
<1>4. t = GivingUp!Fold(0, base, list)
  BY DEF GiveUpStep, GivingUp!Fold, FoldLeft, MapThenFoldSet, GivingUp!Greatest, Max
<1>5. FreeRound(s, r) = IF list = <<>> THEN s ELSE t
  BY DEF FreeRound
<1> HIDE DEF base, list, n, t
<1>6. ASSUME NEW i \in 1..n, NEW q, WorkIn(0, i - 1, q)
      PROVE  WorkIn(0, i, GiveUpStep(0, q, list[i]))
  <2>1. WorkIn(0, 0, GiveUp(q, list[i]))
    BY <1>6, GiveUpKeeps DEF WorkIn
  <2> QED
    BY <2>1 DEF WorkIn, GiveUpStep
<1>7. WorkIn(0, n, GivingUp!Fold(0, base, list))
  BY <1>2, <1>3, <1>6, GivingUp!FoldInduct
<1>8. WorkIn(0, 0, t)
  BY <1>4, <1>7 DEF WorkIn
<1> QED
  BY <1>5, <1>8

\* value_free
LEMMA FreeKeeps ==
  ASSUME NEW h, IsHeap(h), NEW v
  PROVE  IsHeap(Free(h, v))
<1>1. CASE IsContainer(v)
  <2> DEFINE base == [heap |-> h, left |-> <<v>>]
             list == Rounds(h)
             t == FoldLeft(FreeRound, base, list)
  <2>1. PICK n \in Nat : DOMAIN list = 1..n
    BY RoundsList
  <2>2. WorkIn(0, 0, base)
    <3>1. <<v>> \in Seq({v})
      OBVIOUS
    <3> QED
      BY <3>1 DEF WorkIn, IsList
  <2>3. t = Freeing!Fold(0, base, list)
    BY DEF FreeRoundStep, Freeing!Fold, FoldLeft, MapThenFoldSet, Freeing!Greatest, Max
  <2>4. Free(h, v) = t.heap
    BY <1>1 DEF Free
  <2> HIDE DEF base, list, t
  <2>5. ASSUME NEW i \in 1..n, NEW q, WorkIn(0, i - 1, q)
        PROVE  WorkIn(0, i, FreeRoundStep(0, q, list[i]))
    <3>1. WorkIn(0, 0, FreeRound(q, list[i]))
      BY <2>5, FreeRoundKeeps DEF WorkIn
    <3> QED
      BY <3>1 DEF WorkIn, FreeRoundStep
  <2>6. WorkIn(0, n, Freeing!Fold(0, base, list))
    BY <2>1, <2>2, <2>5, Freeing!FoldInduct
  <2> QED
    BY <2>3, <2>4, <2>6 DEF WorkIn
<1>2. CASE ~IsContainer(v)
  BY <1>2 DEF Free
<1> QED
  BY <1>1, <1>2

\* A new cell, an element stored into one, and the copy that is freed at once.
LEMMA AllocateKeeps ==
  ASSUME NEW h, IsHeap(h), NEW c, IsCell(c)
  PROVE  Holds(Allocate(h, c))
<1> DEFINE a == Fresh(h)
           g == With(h, a, c)
           y == [type |-> c.type, at |-> a]
<1>1. Allocate(h, c) = [heap |-> g, value |-> y]
  BY DEF Allocate, AllocateAt
<1>2. IsHeap(g)
  <2> HIDE DEF a
  <2> QED
    BY AddKeeps
<1> HIDE DEF g, y
<1> QED
  BY <1>1, <1>2 DEF Holds

LEMMA ElementKeeps ==
  ASSUME NEW h, IsHeap(h), NEW a, NEW i, NEW v
  PROVE  IsHeap([h EXCEPT ![a] = SetElement(@, i, v)])
<1> DEFINE c == SetElement(h[a], i, v)
<1>1. a \in DOMAIN h => IsCell(c)
  BY SetElementCell DEF IsHeap
<1> HIDE DEF c
<1>2. IsHeap([h EXCEPT ![a] = c])
  BY <1>1, StoreKeeps
<1> QED
  BY <1>2 DEF c

LEMMA FreeOriginalKeeps ==
  ASSUME NEW s, Holds(s), NEW v
  PROVE  Holds(FreeOriginal(s, v))
<1> DEFINE g == Free(s.heap, v)
<1>1. FreeOriginal(s, v) = [s EXCEPT !.heap = g]
  BY DEF FreeOriginal
<1>2. IsHeap(g)
  BY FreeKeeps DEF Holds
<1> HIDE DEF g
<1> QED
  BY <1>1, <1>2 DEF Holds

LEMMA PassKeeps ==
  ASSUME NEW h, IsHeap(h), NEW v
  PROVE  Holds(Pass(h, v))
BY CopyKeeps, FreeOriginalKeeps DEF Pass

LEMMA CollectKeeps ==
  ASSUME NEW g, GatheredIn(0, 0, g), NEW s, Holds(s)
  PROVE  GatheredIn(0, 0, Collect(g, s))
<1> DEFINE list == Append(g.elements, s.value)
           h == s.heap
<1>1. IsList(list)
  BY ListAppend DEF GatheredIn
<1>2. IsHeap(h)
  BY DEF Holds
<1>3. Collect(g, s) = [heap |-> h, elements |-> list]
  BY DEF Collect
<1> HIDE DEF list, h
<1> QED
  BY <1>1, <1>2, <1>3 DEF GatheredIn

LEMMA NothingHolds ==
  ASSUME NEW h, IsHeap(h)
  PROVE  GatheredIn(0, 0, Nothing(h))
BY DEF Nothing, GatheredIn, IsList

-----------------------------------------------------------------------------
(* Deep copies. *)

DeepCopyPlaceStep(c, s, place) == DeepCopyPlace(s, place)
DeepCopyRoundStep(c, s, n) == DeepCopyRound(s, n)
Copying == INSTANCE Induction WITH Op <- DeepCopyPlaceStep, P <- WorkIn
Deepening == INSTANCE Induction WITH Op <- DeepCopyRoundStep, P <- WorkIn

LEMMA PlacesList ==
  ASSUME NEW a, NEW elements, IsList(elements)
  PROVE  IsList(Places(a, elements))
<1> DEFINE n == Len(elements)
           p == Places(a, elements)
<1>1. n \in Nat /\ DOMAIN elements = 1..n
  BY ListFacts
<1>2. p = [i \in 1..n |-> p[i]]
  BY <1>1 DEF Places
<1> HIDE DEF n, p
<1>3. IsList(p)
  BY <1>1, <1>2, ListMade
<1> QED
  BY <1>3 DEF p

\* The cell a deep copy starts from or goes on with, and the heap it is put in.
LEMMA DuplicateKeeps ==
  ASSUME NEW h, IsHeap(h), NEW a
  PROVE  /\ Holds(Allocate(h, Duplicate(Cell(h, a), Elements(Cell(h, a)))))
         /\ IsList(Elements(Cell(h, a)))
<1> DEFINE c == Cell(h, a)
           e == Elements(c)
           d == Duplicate(c, e)
<1>1. IsCell(c)
  BY CellOf
<1>2. IsList(e)
  <2> HIDE DEF c
  <2> QED
    BY <1>1, CellFacts
<1>3. DOMAIN e = DOMAIN Elements(c)
  OBVIOUS
<1>4. IsCell(d)
  <2> HIDE DEF c, e
  <2> QED
    BY <1>1, <1>2, <1>3, DuplicateCell
<1>5. Holds(Allocate(h, d))
  <2> HIDE DEF d
  <2> QED
    BY <1>4, AllocateKeeps
<1> QED
  BY <1>2, <1>5

LEMMA DeepCopyPlaceKeeps ==
  ASSUME NEW s, WorkIn(0, 0, s), NEW place
  PROVE  WorkIn(0, 0, DeepCopyPlace(s, place))
<1> DEFINE v == Elements(Cell(s.heap, place[1]))[place[2]]
           c == Cell(s.heap, v.at)
           new == Allocate(s.heap, Duplicate(c, Elements(c)))
           g == [new.heap EXCEPT ![place[1]] = SetElement(@, place[2], new.value)]
           e == Elements(Cell(new.heap, new.value.at))
           left == s.left \o Places(new.value.at, e)
<1>0. IsHeap(s.heap) /\ IsList(s.left)
  BY DEF WorkIn
<1>1. CASE IsContainer(v)
  <2>1. DeepCopyPlace(s, place) = [heap |-> g, left |-> left]
    BY <1>1 DEF DeepCopyPlace, CopyInto
  <2>2. Holds(new)
    <3> HIDE DEF v
    <3> QED
      BY <1>0, DuplicateKeeps
  <2> HIDE DEF new
  <2>3. IsHeap(new.heap)
    BY <2>2 DEF Holds
  <2>4. IsHeap(g)
    BY <2>3, ElementKeeps
  <2>5. IsList(e)
    BY <2>3, DuplicateKeeps
  <2>6. IsList(left)
    <3> HIDE DEF e
    <3> QED
      BY <1>0, <2>5, PlacesList, ListConcat
  <2> HIDE DEF g, left
  <2> QED
    BY <2>1, <2>4, <2>6 DEF WorkIn
<1>2. CASE ~IsContainer(v)
  <2>1. DeepCopyPlace(s, place) = s
    BY <1>2 DEF DeepCopyPlace
  <2> QED
    BY <2>1
<1> QED
  BY <1>1, <1>2

LEMMA DeepCopyRoundKeeps ==
  ASSUME NEW s, WorkIn(0, 0, s), NEW r
  PROVE  WorkIn(0, 0, DeepCopyRound(s, r))
<1> DEFINE base == [heap |-> s.heap, left |-> <<>>]
           list == s.left
           n == Len(list)
           t == FoldLeft(DeepCopyPlace, base, list)
<1>1. IsHeap(s.heap) /\ IsList(list)
  BY DEF WorkIn
<1>2. WorkIn(0, 0, base)
  BY <1>1 DEF WorkIn, IsList
<1>3. n \in Nat /\ DOMAIN list = 1..n
  <2> HIDE DEF list
  <2> QED
    BY <1>1, ListFacts
<1>4. t = Copying!Fold(0, base, list)
  BY DEF DeepCopyPlaceStep, Copying!Fold, FoldLeft, MapThenFoldSet, Copying!Greatest, Max
<1>5. DeepCopyRound(s, r) = IF list = <<>> THEN s ELSE t
  BY DEF DeepCopyRound
<1> HIDE DEF base, list, n, t
<1>6. ASSUME NEW i \in 1..n, NEW q, WorkIn(0, i - 1, q)
      PROVE  WorkIn(0, i, DeepCopyPlaceStep(0, q, list[i]))
  <2>1. WorkIn(0, 0, DeepCopyPlace(q, list[i]))
    BY <1>6, DeepCopyPlaceKeeps DEF WorkIn
  <2> QED
    BY <2>1 DEF WorkIn, DeepCopyPlaceStep
<1>7. WorkIn(0, n, Copying!Fold(0, base, list))
  BY <1>2, <1>3, <1>6, Copying!FoldInduct
<1>8. WorkIn(0, 0, t)
  BY <1>4, <1>7 DEF WorkIn
<1> QED
  BY <1>5, <1>8

LEMMA DeepCopyFromKeeps ==
  ASSUME NEW h, IsHeap(h), NEW top, Holds(top)
  PROVE  Holds(DeepCopyFrom(h, top))
<1> DEFINE e == Elements(Cell(top.heap, top.value.at))
           left == Places(top.value.at, e)
           g == top.heap
           base == [heap |-> g, left |-> left]
           list == Rounds(h)
           t == FoldLeft(DeepCopyRound, base, list)
           y == top.value
<1>1. PICK n \in Nat : DOMAIN list = 1..n
  BY RoundsList
<1>2. WorkIn(0, 0, base)
  <2>1. IsHeap(g)
    BY DEF Holds
  <2>2. IsList(e)
    BY <2>1, DuplicateKeeps
  <2>3. IsList(left)
    <3> HIDE DEF e
    <3> QED
      BY <2>2, PlacesList
  <2> HIDE DEF left, g
  <2> QED
    BY <2>1, <2>3 DEF WorkIn
<1>3. t = Deepening!Fold(0, base, list)
  BY DEF DeepCopyRoundStep, Deepening!Fold, FoldLeft, MapThenFoldSet, Deepening!Greatest, Max
<1>4. DeepCopyFrom(h, top) = [heap |-> t.heap, value |-> y]
  BY DEF DeepCopyFrom
<1> HIDE DEF base, list, t, y
<1>5. ASSUME NEW i \in 1..n, NEW q, WorkIn(0, i - 1, q)
      PROVE  WorkIn(0, i, DeepCopyRoundStep(0, q, list[i]))
  <2>1. WorkIn(0, 0, DeepCopyRound(q, list[i]))
    BY <1>5, DeepCopyRoundKeeps DEF WorkIn
  <2> QED
    BY <2>1 DEF WorkIn, DeepCopyRoundStep
<1>6. WorkIn(0, n, Deepening!Fold(0, base, list))
  BY <1>1, <1>2, <1>5, Deepening!FoldInduct
<1>7. IsHeap(t.heap)
  BY <1>3, <1>6 DEF WorkIn
<1> DEFINE x == t.heap
<1> HIDE DEF x
<1> QED
  BY <1>4, <1>7 DEF Holds, x

\* value_deep_copy
LEMMA DeepCopyKeeps ==
  ASSUME NEW h, IsHeap(h), NEW v
  PROVE  Holds(DeepCopy(h, v))
<1>1. CASE IsContainer(v)
  <2> DEFINE top == Allocate(h, Duplicate(Cell(h, v.at), Elements(Cell(h, v.at))))
  <2>1. Holds(top)
    BY DuplicateKeeps
  <2>2. DeepCopy(h, v) = DeepCopyFrom(h, top)
    BY <1>1 DEF DeepCopy
  <2> HIDE DEF top
  <2> QED
    BY <2>1, <2>2, DeepCopyFromKeeps
<1>2. CASE ~IsContainer(v)
  BY <1>2 DEF DeepCopy, Holds
<1> QED
  BY <1>1, <1>2

-----------------------------------------------------------------------------
(* Maps in the heap. *)

\* Another table in a cell, and what each operation puts there.
LEMMA TabledCell ==
  ASSUME NEW c, IsCell(c), NEW t, IsTable(c.table) => IsTable(t)
  PROVE  IsCell([c EXCEPT !.table = t])
<1>1. CASE c = [type |-> "unused", refcount |-> c.refcount]
  <2>1. [c EXCEPT !.table = t] = c
    BY <1>1
  <2> QED
    BY <2>1
<1>2. CASE IsTable(c.table) /\ c = [type |-> "map", refcount |-> c.refcount, table |-> c.table]
  BY <1>2 DEF IsCell
<1>3. CASE /\ c.shape \in Seq(Int) /\ IsList(c.data)
           /\ c = [type |-> "tensor", refcount |-> c.refcount, elem |-> c.elem,
                   shape |-> c.shape, data |-> c.data]
  <2>1. [c EXCEPT !.table = t] = c
    BY <1>3
  <2> QED
    BY <2>1
<1> QED
  BY <1>1, <1>2, <1>3 DEF IsCell

LEMMA TableKeeps ==
  ASSUME NEW h, IsHeap(h), NEW a, NEW t, IsTable(h[a].table) => IsTable(t)
  PROVE  IsHeap([h EXCEPT ![a].table = t])
<1> DEFINE c == [h[a] EXCEPT !.table = t]
<1>1. a \in DOMAIN h => IsCell(c)
  BY TabledCell DEF IsHeap
<1> HIDE DEF c
<1>2. IsHeap([h EXCEPT ![a] = c])
  BY <1>1, StoreKeeps
<1> QED
  BY <1>2 DEF c

\* A key that is not there is removed by building the table anew.
LEMMA DeleteAnywhere ==
  ASSUME NEW t, IsTable(t), NEW k \in Key
  PROVE  IsTable(DeleteEntry(t, k))
<1>1. CASE Has(t, k)
  BY <1>1, DeleteRemoves
<1>2. CASE ~Has(t, k)
  <2> DEFINE items == t.items
             rest == RemoveAt(items, 0)
  <2>1. rest = items
    <3>1. PICK Value : items \in Seq([key : Key, value : Value])
      BY DEF IsTable, IsEntries
    <3> DEFINE R == [key : Key, value : Value]
    <3>2. items \in Seq(R)
      BY <3>1
    <3> HIDE DEF R, items
    <3>3. SubSeq(items, 1, 0 - 1) = <<>> /\ SubSeq(items, 0 + 1, Len(items)) = items
      BY <3>2
    <3>4. <<>> \o items = items
      BY <3>2
    <3> QED
      BY <3>3, <3>4 DEF RemoveAt
  <2>2. DeleteEntry(t, k) = Rehash(items, RecommendedBuckets(Len(items)))
    BY <1>2, <2>1 DEF DeleteEntry, Has
  <2> QED
    BY <2>2, BuiltAnew DEF IsTable, KeysDistinct
<1> QED
  BY <1>1, <1>2

LEMMA FreeEntryKeeps ==
  ASSUME NEW h, IsHeap(h), NEW m, NEW k
  PROVE  IsHeap(FreeEntry(h, m, k))
BY FreeKeeps DEF FreeEntry

LEMMA PutEntryKeeps ==
  ASSUME NEW s, Holds(s), NEW m, NEW k \in Key
  PROVE  IsHeap(PutEntry(s, m, k))
<1> DEFINE h == s.heap
           a == m.at
           v == s.value
           t == SetEntry(h[a].table, k, v)
<1>1. PutEntry(s, m, k) = [h EXCEPT ![a].table = t]
  BY DEF PutEntry
<1>2. IsHeap(h)
  BY DEF Holds
<1> HIDE DEF h, a, v
<1>3. ASSUME NEW u, IsTable(u)
      PROVE  IsTable(SetEntry(u, k, v))
  <2> DEFINE w == SetEntry(u, k, v)
  <2>1. w = SetEntry(u, k, v)
    OBVIOUS
  <2> HIDE DEF w
  <2>2. IsTable(w)
    BY <1>3, <2>1, SetStores
  <2> QED
    BY <2>1, <2>2
<1>5. IsTable(h[a].table) => IsTable(t)
  BY <1>3
<1> HIDE DEF t
<1>4. IsHeap([h EXCEPT ![a].table = t])
  BY <1>2, <1>5, TableKeeps
<1> QED
  BY <1>1, <1>4

\* value_map_set, value_map_set_self, value_map_get and value_map_delete
LEMMA MapSetKeeps ==
  ASSUME NEW h, IsHeap(h), NEW m, NEW k \in Key, NEW v
  PROVE  IsHeap(MapSet(h, m, k, v))
<1> DEFINE g == FreeEntry(h, m, k)
           s == Copy(g, v)
<1>1. Holds(s)
  <2>1. IsHeap(g)
    BY FreeEntryKeeps
  <2> HIDE DEF g
  <2> QED
    BY <2>1, CopyKeeps
<1>2. MapSet(h, m, k, v) = PutEntry(s, m, k)
  BY DEF MapSet
<1> HIDE DEF s
<1> QED
  BY <1>1, <1>2, PutEntryKeeps

LEMMA MapSetSelfKeeps ==
  ASSUME NEW h, IsHeap(h), NEW m, NEW k \in Key
  PROVE  IsHeap(MapSetSelf(h, m, k))
<1> DEFINE g == Alias(FreeEntry(h, m, k), m)
           s == [heap |-> g, value |-> m]
<1>1. IsHeap(g)
  BY FreeEntryKeeps, AliasKeeps
<1>2. MapSetSelf(h, m, k) = PutEntry(s, m, k)
  BY DEF MapSetSelf
<1>3. Holds(s)
  <2> HIDE DEF g
  <2> QED
    BY <1>1 DEF Holds
<1> HIDE DEF s
<1> QED
  BY <1>2, <1>3, PutEntryKeeps

LEMMA FailedHolds ==
  ASSUME NEW h, IsHeap(h)
  PROVE  Holds(Failed(h))
BY DEF Failed, Holds

LEMMA SuccessHolds ==
  ASSUME NEW s, Holds(s)
  PROVE  Holds(Success(s))
<1> DEFINE h == s.heap
           v == s.value
<1>1. Success(s) = [heap |-> h, value |-> v, ok |-> TRUE] /\ IsHeap(h)
  BY DEF Success, Holds
<1> HIDE DEF h, v
<1>2. Holds([heap |-> h, value |-> v, ok |-> TRUE])
  BY <1>1 DEF Holds
<1> QED
  BY <1>1, <1>2

LEMMA MapGetKeeps ==
  ASSUME NEW h, IsHeap(h), NEW m, NEW k
  PROVE  Holds(MapGet(h, m, k))
BY CopyKeeps, FailedHolds, SuccessHolds DEF MapGet

LEMMA MapDeleteKeeps ==
  ASSUME NEW h, IsHeap(h), NEW m, NEW k \in Key
  PROVE  IsHeap(MapDelete(h, m, k))
<1> DEFINE g == Free(h, Get(Table(h, m), k))
           a == m.at
           t == DeleteEntry(g[a].table, k)
<1>1. MapDelete(h, m, k) = [g EXCEPT ![a].table = t]
  BY DEF MapDelete
<1>2. IsHeap(g)
  BY FreeKeeps
<1> HIDE DEF g, a
<1>3. IsTable(g[a].table) => IsTable(t)
  BY DeleteAnywhere
<1> HIDE DEF t
<1>4. IsHeap([g EXCEPT ![a].table = t])
  BY <1>2, <1>3, TableKeeps
<1> QED
  BY <1>1, <1>4

-----------------------------------------------------------------------------
(* Reads. *)

TimesStep(c, n, dim) == n * dim
IntIn(c, n, s) == s \in Int
KeepStep(spans, kept, d) == IF Extent(spans[d]) > 1 THEN Append(kept, d) ELSE kept
KeptIn(spans, n, kept) == kept \in Seq(DOMAIN spans)
ReadElementStep(c, done, i) == Collect(done, Copy(done.heap, Elements(c)[i]))
ReadPathStep(c, r, step) == IF r.ok THEN ReadStep(r.heap, r.value, step) ELSE r
Multiplying == INSTANCE Induction WITH Op <- TimesStep, P <- IntIn
Keeping == INSTANCE Induction WITH Op <- KeepStep, P <- KeptIn
Reading == INSTANCE Induction WITH Op <- ReadElementStep, P <- GatheredIn
ReadingPath == INSTANCE Induction WITH Op <- ReadPathStep, P <- HeapIn

\* The number of elements of a shape, the dimensions of a selection and its elements.
LEMMA LengthInt ==
  ASSUME NEW shape \in Seq(Int)
  PROVE  Length(shape) \in Int
<1> DEFINE t == Length(shape)
           n == Len(shape)
<1>1. n \in Nat /\ DOMAIN shape = 1..n
  OBVIOUS
<1>2. t = Multiplying!Fold(0, 1, shape)
  BY DEF Length, TimesStep, Multiplying!Fold, FoldLeft, MapThenFoldSet, Multiplying!Greatest, Max
<1> HIDE DEF t, n
<1>3. IntIn(0, 0, 1)
  BY DEF IntIn
<1>4. ASSUME NEW i \in 1..n, NEW q, IntIn(0, i - 1, q)
      PROVE  IntIn(0, i, TimesStep(0, q, shape[i]))
  <2>1. shape[i] \in Int
    BY <1>1
  <2> QED
    BY <1>4, <2>1 DEF IntIn, TimesStep
<1>5. IntIn(0, n, Multiplying!Fold(0, 1, shape))
  BY <1>1, <1>3, <1>4, Multiplying!FoldInduct
<1>6. t \in Int
  BY <1>2, <1>5 DEF IntIn
<1> QED
  BY <1>6 DEF t

LEMMA KeptDimensions ==
  ASSUME NEW n \in Nat, NEW spans, DOMAIN spans = 1..n
  PROVE  Kept(spans) \in Seq(1..n)
<1> DEFINE t == Kept(spans)
           list == [i \in DOMAIN spans |-> i]
           base == <<>>
<1>1. DOMAIN list = 1..n
  OBVIOUS
<1>2. t = Keeping!Fold(spans, base, list)
  BY DEF Kept, KeepStep, Keeping!Fold, FoldLeftDomain, FoldLeft, MapThenFoldSet,
     Keeping!Greatest, Max
<1>3. \A i \in 1..n : list[i] = i
  OBVIOUS
<1>4. KeptIn(spans, 0, base)
  BY DEF KeptIn
<1> HIDE DEF t, list, base
<1>5. ASSUME NEW i \in 1..n, NEW q, KeptIn(spans, i - 1, q)
      PROVE  KeptIn(spans, i, KeepStep(spans, q, list[i]))
  <2>1. q \in Seq(1..n) /\ list[i] \in 1..n
    BY <1>3, <1>5 DEF KeptIn
  <2>2. Append(q, list[i]) \in Seq(1..n)
    BY <2>1
  <2> QED
    BY <2>1, <2>2 DEF KeptIn, KeepStep
<1>6. KeptIn(spans, n, Keeping!Fold(spans, base, list))
  BY <1>1, <1>4, <1>5, Keeping!FoldInduct
<1>7. t \in Seq(1..n)
  BY <1>2, <1>6 DEF KeptIn
<1> QED
  BY <1>7 DEF t

LEMMA ClampPair ==
  ASSUME NEW index \in Int \X Int, NEW dim \in Int
  PROVE  Clamp(index, dim) \in Int \X Int
<1>1. index[1] \in Int /\ index[2] \in Int
  OBVIOUS
<1> DEFINE first == IF index[1] < 0 THEN dim + index[1] + 1 ELSE index[1]
           last == IF index[2] < 0 THEN dim + index[2] + 1 ELSE index[2]
           low == IF first < 1 THEN 1 ELSE first
           high == IF last > dim THEN dim ELSE last
<1>2. first \in Int /\ last \in Int
  BY <1>1
<1> HIDE DEF first, last
<1>3. low \in Int /\ high \in Int
  BY <1>2
<1>4. Clamp(index, dim) = IF low > high THEN <<1, 0>> ELSE <<low, high>>
  BY DEF Clamp, low, high, first, last
<1> HIDE DEF low, high
<1> QED
  BY <1>3, <1>4

LEMMA SpansPairs ==
  ASSUME NEW shape \in Seq(Int), NEW indices \in Seq(Int \X Int)
  PROVE  Spans(shape, indices) \in [1..Len(shape) -> Int \X Int]
<1> DEFINE R == Int \X Int
           index(d) == IF d <= Len(indices) THEN indices[d] ELSE <<1, -1>>
<1>1. <<1, -1>> \in R
  OBVIOUS
<1>2. \A i \in Int \X Int : \A d \in Int : Clamp(i, d) \in R
  BY ClampPair
<1>3. ASSUME NEW d \in 1..Len(shape)
      PROVE  index(d) \in R
  <2>1. indices \in Seq(R)
    OBVIOUS
  <2> HIDE DEF R
  <2>2. d <= Len(indices) => indices[d] \in R
    BY <2>1
  <2> QED
    BY <1>1, <2>2
<1> HIDE DEF index
<1>4. \A d \in 1..Len(shape) : Clamp(index(d), shape[d]) \in R
  <2>1. \A d \in 1..Len(shape) : shape[d] \in Int
    OBVIOUS
  <2> QED
    BY <1>2, <1>3, <2>1 DEF R
<1>5. Spans(shape, indices) = [d \in 1..Len(shape) |-> Clamp(index(d), shape[d])]
  BY DEF Spans, index
<1> HIDE DEF R
<1>6. Spans(shape, indices) \in [1..Len(shape) -> R]
  BY <1>4, <1>5
<1> QED
  BY <1>6 DEF R

LEMMA SelectedShapeInts ==
  ASSUME NEW n \in Nat, NEW spans \in [1..n -> Int \X Int]
  PROVE  SelectedShape(spans) \in Seq(Int)
<1> DEFINE kept == Kept(spans)
           m == Len(kept)
           t == SelectedShape(spans)
<1>1. kept \in Seq(1..n)
  BY KeptDimensions
<1>2. t = [o \in 1..m |-> Extent(spans[kept[o]])]
  BY DEF SelectedShape
<1> HIDE DEF kept
<1>3. m \in Nat /\ \A o \in 1..m : kept[o] \in 1..n
  <2> HIDE DEF t
  <2>1. m = Len(kept)
    OBVIOUS
  <2> HIDE DEF m
  <2> QED
    BY <1>1, <2>1
<1>4. \A d \in 1..n : Extent(spans[d]) \in Int
  BY DEF Extent
<1> HIDE DEF m, t
<1>5. \A o \in 1..m : Extent(spans[kept[o]]) \in Int
  BY <1>3, <1>4
<1>6. t \in [1..m -> Int]
  BY <1>2, <1>5
<1>7. t \in Seq(Int)
  BY <1>3, <1>6
<1> QED
  BY <1>7 DEF t

\* A range up to an integer is one up to a natural number.
LEMMA RangeNat ==
  ASSUME NEW x \in Int
  PROVE  \E n \in Nat : 1..x = 1..n
<1>1. CASE x \in Nat
  BY <1>1
<1>2. CASE x \notin Nat
  <2>1. 1..x = 1..0
    BY <1>2
  <2> QED
    BY <2>1
<1> QED
  BY <1>1, <1>2

LEMMA SelectedList ==
  ASSUME NEW n \in Nat, NEW spans \in [1..n -> Int \X Int], NEW shape
  PROVE  \E m \in Nat : DOMAIN Selected(shape, spans) = 1..m
<1>1. Length(SelectedShape(spans)) \in Int
  BY SelectedShapeInts, LengthInt
<1>2. DOMAIN Selected(shape, spans) = 1..Length(SelectedShape(spans))
  BY DEF Selected
<1> QED
  BY <1>1, <1>2, RangeNat

LEMMA BlockList ==
  ASSUME NEW shape \in Seq(Int), NEW n \in Nat, NEW coordinates, Len(coordinates) = n
  PROVE  /\ SubSeq(shape, n + 1, Len(shape)) \in Seq(Int)
         /\ \E m \in Nat : DOMAIN Block(shape, coordinates) = 1..m
<1> DEFINE inner == SubSeq(shape, n + 1, Len(shape))
<1>1. inner \in Seq(Int)
  OBVIOUS
<1>2. DOMAIN Block(shape, coordinates) = 1..Length(inner)
  BY DEF Block
<1> HIDE DEF inner
<1>3. Length(inner) \in Int
  BY <1>1, LengthInt
<1>4. \E m \in Nat : DOMAIN Block(shape, coordinates) = 1..m
  BY <1>2, <1>3, RangeNat
<1> QED
  BY <1>1, <1>4 DEF inner

\* A new tensor, and the elements an expression selects.
LEMMA ToTensorKeeps ==
  ASSUME NEW g, GatheredIn(0, 0, g), NEW cell, NEW shape \in Seq(Int)
  PROVE  Holds(ToTensor(cell, shape, g))
<1> DEFINE c == TensorCell(cell.elem, shape, g.elements)
           h == g.heap
<1>1. IsHeap(h) /\ IsList(g.elements)
  BY DEF GatheredIn
<1>2. IsCell(c)
  <2> DEFINE elem == cell.elem
             data == g.elements
  <2>1. c = TensorCell(elem, shape, data) /\ IsList(data)
    BY <1>1
  <2> HIDE DEF elem, data, c
  <2> QED
    BY <2>1 DEF TensorCell, IsCell
<1>3. ToTensor(cell, shape, g) = Allocate(h, c)
  BY DEF ToTensor
<1> HIDE DEF c, h
<1> QED
  BY <1>1, <1>2, <1>3, AllocateKeeps

LEMMA ReadElementsKeeps ==
  ASSUME NEW h, IsHeap(h), NEW cell, NEW shape \in Seq(Int),
         NEW n \in Nat, NEW list, DOMAIN list = 1..n
  PROVE  Holds(ReadElements(h, cell, shape, list))
<1> DEFINE base == Nothing(h)
           t == FoldLeft(LAMBDA done, i : Collect(done, Copy(done.heap, Elements(cell)[i])),
                         base, list)
<1>1. t = Reading!Fold(cell, base, list)
  BY DEF ReadElementStep, Reading!Fold, FoldLeft, MapThenFoldSet, Reading!Greatest, Max
<1>2. ReadElements(h, cell, shape, list)
        = IF shape = <<>> THEN Copy(h, Elements(cell)[list[1]]) ELSE ToTensor(cell, shape, t)
  BY DEF ReadElements
<1>3. GatheredIn(cell, 0, base)
  BY NothingHolds DEF GatheredIn
<1> HIDE DEF base, t
<1>4. ASSUME NEW i \in 1..n, NEW q, GatheredIn(cell, i - 1, q)
      PROVE  GatheredIn(cell, i, ReadElementStep(cell, q, list[i]))
  <2> DEFINE s == Copy(q.heap, Elements(cell)[list[i]])
  <2>1. Holds(s)
    BY <1>4, CopyKeeps DEF GatheredIn
  <2>2. ReadElementStep(cell, q, list[i]) = Collect(q, s)
    BY DEF ReadElementStep
  <2>3. GatheredIn(0, 0, q)
    BY <1>4 DEF GatheredIn
  <2> HIDE DEF s
  <2>4. GatheredIn(0, 0, Collect(q, s))
    BY <2>1, <2>3, CollectKeeps
  <2> QED
    BY <2>2, <2>4 DEF GatheredIn
<1>5. GatheredIn(cell, n, Reading!Fold(cell, base, list))
  BY <1>3, <1>4, Reading!FoldInduct
<1>6. GatheredIn(0, 0, t)
  BY <1>1, <1>5 DEF GatheredIn
<1>7. CASE shape = <<>>
  BY <1>2, <1>7, CopyKeeps
<1>8. CASE shape # <<>>
  BY <1>2, <1>6, <1>8, ToTensorKeeps
<1> QED
  BY <1>7, <1>8

LEMMA ReadSliceKeeps ==
  ASSUME NEW h, IsHeap(h), NEW cell, NEW n \in Nat, NEW spans \in [1..n -> Int \X Int]
  PROVE  Holds(ReadSlice(h, cell, spans))
<1> DEFINE shape == SelectedShape(spans)
           list == Selected(Shape(cell), spans)
           s == ReadElements(h, cell, shape, list)
<1>1. shape \in Seq(Int)
  BY SelectedShapeInts
<1>2. PICK m \in Nat : DOMAIN list = 1..m
  BY SelectedList
<1>3. ReadSlice(h, cell, spans) = Success(s)
  BY DEF ReadSlice
<1>4. Holds(s)
  <2> HIDE DEF shape, list
  <2> QED
    BY <1>1, <1>2, ReadElementsKeeps
<1> HIDE DEF s
<1> QED
  BY <1>3, <1>4, SuccessHolds

LEMMA ReadBlockKeeps ==
  ASSUME NEW h, IsHeap(h), NEW cell, IsCell(cell),
         NEW n \in Nat, NEW places, places = [d \in 1..n |-> places[d]]
  PROVE  Holds(ReadBlock(h, cell, places))
<1> DEFINE shape == Shape(cell)
           coordinates == [d \in DOMAIN places |-> places[d] - 1]
           inner == SubSeq(shape, n + 1, Len(shape))
           list == Block(shape, coordinates)
           s == ReadElements(h, cell, inner, list)
<1>1. shape \in Seq(Int)
  BY CellFacts
<1>2. Len(places) = n /\ Len(coordinates) = n
  <2>1. DOMAIN places = 1..n /\ DOMAIN coordinates = 1..n
    OBVIOUS
  <2>2. coordinates = [d \in 1..n |-> coordinates[d]]
    BY <2>1
  <2> HIDE DEF coordinates
  <2>3. IsList(places) /\ IsList(coordinates)
    BY <2>2, ListMade
  <2> QED
    BY <2>1, <2>3, ListFacts
<1> HIDE DEF coordinates, shape
<1>3. inner \in Seq(Int)
  BY <1>1, <1>2, BlockList
<1>4. PICK m \in Nat : DOMAIN list = 1..m
  BY <1>1, <1>2, BlockList
<1>5. Holds(s)
  <2> HIDE DEF inner, list
  <2> QED
    BY <1>3, <1>4, ReadElementsKeeps
<1>6. ReadBlock(h, cell, places) = IF \E d \in DOMAIN places : places[d] \notin 1 .. shape[d]
                                     THEN Failed(h) ELSE Success(s)
  BY <1>2 DEF ReadBlock, shape, coordinates
<1> HIDE DEF s
<1>7. Holds(Success(s)) /\ Holds(Failed(h))
  BY <1>5, SuccessHolds, FailedHolds
<1> QED
  BY <1>6, <1>7

LEMMA ReadTensorKeeps ==
  ASSUME NEW h, IsHeap(h), NEW cell, IsCell(cell), NEW step, step.indices \in Seq(Int \X Int)
  PROVE  Holds(ReadTensor(h, cell, step))
<1> DEFINE indices == step.indices
           n == Len(indices)
           places == [d \in DOMAIN indices |->
                        LET i == indices[d][1]
                        IN  IF i < 0 THEN Shape(cell)[d] + i + 1 ELSE i]
           spans == Spans(Shape(cell), indices)
<1>1. n \in Nat /\ DOMAIN indices = 1..n
  OBVIOUS
<1>2. ReadTensor(h, cell, step)
        = IF step.literal THEN ReadBlock(h, cell, places) ELSE ReadSlice(h, cell, spans)
  BY DEF ReadTensor
<1>3. places = [d \in 1..n |-> places[d]]
  BY <1>1
<1>4. Shape(cell) \in Seq(Int)
  BY CellFacts
<1>5. spans \in [1..Len(Shape(cell)) -> Int \X Int] /\ Len(Shape(cell)) \in Nat
  BY <1>4, SpansPairs
<1> HIDE DEF places, spans
<1>6. Holds(ReadBlock(h, cell, places))
  <2> HIDE DEF n
  <2> QED
    BY <1>1, <1>3, ReadBlockKeeps
<1>7. Holds(ReadSlice(h, cell, spans))
  BY <1>5, ReadSliceKeeps
<1> QED
  BY <1>2, <1>6, <1>7

\* A step of a path has a key, or indices.
LEMMA PathStep ==
  ASSUME NEW path, IsPath(path)
  PROVE  /\ Len(path) \in Nat /\ DOMAIN path = 1..Len(path)
         /\ \A i \in 1..Len(path) :
              /\ path[i].form \in {"key", "indices"}
              /\ path[i].form = "key" => path[i].key \in Key
              /\ path[i].form = "indices" => path[i].indices \in Seq(Int \X Int)
<1> DEFINE A == [form : {"key"}, key : Key]
           I == Seq(Int \X Int)
           B == [form : {"indices"}, indices : I, literal : BOOLEAN]
           S == A \cup B
<1>1. path \in Seq(S)
  BY DEF IsPath
<1> HIDE DEF I
<1>2. \A s \in A : s.form = "key" /\ s.key \in Key
  OBVIOUS
<1>3. \A s \in B : s.form = "indices" /\ s.indices \in I
  OBVIOUS
<1> HIDE DEF A, B
<1>4. \A s \in S : s.form \in {"key", "indices"} /\ (s.form = "key" => s.key \in Key) /\ (s.form = "indices" => s.indices \in I)
  BY <1>2, <1>3
<1> HIDE DEF S
<1>5. Len(path) \in Nat /\ DOMAIN path = 1..Len(path) /\ \A i \in 1..Len(path) : path[i] \in S
  BY <1>1
<1> QED
  BY <1>4, <1>5 DEF I

LEMMA ReadStepKeeps ==
  ASSUME NEW h, IsHeap(h), NEW v, NEW step,
         step.form = "indices" => step.indices \in Seq(Int \X Int)
  PROVE  Holds(ReadStep(h, v, step))
<1> DEFINE key == step.form = "key" /\ v.type = "map"
           tensor == step.form = "indices" /\ v.type = "tensor"
           c == Cell(h, v.at)
           s == CASE key -> MapGet(h, v, step.key)
                  [] tensor -> ReadTensor(h, c, step)
                  [] OTHER -> Failed(h)
<1>1. ReadStep(h, v, step) = FreeOriginal(s, v)
  BY DEF ReadStep
<1>2. IsCell(c)
  BY CellOf
<1> HIDE DEF c
<1>3. tensor => Holds(ReadTensor(h, c, step))
  BY <1>2, ReadTensorKeeps
<1>4. Holds(MapGet(h, v, step.key)) /\ Holds(Failed(h))
  BY MapGetKeeps, FailedHolds
<1>5. key => ~tensor
  OBVIOUS
<1> HIDE DEF key, tensor
<1>6. Holds(s)
  BY <1>3, <1>4, <1>5
<1> HIDE DEF s
<1> QED
  BY <1>1, <1>6, FreeOriginalKeeps

\* EXPR_IDENT and EXPR_INDEX
LEMMA ReadKeeps ==
  ASSUME NEW h, IsHeap(h), NEW values, NEW n, NEW path, IsPath(path)
  PROVE  Holds(Read(h, values, n, path))
<1> DEFINE v == values[n]
           base == Success(Copy(h, v))
           t == FoldLeft(LAMBDA r, step : IF r.ok THEN ReadStep(r.heap, r.value, step) ELSE r,
                         base, path)
           m == Len(path)
<1>1. t = ReadingPath!Fold(0, base, path)
  BY DEF ReadPathStep, ReadingPath!Fold, FoldLeft, MapThenFoldSet, ReadingPath!Greatest, Max
<1>2. Read(h, values, n, path) = IF v = Null THEN Failed(h) ELSE t
  BY DEF Read
<1>3. HeapIn(0, 0, base)
  BY CopyKeeps, SuccessHolds DEF HeapIn
<1>4. m \in Nat /\ DOMAIN path = 1..m
  BY PathStep
<1>5. \A i \in 1..m : path[i].form = "indices" => path[i].indices \in Seq(Int \X Int)
  BY PathStep
<1> HIDE DEF base, t, m
<1>6. ASSUME NEW i \in 1..m, NEW q, HeapIn(0, i - 1, q)
      PROVE  HeapIn(0, i, ReadPathStep(0, q, path[i]))
  <2>1. Holds(q) /\ IsHeap(q.heap)
    BY <1>6 DEF HeapIn, Holds
  <2>2. Holds(ReadStep(q.heap, q.value, path[i]))
    BY <1>5, <2>1, ReadStepKeeps
  <2> QED
    BY <2>1, <2>2 DEF HeapIn, ReadPathStep
<1>7. HeapIn(0, m, ReadingPath!Fold(0, base, path))
  BY <1>3, <1>4, <1>6, ReadingPath!FoldInduct
<1>8. Holds(t)
  BY <1>1, <1>7 DEF HeapIn
<1> QED
  BY <1>2, <1>8, FailedHolds

LEMMA OperandKeeps ==
  ASSUME NEW h, IsHeap(h), NEW values, NEW e, IsOperand(e)
  PROVE  Holds(Operand(h, values, e))
<1>1. CASE e.form = "constant"
  <2> DEFINE v == e.value
  <2>1. Operand(h, values, e) = [heap |-> h, value |-> v, ok |-> TRUE]
    BY <1>1 DEF Operand
  <2> HIDE DEF v
  <2>2. Holds([heap |-> h, value |-> v, ok |-> TRUE])
    BY DEF Holds
  <2> QED
    BY <2>1, <2>2
<1>2. CASE e.form # "constant"
  <2>1. IsPath(e.path)
    BY <1>2 DEF IsOperand
  <2>2. Operand(h, values, e) = Read(h, values, e.name, e.path)
    BY <1>2 DEF Operand
  <2> QED
    BY <2>1, <2>2, ReadKeeps
<1> QED
  BY <1>1, <1>2

-----------------------------------------------------------------------------
(* Expressions. *)

AddEntryStep(values, done, entry) ==
  IF done.ok THEN AddEntry(done.heap, done.value, values, entry) ELSE done
AddItemStep(values, done, item) ==
  IF done.ok THEN AddItem(done, Operand(done.heap, values, item)) ELSE done
FreeStep(c, h, v) == Free(h, v)
TakeStep(c, done, v) == Collect(done, Pass(done.heap, v))
AddingEntries == INSTANCE Induction WITH Op <- AddEntryStep, P <- HeapIn
AddingItems == INSTANCE Induction WITH Op <- AddItemStep, P <- GatheredIn
FreeingAll == INSTANCE Induction WITH Op <- FreeStep, P <- HeapAt
Taking == INSTANCE Induction WITH Op <- TakeStep, P <- GatheredIn

\* The folds of eval_expr.
MapLiteral(h, values, entries) ==
  FoldLeft(LAMBDA done, entry :
             IF done.ok THEN AddEntry(done.heap, done.value, values, entry) ELSE done,
           Success(Allocate(h, MapCell(NewTable))), entries)
LiteralItems(h, values, items) ==
  FoldLeft(LAMBDA done, item :
             IF done.ok THEN AddItem(done, Operand(done.heap, values, item)) ELSE done,
           Items(Nothing(h)), items)

\* A result put together, and an entry that fails.
LEMMA ResultHolds ==
  ASSUME NEW h, IsHeap(h), NEW v
  PROVE  Holds([heap |-> h, value |-> v, ok |-> TRUE])
BY DEF Holds

LEMMA FailLiteralKeeps ==
  ASSUME NEW s, Holds(s), NEW m
  PROVE  Holds(FailLiteral(s, m))
<1>1. IsHeap(Free(s.heap, m))
  BY FreeKeeps DEF Holds
<1> QED
  BY <1>1, FailedHolds DEF FailLiteral

\* One entry of a map literal.
LEMMA AddEntryKeeps ==
  ASSUME NEW h, IsHeap(h), NEW m, NEW values, NEW entry, IsEntry(entry)
  PROVE  Holds(AddEntry(h, m, values, entry))
<1> DEFINE k == entry.key
<1>0. k \in Key
  BY DEF IsEntry
<1>1. CASE entry.item.form = "self"
  <2> DEFINE g == MapSetSelf(h, m, k)
  <2>1. IsHeap(g)
    BY <1>0, MapSetSelfKeeps
  <2>2. AddEntry(h, m, values, entry) = [heap |-> g, value |-> m, ok |-> TRUE]
    BY <1>1 DEF AddEntry
  <2> HIDE DEF g
  <2>3. Holds([heap |-> g, value |-> m, ok |-> TRUE])
    BY <2>1, ResultHolds
  <2> QED
    BY <2>2, <2>3
<1>2. CASE entry.item.form = "self_key"
  <2> DEFINE got == GetFromSelf(Copy(h, m), entry.item.key)
             copy == Copy(got.heap, got.value)
             s1 == MapSet(copy.heap, m, k, copy.value)
             g == Free(Free(s1, copy.value), got.value)
  <2>1. AddEntry(h, m, values, entry) = SetFromSelf(got, m, k)
    BY <1>2 DEF AddEntry
  <2>2. Holds(got)
    <3> DEFINE c == Copy(h, m)
               key == entry.item.key
               r == MapGet(c.heap, c.value, key)
    <3>1. Holds(c)
      BY CopyKeeps
    <3>2. GetFromSelf(c, key) = FreeOriginal(r, c.value)
      BY DEF GetFromSelf
    <3> HIDE DEF c, key
    <3>3. Holds(r)
      BY <3>1, MapGetKeeps DEF Holds
    <3> HIDE DEF r
    <3> QED
      BY <3>2, <3>3, FreeOriginalKeeps DEF c, key
  <2> HIDE DEF got
  <2>3. Holds(copy)
    BY <2>2, CopyKeeps DEF Holds
  <2>4. StoreFromSelf(got, m, k, copy) = [heap |-> g, value |-> m, ok |-> TRUE]
    BY DEF StoreFromSelf
  <2>5. SetFromSelf(got, m, k) = IF got.ok THEN StoreFromSelf(got, m, k, copy)
                                 ELSE FailLiteral(got, m)
    BY DEF SetFromSelf
  <2> HIDE DEF copy, k
  <2>6. IsHeap(s1)
    BY <1>0, <2>3, MapSetKeeps DEF Holds
  <2> HIDE DEF s1
  <2>7. IsHeap(g)
    <3>1. IsHeap(Free(s1, copy.value))
      BY <2>6, FreeKeeps
    <3> QED
      BY <3>1, FreeKeeps
  <2> HIDE DEF g
  <2>8. Holds([heap |-> g, value |-> m, ok |-> TRUE])
    BY <2>7, ResultHolds
  <2>9. Holds(FailLiteral(got, m))
    BY <2>2, FailLiteralKeeps
  <2>10. Holds(SetFromSelf(got, m, k))
    BY <2>4, <2>5, <2>8, <2>9
  <2> QED
    BY <2>1, <2>10
<1>3. CASE entry.item.form \notin {"self", "self_key"}
  <2> DEFINE e == Operand(h, values, entry.item)
             g == Free(MapSet(e.heap, m, k, e.value), e.value)
  <2>1. AddEntry(h, m, values, entry) = SetFromOperand(e, m, k)
    BY <1>3 DEF AddEntry
  <2>2. Holds(e)
    BY <1>3, OperandKeeps DEF IsEntry
  <2> HIDE DEF e
  <2>3. IsHeap(g)
    BY <1>0, <2>2, MapSetKeeps, FreeKeeps DEF Holds
  <2>4. SetFromOperand(e, m, k) = IF e.ok THEN [heap |-> g, value |-> m, ok |-> TRUE]
                                  ELSE FailLiteral(e, m)
    BY DEF SetFromOperand
  <2> HIDE DEF g, k
  <2>5. Holds([heap |-> g, value |-> m, ok |-> TRUE])
    BY <2>3, ResultHolds
  <2>6. Holds(FailLiteral(e, m))
    BY <2>2, FailLiteralKeeps
  <2>7. Holds(SetFromOperand(e, m, k))
    BY <2>4, <2>5, <2>6
  <2> QED
    BY <2>1, <2>7
<1> QED
  BY <1>1, <1>2, <1>3

\* An empty map, and the entries of a literal.
LEMMA NewMapKeeps ==
  ASSUME NEW h, IsHeap(h)
  PROVE  Holds(Allocate(h, MapCell(NewTable)))
<1>1. IsEntries(<<>>) /\ \A i, j \in 1..Len(<<>>) : <<>>[i].key = <<>>[j].key => i = j
  BY DEF IsEntries
<1>2. CopyTable(<<>>) = NewTable
  BY DEF CopyTable
<1>3. IsTable(NewTable)
  BY <1>1, <1>2, CopyHolds
<1>4. IsCell(MapCell(NewTable))
  <2> DEFINE t == NewTable
  <2>1. IsTable(t)
    BY <1>3
  <2> HIDE DEF t
  <2>2. IsCell(MapCell(t))
    BY <2>1 DEF MapCell, IsCell
  <2> QED
    BY <2>2 DEF t
<1> QED
  BY <1>4, AllocateKeeps

LEMMA MapLiteralKeeps ==
  ASSUME NEW h, IsHeap(h), NEW values, NEW n \in Nat, NEW entries, DOMAIN entries = 1..n,
         \A i \in 1..n : IsEntry(entries[i])
  PROVE  Holds(MapLiteral(h, values, entries))
<1> DEFINE base == Success(Allocate(h, MapCell(NewTable)))
           t == MapLiteral(h, values, entries)
<1>1. t = AddingEntries!Fold(values, base, entries)
  BY DEF MapLiteral, AddEntryStep, AddingEntries!Fold, FoldLeft, MapThenFoldSet,
      AddingEntries!Greatest, Max
<1>2. HeapIn(values, 0, base)
  BY NewMapKeeps, SuccessHolds DEF HeapIn
<1> HIDE DEF base, t
<1>3. ASSUME NEW i \in 1..n, NEW q, HeapIn(values, i - 1, q)
      PROVE  HeapIn(values, i, AddEntryStep(values, q, entries[i]))
  <2>1. Holds(q) /\ IsHeap(q.heap)
    BY <1>3 DEF HeapIn, Holds
  <2>2. Holds(AddEntry(q.heap, q.value, values, entries[i]))
    BY <2>1, AddEntryKeeps
  <2> QED
    BY <2>1, <2>2 DEF HeapIn, AddEntryStep
<1>4. HeapIn(values, n, AddingEntries!Fold(values, base, entries))
  BY <1>2, <1>3, AddingEntries!FoldInduct
<1>5. Holds(t)
  BY <1>1, <1>4 DEF HeapIn
<1> QED
  BY <1>5 DEF t

\* The items of a tensor literal: one of them, all of them, and the tensor.
LEMMA FreeAllKeeps ==
  ASSUME NEW h, IsHeap(h), NEW list, IsList(list)
  PROVE  IsHeap(FoldLeft(Free, h, list))
<1> DEFINE g == FoldLeft(Free, h, list)
           n == Len(list)
<1>1. n \in Nat /\ DOMAIN list = 1..n
  BY ListFacts
<1>2. g = FreeingAll!Fold(0, h, list)
  BY DEF FreeStep, FreeingAll!Fold, FoldLeft, MapThenFoldSet, FreeingAll!Greatest, Max
<1> HIDE DEF g, n
<1>3. HeapAt(0, 0, h)
  BY DEF HeapAt
<1>4. ASSUME NEW i \in 1..n, NEW r, HeapAt(0, i - 1, r)
      PROVE  HeapAt(0, i, FreeStep(0, r, list[i]))
  BY <1>4, FreeKeeps DEF HeapAt, FreeStep
<1>5. HeapAt(0, n, FreeingAll!Fold(0, h, list))
  BY <1>1, <1>3, <1>4, FreeingAll!FoldInduct
<1>6. IsHeap(g)
  BY <1>2, <1>5 DEF HeapAt
<1> QED
  BY <1>6 DEF g

LEMMA ItemsHold ==
  ASSUME NEW g, GatheredIn(0, 0, g)
  PROVE  GatheredIn(0, 0, Items(g))
<1> DEFINE h == g.heap
           e == g.elements
<1>1. Items(g) = [heap |-> h, elements |-> e, ok |-> TRUE] /\ IsHeap(h) /\ IsList(e)
  BY DEF Items, GatheredIn
<1> HIDE DEF h, e
<1> QED
  BY <1>1 DEF GatheredIn

LEMMA AddItemKeeps ==
  ASSUME NEW g, GatheredIn(0, 0, g), NEW e, Holds(e)
  PROVE  GatheredIn(0, 0, AddItem(g, e))
<1>1. CASE e.ok
  <2> DEFINE s == Pass(e.heap, e.value)
             new == Collect(g, s)
  <2>1. AddItem(g, e) = Items(new)
    BY <1>1 DEF AddItem
  <2>2. Holds(s)
    BY PassKeeps DEF Holds
  <2> HIDE DEF s
  <2>3. GatheredIn(0, 0, new)
    BY <2>2, CollectKeeps
  <2> HIDE DEF new
  <2> QED
    BY <2>1, <2>3, ItemsHold
<1>2. CASE ~e.ok
  <2> DEFINE h == FoldLeft(Free, e.heap, g.elements)
  <2>1. AddItem(g, e) = [heap |-> h, elements |-> <<>>, ok |-> FALSE]
    BY <1>2 DEF AddItem
  <2>2. IsHeap(h)
    BY FreeAllKeeps DEF Holds, GatheredIn
  <2> HIDE DEF h
  <2> QED
    BY <2>1, <2>2 DEF GatheredIn, IsList
<1> QED
  BY <1>1, <1>2

LEMMA AddItemsKeeps ==
  ASSUME NEW h, IsHeap(h), NEW values, NEW n \in Nat, NEW items, DOMAIN items = 1..n,
         \A i \in 1..n : IsOperand(items[i])
  PROVE  GatheredIn(0, 0, LiteralItems(h, values, items))
<1> DEFINE base == Items(Nothing(h))
           t == LiteralItems(h, values, items)
<1>1. t = AddingItems!Fold(values, base, items)
  BY DEF LiteralItems, AddItemStep, AddingItems!Fold, FoldLeft, MapThenFoldSet,
      AddingItems!Greatest, Max
<1>2. GatheredIn(values, 0, base)
  BY NothingHolds, ItemsHold DEF GatheredIn
<1> HIDE DEF base, t
<1>3. ASSUME NEW i \in 1..n, NEW q, GatheredIn(values, i - 1, q)
      PROVE  GatheredIn(values, i, AddItemStep(values, q, items[i]))
  <2> DEFINE e == Operand(q.heap, values, items[i])
  <2>1. GatheredIn(0, 0, q) /\ IsHeap(q.heap)
    BY <1>3 DEF GatheredIn
  <2>2. Holds(e)
    BY <2>1, OperandKeeps
  <2>3. AddItemStep(values, q, items[i]) = IF q.ok THEN AddItem(q, e) ELSE q
    BY DEF AddItemStep
  <2> HIDE DEF e
  <2>4. GatheredIn(0, 0, AddItem(q, e))
    BY <2>1, <2>2, AddItemKeeps
  <2> QED
    BY <2>1, <2>3, <2>4 DEF GatheredIn
<1>4. GatheredIn(values, n, AddingItems!Fold(values, base, items))
  BY <1>2, <1>3, AddingItems!FoldInduct
<1>5. GatheredIn(0, 0, t)
  BY <1>1, <1>4 DEF GatheredIn
<1> QED
  BY <1>5 DEF t

LEMMA FromItemsKeeps ==
  ASSUME NEW g, GatheredIn(0, 0, g), NEW shape \in Seq(Nat)
  PROVE  Holds(FromItems(g, shape))
<1> DEFINE base == Nothing(g.heap)
           list == g.elements
           n == Len(list)
           t == FoldLeft(LAMBDA done, v : Collect(done, Pass(done.heap, v)), base, list)
           cell == [elem |-> ElementType(list)]
           s == ToTensor(cell, shape, t)
<1>0. IsHeap(g.heap) /\ IsList(list)
  BY DEF GatheredIn
<1>1. t = Taking!Fold(0, base, list)
  BY DEF TakeStep, Taking!Fold, FoldLeft, MapThenFoldSet, Taking!Greatest, Max
<1>2. FromItems(g, shape) = IF ~g.ok THEN Failed(g.heap) ELSE Success(s)
  BY DEF FromItems
<1>3. GatheredIn(0, 0, base)
  BY <1>0, NothingHolds
<1>4. n \in Nat /\ DOMAIN list = 1..n
  <2> HIDE DEF list
  <2> QED
    BY <1>0, ListFacts
<1> HIDE DEF base, list, n, t, cell
<1>5. ASSUME NEW i \in 1..n, NEW q, GatheredIn(0, i - 1, q)
      PROVE  GatheredIn(0, i, TakeStep(0, q, list[i]))
  <2> DEFINE p == Pass(q.heap, list[i])
  <2>1. GatheredIn(0, 0, q) /\ IsHeap(q.heap)
    BY <1>5 DEF GatheredIn
  <2>2. Holds(p)
    BY <2>1, PassKeeps
  <2>3. TakeStep(0, q, list[i]) = Collect(q, p)
    BY DEF TakeStep
  <2> HIDE DEF p
  <2>4. GatheredIn(0, 0, Collect(q, p))
    BY <2>1, <2>2, CollectKeeps
  <2> QED
    BY <2>3, <2>4 DEF GatheredIn
<1>6. GatheredIn(0, n, Taking!Fold(0, base, list))
  BY <1>3, <1>4, <1>5, Taking!FoldInduct
<1>7. GatheredIn(0, 0, t)
  BY <1>1, <1>6 DEF GatheredIn
<1>8. shape \in Seq(Int)
  OBVIOUS
<1>9. Holds(s)
  BY <1>7, <1>8, ToTensorKeeps
<1> HIDE DEF s
<1> QED
  BY <1>0, <1>2, <1>9, SuccessHolds, FailedHolds

LEMMA DeepCopiedKeeps ==
  ASSUME NEW s, Holds(s)
  PROVE  Holds(DeepCopied(s))
<1> DEFINE c == DeepCopy(s.heap, s.value)
           r == FreeOriginal(c, s.value)
<1>1. Holds(c)
  BY DeepCopyKeeps DEF Holds
<1>2. DeepCopied(s) = IF s.ok THEN Success(r) ELSE s
  BY DEF DeepCopied
<1> HIDE DEF c
<1>3. Holds(r)
  BY <1>1, FreeOriginalKeeps
<1> HIDE DEF r
<1> QED
  BY <1>2, <1>3, SuccessHolds

\* eval_expr
LEMMA EvaluateKeeps ==
  ASSUME NEW h, IsHeap(h), NEW values, NEW e, IsExpression(e)
  PROVE  Holds(Evaluate(h, values, e))
<1>1. CASE IsOperand(e)
  <2>1. Evaluate(h, values, e) = Operand(h, values, e)
    BY <1>1 DEF Evaluate, IsOperand
  <2> QED
    BY <1>1, <2>1, OperandKeeps
<1>2. CASE /\ e.form = "map"
           /\ e.entries \in Seq(ToSet(e.entries))
           /\ \A entry \in ToSet(e.entries) : IsEntry(entry)
  <2> DEFINE entries == e.entries
             t == MapLiteral(h, values, entries)
  <2>1. Evaluate(h, values, e) = t
    BY <1>2 DEF Evaluate, MapLiteral
  <2> DEFINE n == Len(entries)
             S == ToSet(entries)
  <2>2. entries \in Seq(S) /\ (\A x \in S : IsEntry(x))
    BY <1>2
  <2>3. n \in Nat /\ DOMAIN entries = 1..n /\ \A i \in 1..n : IsEntry(entries[i])
    <3>1. DOMAIN entries = 1..n /\ n \in Nat /\ \A i \in 1..n : entries[i] \in S
      <4> HIDE DEF S, entries
      <4> QED
        BY <2>2
    <3> QED
      BY <2>2, <3>1
  <2> HIDE DEF entries, n
  <2>4. Holds(t)
    BY <2>3, MapLiteralKeeps
  <2> QED
    BY <2>1, <2>4
<1>3. CASE /\ e.form = "tensor"
           /\ e.shape \in Seq(Nat)
           /\ e.items \in Seq(ToSet(e.items))
           /\ \A item \in ToSet(e.items) : IsOperand(item)
  <2> DEFINE items == e.items
             shape == e.shape
             t == LiteralItems(h, values, items)
  <2>1. Evaluate(h, values, e) = FromItems(t, shape)
    BY <1>3 DEF Evaluate, LiteralItems
  <2> DEFINE n == Len(items)
             S == ToSet(items)
  <2>2. items \in Seq(S) /\ (\A x \in S : IsOperand(x))
    BY <1>3
  <2>3. n \in Nat /\ DOMAIN items = 1..n /\ \A i \in 1..n : IsOperand(items[i])
    <3>1. DOMAIN items = 1..n /\ n \in Nat /\ \A i \in 1..n : items[i] \in S
      <4> HIDE DEF S, items
      <4> QED
        BY <2>2
    <3> QED
      BY <2>2, <3>1
  <2>4. shape \in Seq(Nat)
    BY <1>3
  <2> HIDE DEF items, shape, n
  <2>5. GatheredIn(0, 0, t)
    BY <2>3, AddItemsKeeps
  <2> HIDE DEF t
  <2>6. Holds(FromItems(t, shape))
    BY <2>4, <2>5, FromItemsKeeps
  <2> QED
    BY <2>1, <2>6
<1>4. CASE e.form = "deep_copy"
  <2> DEFINE s == Read(h, values, e.name, <<>>)
  <2>1. Evaluate(h, values, e) = DeepCopied(s)
    BY <1>4 DEF Evaluate
  <2>2. IsPath(<<>>)
    BY DEF IsPath
  <2>3. Holds(s)
    BY <2>2, ReadKeeps
  <2> HIDE DEF s
  <2> QED
    BY <2>1, <2>3, DeepCopiedKeeps
<1> QED
  BY <1>1, <1>2, <1>3, <1>4 DEF IsExpression

-----------------------------------------------------------------------------
(* The walk. *)

WriteStep(c, done, n) == Replace([done EXCEPT !.cur = <<c.cell, c.list[n]>>], c.data[n])
WalkPathStep(c, walk, s) == WalkStep(walk, c.path[s], s = Len(c.path), c.rhs)
Writing == INSTANCE Induction WITH Op <- WriteStep, P <- HeapIn
Walking == INSTANCE Induction WITH Op <- WalkPathStep, P <- HeapIn

\* A record that changes but for its heap.
LEMMA ChangedHolds ==
  ASSUME NEW w, Holds(w), NEW x
  PROVE  /\ Holds([w EXCEPT !.cur = x]) /\ Holds([w EXCEPT !.direct = x])
         /\ Holds([w EXCEPT !.status = x])
BY DEF Holds

LEMMA StatusHolds ==
  ASSUME NEW w, Holds(w)
  PROVE  Holds(Ok(w)) /\ Holds(Error(w))
BY ChangedHolds DEF Ok, Error

\* The value cur points to is replaced.
LEMMA PutKeeps ==
  ASSUME NEW w, Holds(w), NEW s, Holds(s)
  PROVE  Holds(Put(w, s))
<1> DEFINE h == s.heap
           v == s.value
           a == w.cur[1]
           i == w.cur[2]
           g == [h EXCEPT ![a] = SetElement(@, i, v)]
<1>1. IsHeap(h)
  BY DEF Holds
<1>2. Put(w, s) = IF w.cur = <<>> THEN [w EXCEPT !.heap = h, !.base = v]
                  ELSE [w EXCEPT !.heap = g]
  BY DEF Put
<1> HIDE DEF h, v, a, i
<1>3. IsHeap(g)
  BY <1>1, ElementKeeps
<1> HIDE DEF g
<1>4. Holds([w EXCEPT !.heap = g])
  BY <1>3 DEF Holds
<1>5. Holds([w EXCEPT !.heap = h, !.base = v])
  BY <1>1 DEF Holds
<1> QED
  BY <1>2, <1>4, <1>5

LEMMA ReplaceKeeps ==
  ASSUME NEW w, Holds(w), NEW v
  PROVE  Holds(Replace(w, v))
<1> DEFINE g == Free(w.heap, At(w))
           s == Copy(g, v)
<1>1. IsHeap(g)
  BY FreeKeeps DEF Holds
<1>2. Replace(w, v) = Put(w, s)
  BY DEF Replace
<1> HIDE DEF g
<1>3. Holds(s)
  BY <1>1, CopyKeeps
<1> HIDE DEF s
<1> QED
  BY <1>2, <1>3, PutKeeps

LEMMA PromoteKeeps ==
  ASSUME NEW w, Holds(w)
  PROVE  Holds(Promote(w))
<1> DEFINE s == Allocate(w.heap, MapCell(NewTable))
<1>1. Holds(s)
  BY NewMapKeeps DEF Holds
<1>2. Promote(w) = IF At(w) = Null THEN Put(w, s) ELSE w
  BY DEF Promote
<1> HIDE DEF s
<1> QED
  BY <1>1, <1>2, PutKeeps

LEMMA ReplaceTypedKeeps ==
  ASSUME NEW w, Holds(w), NEW rhs
  PROVE  Holds(ReplaceTyped(w, rhs))
BY ReplaceKeeps, StatusHolds DEF ReplaceTyped

\* value_map_get_ptr
LEMMA EntryOfKeeps ==
  ASSUME NEW w, Holds(w), NEW m, NEW k \in Key
  PROVE  Holds(EntryOf(w, m, k))
<1> DEFINE h == w.heap
           a == m.at
           t == AppendEntry(h[a].table, k, Null)
           g == [h EXCEPT ![a].table = t]
           found == <<a, FindIndex(Table(h, m), k)>>
           last == <<a, Len(Table(h, m).items) + 1>>
<1>1. EntryOf(w, m, k) = IF Has(Table(h, m), k) THEN [w EXCEPT !.cur = found]
                         ELSE [w EXCEPT !.cur = last, !.heap = g]
  BY DEF EntryOf
<1>2. CASE Has(Table(h, m), k)
  <2> HIDE DEF found
  <2>1. Holds([w EXCEPT !.cur = found])
    BY ChangedHolds
  <2> QED
    BY <1>1, <1>2, <2>1
<1>3. CASE ~Has(Table(h, m), k)
  <2>1. IsHeap(h)
    BY DEF Holds
  <2>2. IsHeap(g)
    <3>1. CASE a \in DOMAIN h
      <4>1. ~Has(h[a].table, k)
        BY <1>3, <3>1 DEF Table, Cell
      <4> DEFINE u == h[a].table
      <4>2. ~Has(u, k) /\ t = AppendEntry(u, k, Null)
        BY <4>1
      <4>3. IsTable(u) => IsTable(t)
        <5> HIDE DEF u, t, h
        <5> QED
          BY <4>2, AppendKeeps
      <4> HIDE DEF t, a, h
      <4> QED
        BY <2>1, <4>3, TableKeeps
    <3>2. CASE a \notin DOMAIN h
      <4> DEFINE c == [h[a] EXCEPT !.table = t]
      <4> HIDE DEF c, h, a
      <4>1. IsHeap([h EXCEPT ![a] = c])
        BY <2>1, <3>2, StoreKeeps
      <4> QED
        BY <4>1 DEF c
    <3> QED
      BY <3>1, <3>2
  <2> HIDE DEF g, last
  <2>3. Holds([w EXCEPT !.cur = last, !.heap = g])
    BY <2>2 DEF Holds
  <2> QED
    BY <1>1, <1>3, <2>3
<1> QED
  BY <1>2, <1>3

LEMMA WalkKeyKeeps ==
  ASSUME NEW w, Holds(w), NEW k \in Key, NEW last, NEW rhs
  PROVE  Holds(WalkKey(w, k, last, rhs))
<1> DEFINE e == EntryOf(w, At(w), k)
<1>1. Holds(e)
  BY EntryOfKeeps
<1>2. WalkKey(w, k, last, rhs) = IF At(w).type # "map" THEN Error(w)
                                 ELSE IF last THEN ReplaceTyped(e, rhs) ELSE Promote(e)
  BY DEF WalkKey
<1> HIDE DEF e
<1>3. Holds(Error(w)) /\ Holds(ReplaceTyped(e, rhs)) /\ Holds(Promote(e))
  BY <1>1, StatusHolds, ReplaceTypedKeeps, PromoteKeeps
<1> QED
  BY <1>2, <1>3

\* Elements and slices.
LEMMA WriteAllKeeps ==
  ASSUME NEW w, Holds(w), NEW t, NEW n \in Nat, NEW list, DOMAIN list = 1..n, NEW data
  PROVE  Holds(WriteAll(w, t, list, data))
<1> DEFINE c == [cell |-> t, list |-> list, data |-> data]
           order == [i \in DOMAIN list |-> i]
           u == WriteAll(w, t, list, data)
<1>1. DOMAIN order = 1..n
  OBVIOUS
<1>2. c.cell = t /\ c.list = list /\ c.data = data
  OBVIOUS
<1> HIDE DEF c
<1>3. u = Writing!Fold(c, w, order)
  BY <1>2 DEF WriteAll, WriteStep, Writing!Fold, FoldLeftDomain, FoldLeft, MapThenFoldSet,
     Writing!Greatest, Max
<1>4. HeapIn(c, 0, w)
  BY DEF HeapIn
<1> HIDE DEF u, order
<1>5. ASSUME NEW i \in 1..n, NEW q, HeapIn(c, i - 1, q)
      PROVE  HeapIn(c, i, WriteStep(c, q, order[i]))
  <2> DEFINE x == <<c.cell, c.list[order[i]]>>
             r == [q EXCEPT !.cur = x]
             v == c.data[order[i]]
  <2>1. WriteStep(c, q, order[i]) = Replace(r, v)
    BY DEF WriteStep
  <2>2. Holds(q)
    BY <1>5 DEF HeapIn
  <2> HIDE DEF x, v
  <2>3. Holds(r)
    BY <2>2, ChangedHolds
  <2> HIDE DEF r
  <2>4. Holds(Replace(r, v))
    BY <2>3, ReplaceKeeps
  <2> QED
    BY <2>1, <2>4 DEF HeapIn
<1>6. HeapIn(c, n, Writing!Fold(c, w, order))
  BY <1>1, <1>4, <1>5, Writing!FoldInduct
<1>7. Holds(u)
  BY <1>3, <1>6 DEF HeapIn
<1> QED
  BY <1>7 DEF u

LEMMA WalkSelectionKeeps ==
  ASSUME NEW w, Holds(w), NEW t, NEW n \in Nat, NEW list, DOMAIN list = 1..n, NEW shape, NEW rhs
  PROVE  Holds(WalkSelection(w, t, list, shape, rhs))
<1>1. Holds(WalkElement(w, t, list[1], rhs))
  <2> DEFINE x == <<t, list[1]>>
             r == [w EXCEPT !.cur = x]
  <2>1. WalkElement(w, t, list[1], rhs)
          = IF rhs.type \notin {"tensor", Cell(w.heap, t).elem} THEN Error(w) ELSE Replace(r, rhs)
    BY DEF WalkElement
  <2> HIDE DEF x
  <2>2. Holds(r)
    BY ChangedHolds
  <2> HIDE DEF r
  <2>3. Holds(Replace(r, rhs)) /\ Holds(Error(w))
    BY <2>2, ReplaceKeeps, StatusHolds
  <2> QED
    BY <2>1, <2>3
<1>2. Holds(WalkSlice(w, t, list, shape, rhs))
  <2> DEFINE u == WriteAll(w, t, list, Elements(Cell(w.heap, rhs.at)))
             r == [u EXCEPT !.cur = <<>>, !.direct = TRUE]
             misfit == \/ rhs.type # "tensor"
                       \/ Shape(Cell(w.heap, rhs.at)) # shape
                       \/ Cell(w.heap, rhs.at).elem # Cell(w.heap, t).elem
  <2>1. WalkSlice(w, t, list, shape, rhs) = IF misfit THEN Error(w) ELSE r
    BY DEF WalkSlice
  <2>2. Holds(u)
    BY WriteAllKeeps
  <2> HIDE DEF u, misfit
  <2>3. Holds(r)
    BY <2>2 DEF Holds
  <2> HIDE DEF r
  <2>4. Holds(Error(w))
    BY StatusHolds
  <2> QED
    BY <2>1, <2>3, <2>4
<1>3. WalkSelection(w, t, list, shape, rhs)
        = IF shape = <<>> THEN WalkElement(w, t, list[1], rhs)
          ELSE WalkSlice(w, t, list, shape, rhs)
  BY DEF WalkSelection
<1> QED
  BY <1>1, <1>2, <1>3

LEMMA WalkIndicesKeeps ==
  ASSUME NEW w, Holds(w), NEW indices \in Seq(Int \X Int), NEW rhs
  PROVE  Holds(WalkIndices(w, indices, rhs))
<1> DEFINE t == At(w).at
           shape == Shape(Cell(w.heap, t))
           spans == Spans(shape, indices)
           list == Selected(shape, spans)
           s == WalkSelection(w, t, list, SelectedShape(spans), rhs)
<1>1. shape \in Seq(Int)
  <2>1. IsCell(Cell(w.heap, t))
    BY CellOf DEF Holds
  <2> QED
    BY <2>1, CellFacts
<1>2. WalkIndices(w, indices, rhs) = IF At(w).type # "tensor" THEN Error(w) ELSE s
  BY DEF WalkIndices, WalkSpans
<1> HIDE DEF t, shape
<1>3. spans \in [1..Len(shape) -> Int \X Int] /\ Len(shape) \in Nat
  BY <1>1, SpansPairs
<1> HIDE DEF spans
<1>4. PICK m \in Nat : DOMAIN list = 1..m
  BY <1>3, SelectedList
<1> HIDE DEF list
<1>5. Holds(s)
  BY <1>4, WalkSelectionKeeps
<1> HIDE DEF s
<1>6. Holds(Error(w))
  BY StatusHolds
<1> QED
  BY <1>2, <1>5, <1>6

LEMMA WalkStepKeeps ==
  ASSUME NEW w, Holds(w), NEW step, NEW last, NEW rhs, step.form \in {"key", "indices"},
         step.form = "key" => step.key \in Key,
         step.form = "indices" => step.indices \in Seq(Int \X Int)
  PROVE  Holds(WalkStep(w, step, last, rhs))
<1>1. CASE w.status # "walk"
  BY <1>1 DEF WalkStep
<1>2. CASE w.status = "walk" /\ step.form = "key"
  <2>1. Holds(Promote(w))
    BY PromoteKeeps
  <2>2. Holds(WalkKey(Promote(w), step.key, last, rhs))
    BY <1>2, <2>1, WalkKeyKeeps
  <2>3. WalkStep(w, step, last, rhs) = WalkKey(Promote(w), step.key, last, rhs)
    BY <1>2 DEF WalkStep
  <2> QED
    BY <2>2, <2>3
<1>3. CASE w.status = "walk" /\ step.form = "indices"
  <2>1. Holds(WalkIndices(w, step.indices, rhs))
    BY <1>3, WalkIndicesKeeps
  <2>2. WalkStep(w, step, last, rhs) = WalkIndices(w, step.indices, rhs)
    BY <1>3 DEF WalkStep
  <2> QED
    BY <2>1, <2>2
<1> QED
  BY <1>1, <1>2, <1>3

LEMMA StartHolds ==
  ASSUME NEW h, IsHeap(h), NEW base
  PROVE  Holds(StartWalk(h, base))
BY DEF StartWalk, Holds

\* assign_index_chain, up to the end of the chain.
LEMMA WalkKeeps ==
  ASSUME NEW h, IsHeap(h), NEW base, NEW path, IsPath(path), NEW rhs
  PROVE  Holds(Walk(h, base, path, rhs))
<1> DEFINE c == [path |-> path, rhs |-> rhs]
           n == Len(path)
           order == [i \in DOMAIN path |-> i]
           start == StartWalk(h, base)
           w == FoldLeftDomain(LAMBDA walk, s : WalkStep(walk, path[s], s = Len(path), rhs),
                               start, path)
<1>1. n \in Nat /\ DOMAIN order = 1..n
  BY PathStep
<1>2. c.path = path /\ c.rhs = rhs
  OBVIOUS
<1>3. \A i \in 1..n : order[i] = i
  BY PathStep
<1> HIDE DEF c
<1>4. w = Walking!Fold(c, start, order)
  BY <1>2 DEF WalkPathStep, Walking!Fold, FoldLeftDomain, FoldLeft, MapThenFoldSet,
     Walking!Greatest, Max
<1>5. HeapIn(c, 0, start)
  BY StartHolds DEF HeapIn
<1>6. Walk(h, base, path, rhs) = Finish(w, rhs)
  BY DEF Walk
<1> HIDE DEF w, order, start
<1>7. ASSUME NEW i \in 1..n, NEW q, HeapIn(c, i - 1, q)
      PROVE  HeapIn(c, i, WalkPathStep(c, q, order[i]))
  <2> DEFINE step == path[i]
             last == i = n
  <2>1. WalkPathStep(c, q, order[i]) = WalkStep(q, step, last, rhs)
    BY <1>2, <1>3 DEF WalkPathStep
  <2>2. /\ step.form \in {"key", "indices"}
        /\ step.form = "key" => step.key \in Key
        /\ step.form = "indices" => step.indices \in Seq(Int \X Int)
    BY PathStep
  <2> HIDE DEF step, last
  <2>3. Holds(WalkStep(q, step, last, rhs))
    BY <1>7, <2>2, WalkStepKeeps DEF HeapIn
  <2> QED
    BY <2>1, <2>3 DEF HeapIn
<1> HIDE DEF n
<1>8. HeapIn(c, n, Walking!Fold(c, start, order))
  BY <1>1, <1>5, <1>7, Walking!FoldInduct
<1>9. Holds(w)
  BY <1>4, <1>8 DEF HeapIn
<1>10. Holds(Ok(w)) /\ Holds(ReplaceTyped(w, rhs))
  BY <1>9, StatusHolds, ReplaceTypedKeeps
<1>11. Holds(Finish(w, rhs))
  BY <1>9, <1>10 DEF Finish
<1> QED
  BY <1>6, <1>11

-----------------------------------------------------------------------------
(* Statements. *)

DeleteWalkStep(keys, walk, s) == DeleteStep(walk, keys[s], s = Len(keys))
Deleting == INSTANCE Induction WITH Op <- DeleteWalkStep, P <- HeapIn

LEMMA UnchangedHolds ==
  ASSUME NEW h, IsHeap(h), NEW values
  PROVE  Holds(Unchanged(h, values, TRUE)) /\ Holds(Unchanged(h, values, FALSE))
BY DEF Unchanged, Holds

\* env_assign, the value freed behind it, and STMT_ASSIGN to a name.
LEMMA BindKeeps ==
  ASSUME NEW h, IsHeap(h), NEW values, NEW n, NEW v
  PROVE  Holds(Bind(h, values, n, v))
<1> DEFINE g == Free(h, values[n])
           s == Copy(g, v)
           frozen == n \in locked \/ v.type # Declared[n]
<1>1. IsHeap(g)
  BY FreeKeeps
<1>2. Bind(h, values, n, v) = IF frozen THEN Unchanged(h, values, FALSE) ELSE Bound(s, values, n)
  BY DEF Bind
<1> HIDE DEF g, frozen
<1>3. Holds(s)
  BY <1>1, CopyKeeps
<1> HIDE DEF s
<1>4. Holds(Bound(s, values, n))
  <2> DEFINE x == s.heap
             y == [values EXCEPT ![n] = s.value]
  <2>1. Bound(s, values, n) = [heap |-> x, values |-> y, ok |-> TRUE] /\ IsHeap(x)
    BY <1>3 DEF Bound, Holds
  <2> HIDE DEF x, y
  <2>2. Holds([heap |-> x, values |-> y, ok |-> TRUE])
    BY <2>1 DEF Holds
  <2> QED
    BY <2>1, <2>2
<1> QED
  BY <1>2, <1>4, UnchangedHolds

LEMMA BindAndFreeKeeps ==
  ASSUME NEW h, IsHeap(h), NEW values, NEW n, NEW v
  PROVE  Holds(BindAndFree(h, values, n, v))
BY BindKeeps, FreeOriginalKeeps DEF BindAndFree

LEMMA AssignKeeps ==
  ASSUME NEW h, IsHeap(h), NEW values, NEW n, NEW e, IsExpression(e)
  PROVE  Holds(AssignStatement(h, values, n, e))
<1> DEFINE s == Evaluate(h, values, e)
<1>1. Holds(s)
  BY EvaluateKeeps
<1>2. AssignStatement(h, values, n, e) = IF s.ok THEN BindAndFree(s.heap, values, n, s.value)
                                         ELSE Unchanged(s.heap, values, FALSE)
  BY DEF AssignStatement, AssignValue
<1> HIDE DEF s
<1>3. IsHeap(s.heap)
  BY <1>1 DEF Holds
<1> QED
  BY <1>2, <1>3, BindAndFreeKeeps, UnchangedHolds

\* assign_index_chain and STMT_ASSIGN to an index expression.
LEMMA WriteBackKeeps ==
  ASSUME NEW w, Holds(w), NEW values, NEW n
  PROVE  Holds(WriteBack(w, values, n))
<1> DEFINE g == Free(w.heap, w.base)
<1>1. IsHeap(g) /\ IsHeap(w.heap)
  BY FreeKeeps DEF Holds
<1>2. WriteBack(w, values, n) = IF w.status = "error" THEN Unchanged(g, values, FALSE)
                                ELSE BindAndFree(w.heap, values, n, w.base)
  BY DEF WriteBack
<1> HIDE DEF g
<1> QED
  BY <1>1, <1>2, BindAndFreeKeeps, UnchangedHolds

LEMMA AssignChainKeeps ==
  ASSUME NEW h, IsHeap(h), NEW values, NEW n, NEW path, IsPath(path), NEW rhs
  PROVE  Holds(AssignChain(h, values, n, path, rhs))
<1>1. CASE values[n] = Null
  <2> DEFINE new == Allocate(h, MapCell(NewTable))
             base == new.value
             bound == Bind(new.heap, values, n, base)
             w == Walk(bound.heap, base, path, rhs)
  <2>1. AssignChain(h, values, n, path, rhs)
          = IF bound.ok THEN WriteBack(w, bound.values, n) ELSE FreeOriginal(bound, base)
    BY <1>1 DEF AssignChain, StartNew, AssignToNew
  <2>2. IsHeap(new.heap)
    BY NewMapKeeps DEF Holds
  <2> HIDE DEF new, base
  <2>3. Holds(bound)
    BY <2>2, BindKeeps
  <2> HIDE DEF bound
  <2>4. Holds(w)
    BY <2>3, WalkKeeps DEF Holds
  <2> HIDE DEF w
  <2> QED
    BY <2>1, <2>3, <2>4, WriteBackKeeps, FreeOriginalKeeps
<1>2. CASE values[n] # Null
  <2> DEFINE base == Copy(h, values[n])
             w == Walk(base.heap, base.value, path, rhs)
  <2>1. AssignChain(h, values, n, path, rhs) = WriteBack(w, values, n)
    BY <1>2 DEF AssignChain, AssignToCopy
  <2>2. Holds(base)
    BY CopyKeeps
  <2> HIDE DEF base
  <2>3. Holds(w)
    BY <2>2, WalkKeeps DEF Holds
  <2> HIDE DEF w
  <2> QED
    BY <2>1, <2>3, WriteBackKeeps
<1> QED
  BY <1>1, <1>2

LEMMA IndexKeeps ==
  ASSUME NEW h, IsHeap(h), NEW values, NEW n, NEW path, IsPath(path), NEW e, IsExpression(e)
  PROVE  Holds(IndexStatement(h, values, n, path, e))
<1> DEFINE s == Evaluate(h, values, e)
           r == AssignChain(s.heap, values, n, path, s.value)
<1>1. Holds(s)
  BY EvaluateKeeps
<1>2. IndexStatement(h, values, n, path, e)
        = IF s.ok THEN FreeOriginal(r, s.value) ELSE Unchanged(s.heap, values, FALSE)
  BY DEF IndexStatement, AssignIndex
<1> HIDE DEF s
<1>3. IsHeap(s.heap)
  BY <1>1 DEF Holds
<1>4. Holds(r)
  BY <1>3, AssignChainKeeps
<1> HIDE DEF r
<1> QED
  BY <1>2, <1>3, <1>4, FreeOriginalKeeps, UnchangedHolds

\* builtin_del of an index expression.
LEMMA DeleteStepKeeps ==
  ASSUME NEW w, Holds(w), NEW k \in Key, NEW last
  PROVE  Holds(DeleteStep(w, k, last))
<1>1. CASE w.status # "walk"
  BY <1>1 DEF DeleteStep
<1>2. CASE w.status = "walk" /\ At(w).type # "map"
  BY <1>2, StatusHolds DEF DeleteStep
<1>3. CASE w.status = "walk" /\ At(w).type = "map"
  <2> DEFINE g == MapDelete(w.heap, At(w), k)
             r == [w EXCEPT !.heap = g]
             x == IF last THEN "ok" ELSE "missing"
  <2>1. DeleteStep(w, k, last)
          = IF ~Has(Table(w.heap, At(w)), k) THEN [w EXCEPT !.status = x]
            ELSE IF ~last THEN EntryOf(w, At(w), k) ELSE Ok(r)
    BY <1>3 DEF DeleteStep
  <2>2. IsHeap(g)
    BY MapDeleteKeeps DEF Holds
  <2> HIDE DEF g, x
  <2>3. Holds(r)
    BY <2>2 DEF Holds
  <2> HIDE DEF r
  <2>4. Holds(Ok(r)) /\ Holds(EntryOf(w, At(w), k)) /\ Holds([w EXCEPT !.status = x])
    BY <2>3, StatusHolds, EntryOfKeeps, ChangedHolds
  <2> QED
    BY <2>1, <2>4
<1> QED
  BY <1>1, <1>2, <1>3

LEMMA DeleteWalkKeeps ==
  ASSUME NEW s, Holds(s), NEW keys \in Seq(Key)
  PROVE  Holds(DeleteWalk(s, keys))
<1> DEFINE n == Len(keys)
           order == [i \in DOMAIN keys |-> i]
           start == StartWalk(s.heap, s.value)
           w == DeleteWalk(s, keys)
<1>1. n \in Nat /\ DOMAIN order = 1..n
  OBVIOUS
<1>2. \A i \in 1..n : order[i] = i /\ keys[i] \in Key
  OBVIOUS
<1>3. w = Deleting!Fold(keys, start, order)
  BY DEF DeleteWalk, DeleteWalkStep, Deleting!Fold, FoldLeftDomain, FoldLeft, MapThenFoldSet,
     Deleting!Greatest, Max
<1>4. HeapIn(keys, 0, start)
  BY StartHolds DEF HeapIn, Holds
<1> HIDE DEF w, order, start
<1>5. ASSUME NEW i \in 1..n, NEW q, HeapIn(keys, i - 1, q)
      PROVE  HeapIn(keys, i, DeleteWalkStep(keys, q, order[i]))
  <2> DEFINE k == keys[i]
             last == i = n
  <2>1. DeleteWalkStep(keys, q, order[i]) = DeleteStep(q, k, last) /\ k \in Key
    BY <1>2 DEF DeleteWalkStep
  <2> HIDE DEF k, last
  <2>2. Holds(DeleteStep(q, k, last))
    BY <1>5, <2>1, DeleteStepKeeps DEF HeapIn
  <2> QED
    BY <2>1, <2>2 DEF HeapIn
<1> HIDE DEF n
<1>6. HeapIn(keys, n, Deleting!Fold(keys, start, order))
  BY <1>1, <1>4, <1>5, Deleting!FoldInduct
<1>7. Holds(w)
  BY <1>3, <1>6 DEF HeapIn
<1> QED
  BY <1>7 DEF w

LEMMA DeleteKeeps ==
  ASSUME NEW h, IsHeap(h), NEW values, NEW n, NEW keys \in Seq(Key)
  PROVE  Holds(DeleteStatement(h, values, n, keys))
<1> DEFINE s == Copy(h, values[n])
           w == DeleteWalk(s, keys)
           g == Free(w.heap, w.base)
<1>1. Holds(s)
  BY CopyKeeps
<1>2. DeleteStatement(h, values, n, keys)
        = IF values[n] = Null THEN Unchanged(h, values, FALSE)
          ELSE IF w.status = "missing" THEN Unchanged(g, values, TRUE)
          ELSE WriteBack(w, values, n)
  BY DEF DeleteStatement, FinishDelete
<1> HIDE DEF s
<1>3. Holds(w)
  BY <1>1, DeleteWalkKeeps
<1> HIDE DEF w
<1>4. IsHeap(g)
  BY <1>3, FreeKeeps DEF Holds
<1> HIDE DEF g
<1> QED
  BY <1>2, <1>3, <1>4, UnchangedHolds, WriteBackKeeps

-----------------------------------------------------------------------------
(* Selections. *)

OffsetStep(c, n, d) == n + c.coordinates[d] * c.strides[d]
Adding == INSTANCE Induction WITH Op <- OffsetStep, P <- IntIn

Pos == Nat \ {0}
\* Division with remainder, once and twice.
LEMMA Div ==
  ASSUME NEW m \in Nat, NEW a \in Pos
  PROVE  /\ m \div a \in Nat /\ m % a \in 0..(a - 1)
         /\ m = a * (m \div a) + (m % a)
<1>1. m % a \in 0..(a - 1)
  BY DEF Pos
<1>2. m = a * (m \div a) + (m % a)
  BY DEF Pos
<1>3. m \div a \in Int
  BY DEF Pos
<1>4. m \div a >= 0
  BY DEF Pos
<1> QED
  BY <1>1, <1>2, <1>3, <1>4
LEMMA DivIs ==
  ASSUME NEW m \in Nat, NEW a \in Pos, NEW q \in Nat, NEW r \in Nat, r < a, m = a * q + r
  PROVE  q = m \div a /\ r = m % a
BY DEF Pos
LEMMA DivTimes ==
  ASSUME NEW m \in Nat, NEW a \in Pos, NEW b \in Pos
  PROVE  a * b \in Pos /\ m \div (a * b) = (m \div a) \div b
<1> DEFINE q == m \div a
           r == m % a
           p == q \div b
           t == q % b
<1>1. q \in Nat /\ r \in 0..(a - 1) /\ m = a * q + r
  BY Div
<1> HIDE DEF q, r
<1>2. p \in Nat /\ t \in 0..(b - 1) /\ q = b * p + t
  BY <1>1, Div
<1> HIDE DEF p, t
<1>3. a * t <= a * (b - 1)
  BY <1>2 DEF Pos
<1>4. a * t \in Nat /\ a * b \in Pos /\ a * (b - 1) = a * b - a
  BY <1>2 DEF Pos
<1> DEFINE u == a * t + r
           ab == a * b
<1>5. u \in Nat /\ u < ab
  BY <1>1, <1>3, <1>4 DEF Pos
<1>6. m = ab * p + u
  <2>1. a * (b * p + t) = (a * b) * p + a * t
    BY <1>2 DEF Pos
  <2>2. m = a * (b * p + t) + r
    BY <1>1, <1>2
  <2>3. m = ab * p + a * t + r
    BY <2>1, <2>2
  <2>4. ab * p \in Nat
    BY <1>2, <1>4 DEF Pos
  <2> QED
    BY <1>1, <1>4, <2>3, <2>4
<1>7. ab \in Pos
  BY <1>4
<1> HIDE DEF u, ab
<1>8. p = m \div ab
  BY <1>2, <1>5, <1>6, <1>7, DivIs
<1> QED
  BY <1>4, <1>8 DEF p, ab, q

\* The weight of each digit of a number with one digit for each dimension: the product of
\* the dimensions behind it.  The weight in front of all is the number of elements.
IsWeights(n, shape, w) ==
  /\ w \in [0..n -> Pos] /\ w[n] = 1
  /\ \A d \in 1..n : w[d - 1] = w[d] * shape[d]

\* The numbers that digits stand for: all, of the first k.
IsSum(n, c, w, o) == o[0] = 0 /\ \A k \in 1..n : o[k] = o[k - 1] + c[k] * w[k]

\* What holds of 0, and of each number of a range with the one before, holds of the range.
LEMMA RangeInduct ==
  ASSUME NEW n \in Nat, NEW S, 0 \in S, \A k \in 1..n : k - 1 \in S => k \in S
  PROVE  \A k \in 0..n : k \in S
<1> DEFINE T == (0..n) \ S
<1>1. SUFFICES ASSUME T # {} PROVE FALSE
  OBVIOUS
<1>2. T \in SUBSET Nat
  OBVIOUS
<1>3. PICK k \in T : \A m \in T : k <= m
  BY <1>1, <1>2, LeastExists
<1>4. k \in 1..n /\ k - 1 \in 0..n /\ ~(k <= k - 1)
  OBVIOUS
<1>5. k - 1 \in S
  BY <1>3, <1>4
<1> QED
  BY <1>4, <1>5

\* Products of natural numbers grow with their factors.
LEMMA ProductMonotone ==
  ASSUME NEW a \in Nat, NEW b \in Nat, NEW w \in Nat, a <= b
  PROVE  a * w <= b * w
<1>1. PICK x \in Nat : b = a + x
  <2>1. b - a \in Nat /\ b = a + (b - a)
    OBVIOUS
  <2> QED
    BY <2>1
<1>2. b * w = a * w + x * w
  BY <1>1
<1>3. x * w \in Nat /\ a * w \in Nat
  OBVIOUS
<1> QED
  BY <1>2, <1>3

LEMMA WeightsExist ==
  ASSUME NEW n \in Nat, NEW shape \in [1..n -> Pos]
  PROVE  \E w : IsWeights(n, shape, w)
<1> DEFINE Back(j, v) == /\ v \in [0..j -> Pos] /\ v[0] = 1
                         /\ \A i \in 1..j : v[i] = v[i - 1] * shape[n - i + 1]
           S == {j \in 0..n : \E v : Back(j, v)}
<1>1. 0 \in S
  <2> DEFINE v == [i \in 0..0 |-> 1]
  <2>1. Back(0, v)
    BY DEF Pos
  <2>2. 0 \in 0..n
    OBVIOUS
  <2> HIDE DEF Back
  <2> QED
    BY <2>1, <2>2
<1>2. ASSUME NEW k \in 1..n, k - 1 \in S
      PROVE  k \in S
  <2>1. PICK v : Back(k - 1, v)
    BY <1>2
  <2> DEFINE x == v[k - 1] * shape[n - k + 1]
             u == [i \in 0..k |-> IF i = k THEN x ELSE v[i]]
  <2>2. x \in Pos
    <3>1. v[k - 1] \in Pos /\ shape[n - k + 1] \in Pos
      <4>1. k - 1 \in 0..(k - 1) /\ n - k + 1 \in 1..n
        OBVIOUS
      <4> QED
        BY <2>1, <4>1
    <3> QED
      BY <3>1 DEF Pos
  <2>3. u[k] = x /\ \A i \in 0..(k - 1) : u[i] = v[i]
    OBVIOUS
  <2>4. u \in [0..k -> Pos]
    BY <2>1, <2>2
  <2>5. u[0] = 1
    BY <2>1, <2>3
  <2>6. ASSUME NEW i \in 1..k
        PROVE  u[i] = u[i - 1] * shape[n - i + 1]
    <3>1. CASE i = k
      <4>1. u[i - 1] = v[k - 1]
        BY <2>3, <3>1
      <4> QED
        BY <2>3, <3>1, <4>1
    <3>2. CASE i # k
      <4>1. i \in 1..(k - 1) /\ i \in 0..(k - 1) /\ i - 1 \in 0..(k - 1)
        BY <3>2
      <4> QED
        BY <2>1, <2>3, <4>1
    <3> QED
      BY <3>1, <3>2
  <2> HIDE DEF u
  <2>7. Back(k, u)
    BY <2>4, <2>5, <2>6
  <2>8. k \in 0..n
    OBVIOUS
  <2> HIDE DEF Back
  <2> QED
    BY <2>7, <2>8
<1> HIDE DEF S
<1>3. \A k \in 0..n : k \in S
  BY <1>1, <1>2, RangeInduct
<1>4. PICK v : Back(n, v)
  BY <1>3 DEF S
<1> DEFINE w == [d \in 0..n |-> v[n - d]]
<1>5. w \in [0..n -> Pos] /\ w[n] = 1
  BY <1>4
<1>6. ASSUME NEW d \in 1..n
      PROVE  w[d - 1] = w[d] * shape[d]
  <2>1. /\ d - 1 \in 0..n /\ d \in 0..n /\ n - (d - 1) \in 1..n
        /\ n - (d - 1) - 1 = n - d /\ n - (n - (d - 1)) + 1 = d
    OBVIOUS
  <2>2. v[n - (d - 1)] = v[n - d] * shape[d]
    BY <1>4, <2>1
  <2> QED
    BY <2>1, <2>2
<1> HIDE DEF w
<1>7. IsWeights(n, shape, w)
  BY <1>5, <1>6 DEF IsWeights
<1> QED
  BY <1>7

\* compute_strides gives each dimension its weight.
LEMMA StridesAre ==
  ASSUME NEW n \in Nat, NEW shape, Len(shape) = n, NEW w, IsWeights(n, shape, w)
  PROVE  Strides(shape) = [d \in 1..n |-> w[d]]
<1> DEFINE Solves(f) == f = [d \in 1..n |-> IF d = n THEN 1 ELSE f[d + 1] * shape[d + 1]]
           g == [d \in 1..n |-> w[d]]
           s == CHOOSE f : Solves(f)
<1>1. Strides(shape) = s
  BY DEF Strides
<1>2. Solves(g)
  <2>1. ASSUME NEW d \in 1..n
        PROVE  g[d] = IF d = n THEN 1 ELSE g[d + 1] * shape[d + 1]
    <3>1. CASE d = n
      BY <3>1 DEF IsWeights
    <3>2. CASE d # n
      <4>1. d + 1 \in 1..n /\ (d + 1) - 1 = d
        BY <3>2
      <4>2. w[d] = w[d + 1] * shape[d + 1]
        BY <4>1 DEF IsWeights
      <4> QED
        BY <3>2, <4>1, <4>2
    <3> QED
      BY <3>1, <3>2
  <2>2. g = [d \in 1..n |-> g[d]]
    OBVIOUS
  <2> HIDE DEF g
  <2> QED
    BY <2>1, <2>2
<1>3. Solves(s)
  BY <1>2
<1> HIDE DEF s
<1> DEFINE S == {j \in 0..n : j < n => s[n - j] = w[n - j]}
<1>4. 0 \in S
  <2>1. ASSUME 0 < n
        PROVE  s[n] = w[n]
    <3>1. n \in 1..n
      BY <2>1
    <3> QED
      BY <1>3, <3>1 DEF IsWeights
  <2> QED
    BY <2>1
<1>5. ASSUME NEW k \in 1..n, k - 1 \in S
      PROVE  k \in S
  <2>1. ASSUME k < n
        PROVE  s[n - k] = w[n - k]
    <3>1. /\ n - k \in 1..n /\ n - k # n /\ (n - k) + 1 = n - (k - 1) /\ n - (k - 1) \in 1..n
          /\ (n - (k - 1)) - 1 = n - k
      BY <2>1
    <3>2. s[n - (k - 1)] = w[n - (k - 1)]
      BY <1>5, <2>1
    <3>3. s[n - k] = s[n - (k - 1)] * shape[n - (k - 1)]
      BY <1>3, <3>1
    <3>4. w[n - k] = w[n - (k - 1)] * shape[n - (k - 1)]
      BY <3>1 DEF IsWeights
    <3> QED
      BY <3>2, <3>3, <3>4
  <2> QED
    BY <2>1
<1> HIDE DEF S
<1>6. \A j \in 0..n : j \in S
  BY <1>4, <1>5, RangeInduct
<1>7. ASSUME NEW d \in 1..n
      PROVE  s[d] = w[d]
  <2>1. n - d \in 0..n /\ n - d < n /\ n - (n - d) = d
    OBVIOUS
  <2> QED
    BY <1>6, <2>1 DEF S
<1>8. s = [d \in 1..n |-> s[d]]
  BY <1>3
<1>9. s = [d \in 1..n |-> w[d]]
  BY <1>7, <1>8
<1> QED
  BY <1>1, <1>9

LEMMA LengthIs ==
  ASSUME NEW n \in Nat, NEW shape \in [1..n -> Pos], NEW w, IsWeights(n, shape, w)
  PROVE  Length(shape) = w[0]
<1>1. Length(shape) = Multiplying!Fold(0, 1, shape)
  BY DEF Length, TimesStep, Multiplying!Fold, FoldLeft, MapThenFoldSet, Multiplying!Greatest, Max
<1>2. DOMAIN shape = 1..n
  OBVIOUS
<1>3. PICK g : Multiplying!Trace(0, 1, shape, n, g) /\ g[n] = Multiplying!Fold(0, 1, shape)
  BY <1>2, Multiplying!FoldTrace
<1>4. g[0] = 1 /\ \A k \in 1..n : g[k] = g[k - 1] * shape[k]
  BY <1>3 DEF Multiplying!Trace, TimesStep
<1> DEFINE S == {k \in 0..n : g[k] \in Nat /\ g[k] * w[k] = w[0]}
<1>5. 0 \in S
  <2>1. w[0] \in Nat /\ 0 \in 0..n
    BY DEF IsWeights, Pos
  <2> QED
    BY <1>4, <2>1
<1>6. ASSUME NEW k \in 1..n, k - 1 \in S
      PROVE  k \in S
  <2> DEFINE a == g[k - 1]
             b == shape[k]
             c == w[k]
  <2>1. a \in Nat /\ b \in Nat /\ c \in Nat
    BY <1>6 DEF IsWeights, Pos
  <2>2. g[k] = a * b /\ w[k - 1] = c * b /\ a * w[k - 1] = w[0]
    BY <1>4, <1>6 DEF IsWeights
  <2> HIDE DEF a, b
  <2>3. (a * b) * c = a * (c * b) /\ a * b \in Nat
    BY <2>1
  <2> QED
    BY <2>2, <2>3
<1> HIDE DEF S
<1>7. \A k \in 0..n : k \in S
  BY <1>5, <1>6, RangeInduct
<1>8. n \in S
  BY <1>7
<1>9. g[n] \in Nat /\ g[n] * 1 = w[0]
  BY <1>8 DEF S, IsWeights
<1> QED
  BY <1>1, <1>3, <1>9

LEMMA OffsetIs ==
  ASSUME NEW n \in Nat, NEW c, DOMAIN c = 1..n, NEW w
  PROVE  \E o : IsSum(n, c, w, o) /\ o[n] = Offset(c, w)
<1> DEFINE order == [i \in DOMAIN c |-> i]
           p == [coordinates |-> c, strides |-> w]
<1>1. p.coordinates = c /\ p.strides = w
  OBVIOUS
<1> HIDE DEF p
<1>2. Offset(c, w) = Adding!Fold(p, 0, order)
  BY <1>1 DEF Offset, OffsetStep, FoldLeftDomain, Adding!Fold, FoldLeft, MapThenFoldSet,
     Adding!Greatest, Max
<1>3. DOMAIN order = 1..n /\ \A i \in 1..n : order[i] = i
  OBVIOUS
<1> HIDE DEF order
<1>4. PICK o : Adding!Trace(p, 0, order, n, o) /\ o[n] = Adding!Fold(p, 0, order)
  BY <1>3, Adding!FoldTrace
<1>5. o[0] = 0 /\ \A k \in 1..n : o[k] = OffsetStep(p, o[k - 1], order[k])
  BY <1>4 DEF Adding!Trace
<1>6. IsSum(n, c, w, o)
  BY <1>1, <1>3, <1>5 DEF IsSum, OffsetStep
<1> QED
  BY <1>2, <1>4, <1>6
\* The digits of numbers, and those of a number.
Digits(n, shape) == {x \in [1..n -> Nat] : \A d \in 1..n : x[d] < shape[d]}

DigitsOf(m, n, shape, w) == [d \in 1..n |-> (m \div w[d]) % shape[d]]

\* A digit more adds less than the weight of the digit in front.
LEMMA SumStep ==
  ASSUME NEW n \in Nat, NEW shape \in [1..n -> Pos], NEW w, IsWeights(n, shape, w),
         NEW x \in Digits(n, shape), NEW o, IsSum(n, x, w, o)
  PROVE  /\ \A k \in 0..n : o[k] \in Nat
         /\ \A k \in 1..n : o[k - 1] <= o[k] /\ o[k] + w[k] <= o[k - 1] + w[k - 1]
<1> DEFINE S == {k \in 0..n : o[k] \in Nat}
<1>1. 0 \in S
  BY DEF IsSum
<1>2. ASSUME NEW k \in 1..n
      PROVE  x[k] \in Nat /\ x[k] < shape[k] /\ w[k] \in Nat /\ w[k - 1] \in Nat
             /\ shape[k] \in Nat /\ x[k] * w[k] \in Nat
  <2>1. k \in 0..n /\ k - 1 \in 0..n
    OBVIOUS
  <2>2. x[k] \in Nat /\ x[k] < shape[k] /\ w[k] \in Nat /\ w[k - 1] \in Nat /\ shape[k] \in Nat
    BY <2>1 DEF Digits, IsWeights, Pos
  <2> QED
    BY <2>2
<1>3. ASSUME NEW k \in 1..n, k - 1 \in S
      PROVE  k \in S
  <2>1. o[k] = o[k - 1] + x[k] * w[k] /\ o[k - 1] \in Nat /\ k \in 0..n
    BY <1>3 DEF IsSum
  <2> QED
    BY <1>2, <2>1
<1> HIDE DEF S
<1>4. \A k \in 0..n : k \in S
  BY <1>1, <1>3, RangeInduct
<1>5. \A k \in 0..n : o[k] \in Nat
  BY <1>4 DEF S
<1>6. ASSUME NEW k \in 1..n
      PROVE  o[k - 1] <= o[k] /\ o[k] + w[k] <= o[k - 1] + w[k - 1]
  <2>1. o[k] = o[k - 1] + x[k] * w[k] /\ w[k - 1] = w[k] * shape[k]
    BY DEF IsSum, IsWeights
  <2>2. o[k - 1] \in Nat /\ x[k] * w[k] \in Nat
    BY <1>2, <1>5
  <2>3. (x[k] + 1) * w[k] <= shape[k] * w[k]
    <3>1. x[k] + 1 \in Nat /\ x[k] + 1 <= shape[k]
      BY <1>2
    <3> QED
      BY <1>2, <3>1, ProductMonotone
  <2>4. (x[k] + 1) * w[k] = x[k] * w[k] + w[k] /\ shape[k] * w[k] = w[k] * shape[k]
    BY <1>2
  <2>5. x[k] * w[k] + w[k] <= w[k - 1]
    BY <2>1, <2>3, <2>4
  <2> DEFINE p == x[k] * w[k]
  <2>6. p \in Nat /\ o[k] = o[k - 1] + p /\ p + w[k] <= w[k - 1]
    BY <2>1, <2>2, <2>5
  <2>7. w[k] \in Nat /\ w[k - 1] \in Nat /\ o[k - 1] \in Nat
    BY <1>2, <2>2
  <2> HIDE DEF p
  <2> QED
    BY <2>6, <2>7
<1> QED
  BY <1>5, <1>6

\* So all the digits behind one add less than its weight.
LEMMA SumRest ==
  ASSUME NEW n \in Nat, NEW shape \in [1..n -> Pos], NEW w, IsWeights(n, shape, w),
         NEW x \in Digits(n, shape), NEW o, IsSum(n, x, w, o)
  PROVE  \A k \in 0..n : o[k] <= o[n] /\ o[n] + 1 <= o[k] + w[k]
<1> DEFINE S == {j \in 0..n : o[n - j] <= o[n] /\ o[n] + 1 <= o[n - j] + w[n - j]}
<1>1. \A k \in 0..n : o[k] \in Nat /\ w[k] \in Nat
  BY SumStep DEF IsWeights, Pos
<1>2. 0 \in S
  <2>1. n - 0 = n /\ n \in 0..n /\ 0 \in 0..n
    OBVIOUS
  <2> QED
    BY <1>1, <2>1 DEF IsWeights
<1>3. ASSUME NEW j \in 1..n, j - 1 \in S
      PROVE  j \in S
  <2> DEFINE k == n - (j - 1)
  <2>1. k \in 1..n /\ k \in 0..n /\ k - 1 = n - j /\ k - 1 \in 0..n /\ n \in 0..n /\ j \in 0..n
    OBVIOUS
  <2>2. o[k] <= o[n] /\ o[n] + 1 <= o[k] + w[k]
    BY <1>3
  <2> HIDE DEF k
  <2>3. o[k - 1] <= o[k] /\ o[k] + w[k] <= o[k - 1] + w[k - 1]
    BY <2>1, SumStep
  <2>4. o[k - 1] <= o[n] /\ o[n] + 1 <= o[k - 1] + w[k - 1]
    BY <1>1, <2>1, <2>2, <2>3
  <2> QED
    BY <2>1, <2>4
<1> HIDE DEF S
<1>4. \A j \in 0..n : j \in S
  BY <1>2, <1>3, RangeInduct
<1>5. ASSUME NEW k \in 0..n
      PROVE  o[k] <= o[n] /\ o[n] + 1 <= o[k] + w[k]
  <2>1. n - k \in 0..n /\ n - (n - k) = k
    OBVIOUS
  <2> QED
    BY <1>4, <2>1 DEF S
<1> QED
  BY <1>5

\* Digits in order stand for numbers in order.
LEMMA SumOrder ==
  ASSUME NEW n \in Nat, NEW shape \in [1..n -> Pos], NEW w, IsWeights(n, shape, w),
         NEW x \in Digits(n, shape), NEW y \in Digits(n, shape), Before(x, y),
         NEW o, IsSum(n, x, w, o), NEW p, IsSum(n, y, w, p)
  PROVE  o[n] < p[n]
<1>1. DOMAIN x = 1..n
  BY DEF Digits
<1>2. PICK d \in 1..n : x[d] < y[d] /\ \A e \in 1..(d - 1) : x[e] = y[e]
  BY <1>1 DEF Before
<1> DEFINE S == {k \in 0..(d - 1) : o[k] = p[k]}
<1>3. 0 \in S
  BY DEF IsSum
<1>4. ASSUME NEW k \in 1..(d - 1), k - 1 \in S
      PROVE  k \in S
  <2>1. k \in 1..n /\ k \in 0..(d - 1)
    OBVIOUS
  <2>2. o[k] = o[k - 1] + x[k] * w[k] /\ p[k] = p[k - 1] + y[k] * w[k]
    BY <2>1 DEF IsSum
  <2>3. x[k] = y[k] /\ o[k - 1] = p[k - 1]
    BY <1>2, <1>4
  <2> QED
    BY <2>1, <2>2, <2>3
<1> HIDE DEF S
<1>5. d - 1 \in Nat
  OBVIOUS
<1>6. \A k \in 0..(d - 1) : k \in S
  BY <1>3, <1>4, <1>5, RangeInduct
<1>7. o[d - 1] = p[d - 1]
  <2>1. d - 1 \in 0..(d - 1)
    OBVIOUS
  <2> QED
    BY <1>6, <2>1 DEF S
<1>8. o[d] = o[d - 1] + x[d] * w[d] /\ p[d] = p[d - 1] + y[d] * w[d]
  BY DEF IsSum
<1>9. x[d] \in Nat /\ y[d] \in Nat /\ w[d] \in Nat
  BY DEF Digits, IsWeights, Pos
<1>10. (x[d] + 1) * w[d] <= y[d] * w[d] /\ (x[d] + 1) * w[d] = x[d] * w[d] + w[d]
  <2>1. x[d] + 1 \in Nat /\ x[d] + 1 <= y[d]
    BY <1>2, <1>9
  <2>2. (x[d] + 1) * w[d] <= y[d] * w[d]
    BY <1>9, <2>1, ProductMonotone
  <2>3. (x[d] + 1) * w[d] = x[d] * w[d] + w[d]
    BY <1>9
  <2> QED
    BY <2>2, <2>3
<1>11. /\ o[d] \in Nat /\ o[n] \in Nat /\ p[d] \in Nat /\ p[n] \in Nat /\ p[d - 1] \in Nat
  <2>1. d \in 0..n /\ d - 1 \in 0..n /\ n \in 0..n
    OBVIOUS
  <2> QED
    BY <2>1, SumStep
<1>12. o[n] + 1 <= o[d] + w[d] /\ p[d] <= p[n]
  <2>1. d \in 0..n
    OBVIOUS
  <2> QED
    BY <2>1, SumRest
<1>13. o[d] + w[d] <= p[d]
  <2> DEFINE a == x[d] * w[d]
             b == y[d] * w[d]
  <2>1. a \in Nat /\ b \in Nat /\ a + w[d] <= b
    BY <1>9, <1>10
  <2>2. o[d] = p[d - 1] + a /\ p[d] = p[d - 1] + b
    BY <1>7, <1>8
  <2> HIDE DEF a, b
  <2> QED
    BY <1>9, <1>11, <2>1, <2>2
<1> QED
  BY <1>9, <1>11, <1>12, <1>13

\* A number is what its digits stand for.
LEMMA SumDigits ==
  ASSUME NEW n \in Nat, NEW shape \in [1..n -> Pos], NEW w, IsWeights(n, shape, w),
         NEW m \in 0..(w[0] - 1)
  PROVE  /\ DigitsOf(m, n, shape, w) \in Digits(n, shape)
         /\ \A o : IsSum(n, DigitsOf(m, n, shape, w), w, o) => o[n] = m
<1> DEFINE x == DigitsOf(m, n, shape, w)
<1>1. \A d \in 1..n : x[d] = (m \div w[d]) % shape[d]
  BY DEF DigitsOf
<1>2. \A k \in 0..n : w[k] \in Pos /\ m \div w[k] \in Nat
  <2>1. m \in Nat
    OBVIOUS
  <2> QED
    BY <2>1, Div DEF IsWeights
<1>3. ASSUME NEW d \in 1..n
      PROVE  x[d] \in Nat /\ x[d] < shape[d]
  <2>1. d \in 0..n /\ shape[d] \in Pos
    OBVIOUS
  <2>2. (m \div w[d]) % shape[d] \in 0..(shape[d] - 1)
    BY <1>2, <2>1, Div
  <2> QED
    BY <1>1, <2>1, <2>2 DEF Pos
<1>4. x \in [1..n -> Nat]
  BY <1>3 DEF DigitsOf
<1>5. x \in Digits(n, shape)
  BY <1>3, <1>4 DEF Digits
<1> HIDE DEF x
<1>6. ASSUME NEW o, IsSum(n, x, w, o)
      PROVE  o[n] = m
  <2> DEFINE S == {k \in 0..n : o[k] = w[k] * (m \div w[k])}
  <2>1. 0 \in S
    <3>1. m \in Nat /\ w[0] \in Pos /\ m < w[0] /\ m = w[0] * 0 + m /\ 0 \in 0..n
      BY <1>2 DEF Pos
    <3>2. 0 = m \div w[0]
      BY <3>1, DivIs
    <3>3. w[0] * 0 = 0
      BY <3>1 DEF Pos
    <3>4. o[0] = 0
      BY <1>6 DEF IsSum
    <3> QED
      BY <3>1, <3>2, <3>3, <3>4
  <2>2. ASSUME NEW k \in 1..n, k - 1 \in S
        PROVE  k \in S
    <3> DEFINE q == m \div w[k]
               s == shape[k]
               v == w[k]
    <3>1. k \in 0..n /\ s \in Pos /\ v \in Pos /\ q \in Nat /\ m \in Nat
      BY <1>2
    <3>2. w[k - 1] = v * s
      BY DEF IsWeights
    <3>3. m \div (v * s) = q \div s
      BY <3>1, DivTimes
    <3>4. o[k - 1] = w[k - 1] * (m \div w[k - 1])
      BY <2>2
    <3>5. o[k] = o[k - 1] + x[k] * v
      BY <1>6 DEF IsSum
    <3>6. x[k] = q % s
      BY <1>1
    <3>7. q \div s \in Nat /\ q % s \in Nat /\ q = s * (q \div s) + (q % s)
      BY <3>1, Div
    <3> DEFINE a == q \div s
               b == q % s
    <3>8. o[k] = (v * s) * a + b * v
      BY <3>2, <3>3, <3>4, <3>5, <3>6
    <3> HIDE DEF q, s, v
    <3>9. a \in Nat /\ b \in Nat /\ q = s * a + b
      BY <3>7
    <3> HIDE DEF a, b
    <3>10. v * (s * a + b) = (v * s) * a + b * v
      BY <3>1, <3>9 DEF Pos
    <3>11. o[k] = v * q
      BY <3>8, <3>9, <3>10
    <3> QED
      BY <3>1, <3>11 DEF v, q
  <2> HIDE DEF S
  <2>3. \A k \in 0..n : k \in S
    BY <2>1, <2>2, RangeInduct
  <2>4. o[n] = 1 * (m \div 1)
    <3>1. n \in 0..n
      OBVIOUS
    <3> QED
      BY <2>3, <3>1 DEF S, IsWeights
  <2>5. m \in Nat /\ m \div 1 = m
    OBVIOUS
  <2> QED
    BY <2>4, <2>5
<1> QED
  BY <1>5, <1>6 DEF x

\* Coordinates that differ come one before the other.
LEMMA BeforeTotal ==
  ASSUME NEW n \in Nat, NEW x \in [1..n -> Int], NEW y \in [1..n -> Int], x # y
  PROVE  Before(x, y) \/ Before(y, x)
<1> DEFINE D == {d \in 1..n : x[d] # y[d]}
<1>1. D # {} /\ D \in SUBSET Nat
  OBVIOUS
<1>2. PICK d \in D : \A e \in D : d <= e
  BY <1>1, LeastExists
<1>3. d \in 1..n /\ x[d] \in Int /\ y[d] \in Int /\ x[d] # y[d]
  OBVIOUS
<1>4. \A e \in 1..(d - 1) : x[e] = y[e] /\ y[e] = x[e]
  <2>1. ASSUME NEW e \in 1..(d - 1)
        PROVE  x[e] = y[e]
    <3>1. e \in 1..n /\ ~(d <= e)
      BY <1>3
    <3> QED
      BY <1>2, <3>1
  <2> QED
    BY <2>1
<1>5. DOMAIN x = 1..n /\ DOMAIN y = 1..n
  OBVIOUS
<1> HIDE DEF D
<1>6. CASE x[d] < y[d]
  BY <1>3, <1>4, <1>5, <1>6 DEF Before
<1>7. CASE y[d] < x[d]
  BY <1>3, <1>4, <1>5, <1>7 DEF Before
<1> QED
  BY <1>3, <1>6, <1>7

\* The digits of a shape and the numbers below its length, in the same order.
LEMMA Numbering ==
  ASSUME NEW n \in Nat, NEW shape \in [1..n -> Pos], NEW w, IsWeights(n, shape, w)
  PROVE  /\ \A x \in Digits(n, shape) : Offset(x, w) \in 0..(w[0] - 1)
         /\ \A x, y \in Digits(n, shape) : Before(x, y) => Offset(x, w) < Offset(y, w)
         /\ \A m \in 0..(w[0] - 1) : /\ DigitsOf(m, n, shape, w) \in Digits(n, shape)
                                     /\ Offset(DigitsOf(m, n, shape, w), w) = m
<1>1. \A x \in Digits(n, shape) : DOMAIN x = 1..n
  BY DEF Digits
<1>2. ASSUME NEW x \in Digits(n, shape)
      PROVE  Offset(x, w) \in 0..(w[0] - 1)
  <2>1. PICK o : IsSum(n, x, w, o) /\ o[n] = Offset(x, w)
    BY <1>1, OffsetIs
  <2>2. 0 \in 0..n /\ n \in 0..n
    OBVIOUS
  <2>3. o[n] + 1 <= o[0] + w[0]
    BY <2>1, <2>2, SumRest
  <2>4. o[n] \in Nat
    BY <2>1, <2>2, SumStep
  <2>5. o[0] = 0 /\ w[0] \in Nat
    BY <2>1, <2>2 DEF IsSum, IsWeights, Pos
  <2> QED
    BY <2>1, <2>3, <2>4, <2>5
<1>3. ASSUME NEW x \in Digits(n, shape), NEW y \in Digits(n, shape), Before(x, y)
      PROVE  Offset(x, w) < Offset(y, w)
  <2>1. PICK o : IsSum(n, x, w, o) /\ o[n] = Offset(x, w)
    BY <1>1, OffsetIs
  <2>2. PICK p : IsSum(n, y, w, p) /\ p[n] = Offset(y, w)
    BY <1>1, OffsetIs
  <2>3. o[n] < p[n]
    BY <1>3, <2>1, <2>2, SumOrder
  <2> QED
    BY <2>1, <2>2, <2>3
<1>4. ASSUME NEW m \in 0..(w[0] - 1)
      PROVE  /\ DigitsOf(m, n, shape, w) \in Digits(n, shape)
             /\ Offset(DigitsOf(m, n, shape, w), w) = m
  <2>1. DigitsOf(m, n, shape, w) \in Digits(n, shape)
    BY SumDigits
  <2>2. PICK o : IsSum(n, DigitsOf(m, n, shape, w), w, o)
                 /\ o[n] = Offset(DigitsOf(m, n, shape, w), w)
    BY <1>1, <2>1, OffsetIs
  <2> QED
    BY <2>1, <2>2, SumDigits
<1> QED
  BY <1>2, <1>3, <1>4

\* So what digits stand for determines them.
LEMMA DigitsUnique ==
  ASSUME NEW n \in Nat, NEW shape \in [1..n -> Pos], NEW w, IsWeights(n, shape, w),
         NEW x \in Digits(n, shape)
  PROVE  x = DigitsOf(Offset(x, w), n, shape, w)
<1> DEFINE m == Offset(x, w)
           y == DigitsOf(m, n, shape, w)
<1>1. m \in 0..(w[0] - 1) /\ y \in Digits(n, shape) /\ Offset(y, w) = m
  BY Numbering
<1>2. x \in [1..n -> Int] /\ y \in [1..n -> Int]
  BY <1>1 DEF Digits
<1>3. m \in Nat
  BY <1>1
<1>4. ~Before(x, y) /\ ~Before(y, x)
  <2> HIDE DEF y
  <2>1. Before(x, y) => m < m
    BY <1>1, Numbering
  <2>2. Before(y, x) => m < m
    BY <1>1, Numbering
  <2> QED
    BY <1>3, <2>1, <2>2
<1> HIDE DEF m, y
<1>5. x = y
  BY <1>2, <1>4, BeforeTotal
<1> QED
  BY <1>5 DEF y, m

\* Spans of integers with something in each, and how many.
AreSpans(n, spans, extents) ==
  /\ spans \in [1..n -> Int \X Int]
  /\ extents = [d \in 1..n |-> Extent(spans[d])]
  /\ extents \in [1..n -> Pos]

\* Coordinates within spans, and the coordinates of digits.
Within(c, n, spans) == [d \in 1..n |-> c[d] - spans[d][1]]

Placed(x, n, spans) == [d \in 1..n |-> x[d] + spans[d][1]]

\* Coordinates in spans are digits of their extents, the other way around and in order.
LEMMA TuplesAre ==
  ASSUME NEW n \in Nat, NEW spans, NEW extents, AreSpans(n, spans, extents)
  PROVE  /\ \A c \in Tuples(spans) : /\ c \in [1..n -> Int]
                                     /\ Within(c, n, spans) \in Digits(n, extents)
                                     /\ c = Placed(Within(c, n, spans), n, spans)
         /\ \A x \in Digits(n, extents) : /\ Placed(x, n, spans) \in Tuples(spans)
                                          /\ Within(Placed(x, n, spans), n, spans) = x
         /\ \A c, e \in Tuples(spans) :
              Before(c, e) <=> Before(Within(c, n, spans), Within(e, n, spans))
<1>1. DOMAIN spans = 1..n
  BY DEF AreSpans
<1>2. ASSUME NEW d \in 1..n
      PROVE  /\ spans[d][1] \in Int /\ spans[d][2] \in Int
             /\ extents[d] = spans[d][2] - spans[d][1] + 1
  BY DEF AreSpans, Extent
<1>3. ASSUME NEW c \in Tuples(spans)
      PROVE  /\ c \in [1..n -> Int]
             /\ Within(c, n, spans) \in Digits(n, extents)
             /\ c = Placed(Within(c, n, spans), n, spans)
  <2> DEFINE x == Within(c, n, spans)
  <2>1. DOMAIN c = 1..n /\ \A d \in 1..n : c[d] \in spans[d][1]..spans[d][2]
    BY <1>1 DEF Tuples
  <2>2. ASSUME NEW d \in 1..n
        PROVE  c[d] \in Int /\ c[d] - spans[d][1] \in Nat /\ c[d] - spans[d][1] < extents[d]
               /\ c[d] = (c[d] - spans[d][1]) + spans[d][1]
    <3>1. c[d] \in spans[d][1]..spans[d][2]
      BY <2>1
    <3> QED
      BY <1>2, <3>1
  <2>3. c = [d \in 1..n |-> c[d]]
    BY <2>1 DEF Tuples
  <2>4. c \in [1..n -> Int]
    BY <2>2, <2>3
  <2>5. x = [d \in 1..n |-> c[d] - spans[d][1]]
    BY DEF Within
  <2> HIDE DEF x
  <2>6. x \in Digits(n, extents)
    BY <2>2, <2>5 DEF Digits
  <2>7. c = Placed(x, n, spans)
    <3>1. \A d \in 1..n : x[d] + spans[d][1] = c[d]
      BY <2>2, <2>5
    <3> QED
      BY <2>3, <3>1 DEF Placed
  <2> QED
    BY <2>4, <2>6, <2>7 DEF x
<1>4. ASSUME NEW x \in Digits(n, extents)
      PROVE  /\ Placed(x, n, spans) \in Tuples(spans)
             /\ Within(Placed(x, n, spans), n, spans) = x
  <2> DEFINE c == Placed(x, n, spans)
  <2>1. c = [d \in 1..n |-> x[d] + spans[d][1]]
    BY DEF Placed
  <2> HIDE DEF c
  <2>2. ASSUME NEW d \in 1..n
        PROVE  c[d] \in spans[d][1]..spans[d][2] /\ c[d] - spans[d][1] = x[d]
    <3>1. x[d] \in Nat /\ x[d] < extents[d]
      BY DEF Digits
    <3> QED
      BY <1>2, <2>1, <3>1
  <2>3. c \in Tuples(spans)
    <3> DEFINE U == UNION {spans[d][1]..spans[d][2] : d \in DOMAIN spans}
    <3>1. \A d \in 1..n : c[d] \in U
      BY <1>1, <2>2
    <3>2. c \in [DOMAIN spans -> U]
      <4> HIDE DEF U
      <4> QED
        BY <1>1, <2>1, <3>1
    <3> QED
      BY <1>1, <2>2, <3>2 DEF Tuples
  <2>4. Within(c, n, spans) = x
    <3>1. x = [d \in 1..n |-> x[d]]
      BY DEF Digits
    <3> QED
      BY <2>2, <3>1 DEF Within
  <2> QED
    BY <2>3, <2>4 DEF c
<1>5. ASSUME NEW c \in Tuples(spans), NEW e \in Tuples(spans)
      PROVE  Before(c, e) <=> Before(Within(c, n, spans), Within(e, n, spans))
  <2> DEFINE x == Within(c, n, spans)
             y == Within(e, n, spans)
  <2>1. c \in [1..n -> Int] /\ e \in [1..n -> Int]
    BY <1>3
  <2>2. DOMAIN c = 1..n /\ DOMAIN x = 1..n
    BY <2>1 DEF Within
  <2>3. ASSUME NEW d \in 1..n
        PROVE  (c[d] < e[d] <=> x[d] < y[d]) /\ (c[d] = e[d] <=> x[d] = y[d])
    <3>1. x[d] = c[d] - spans[d][1] /\ y[d] = e[d] - spans[d][1]
      BY DEF Within
    <3>2. c[d] \in Int /\ e[d] \in Int
      BY <2>1
    <3> QED
      BY <1>2, <3>1, <3>2
  <2> HIDE DEF x, y
  <2>4. \A d \in 1..n : \A outer \in 1..(d - 1) : outer \in 1..n
    OBVIOUS
  <2>5. Before(c, e) <=> Before(x, y)
    BY <2>2, <2>3, <2>4 DEF Before
  <2> QED
    BY <2>5 DEF x, y
<1> QED
  BY <1>3, <1>4, <1>5

\* The place of coordinates among all that lie in the spans is the number that they stand
\* for, plus one, and there are as many as the product of the extents says.
THEOREM RankIs ==
  ASSUME NEW n \in Nat, NEW spans, NEW extents, AreSpans(n, spans, extents),
         NEW w, IsWeights(n, extents, w)
  PROVE  /\ Cardinality(Tuples(spans)) = w[0]
         /\ \A c \in Tuples(spans) :
              Rank(c, Tuples(spans)) = 1 + Offset(Within(c, n, spans), w)
<1> DEFINE T == Tuples(spans)
           num(c) == Offset(Within(c, n, spans), w)
           at(m) == Placed(DigitsOf(m, n, extents, w), n, spans)
<1>1. extents \in [1..n -> Pos] /\ w[0] \in Nat
  <2>1. 0 \in 0..n
    OBVIOUS
  <2> QED
    BY <2>1 DEF AreSpans, IsWeights, Pos
<1>2. ASSUME NEW c \in T
      PROVE  num(c) \in 0..(w[0] - 1) /\ at(num(c)) = c
  <2>1. Within(c, n, spans) \in Digits(n, extents) /\ c = Placed(Within(c, n, spans), n, spans)
    BY TuplesAre
  <2>2. num(c) \in 0..(w[0] - 1)
    BY <1>1, <2>1, Numbering
  <2>3. Within(c, n, spans) = DigitsOf(num(c), n, extents, w)
    BY <1>1, <2>1, DigitsUnique
  <2> QED
    BY <2>1, <2>2, <2>3
<1>3. ASSUME NEW m \in 0..(w[0] - 1)
      PROVE  at(m) \in T /\ num(at(m)) = m
  <2>1. DigitsOf(m, n, extents, w) \in Digits(n, extents)
        /\ Offset(DigitsOf(m, n, extents, w), w) = m
    BY <1>1, Numbering
  <2> QED
    BY <2>1, TuplesAre
<1>4. ASSUME NEW c \in T, NEW e \in T
      PROVE  Before(e, c) <=> num(e) < num(c)
  <2>1. Within(c, n, spans) \in Digits(n, extents) /\ Within(e, n, spans) \in Digits(n, extents)
    BY TuplesAre
  <2>2. Before(e, c) <=> Before(Within(e, n, spans), Within(c, n, spans))
    BY TuplesAre
  <2>3. Before(Within(e, n, spans), Within(c, n, spans)) => num(e) < num(c)
    BY <1>1, <2>1, Numbering
  <2>4. Before(Within(c, n, spans), Within(e, n, spans)) => num(c) < num(e)
    BY <1>1, <2>1, Numbering
  <2>5. \/ Within(c, n, spans) = Within(e, n, spans)
        \/ Before(Within(e, n, spans), Within(c, n, spans))
        \/ Before(Within(c, n, spans), Within(e, n, spans))
    <3>1. Within(c, n, spans) \in [1..n -> Int] /\ Within(e, n, spans) \in [1..n -> Int]
      BY <2>1 DEF Digits
    <3> QED
      BY <3>1, BeforeTotal
  <2>6. num(c) \in Int /\ num(e) \in Int
    BY <1>2
  <2> HIDE DEF num
  <2>7. Within(c, n, spans) = Within(e, n, spans) => num(c) = num(e)
    BY DEF num
  <2> QED
    BY <2>2, <2>3, <2>4, <2>5, <2>6, <2>7
<1> HIDE DEF T, num, at
<1>5. ASSUME NEW k \in 0..w[0]
      PROVE  Cardinality({c \in T : num(c) < k}) = k
  <2> DEFINE A == {c \in T : num(c) < k}
             f == [m \in 0..(k - 1) |-> at(m)]
  <2>1. ASSUME NEW m \in 0..(k - 1)
        PROVE  at(m) \in A /\ num(at(m)) = m
    <3>1. m \in 0..(w[0] - 1) /\ m < k
      BY <1>1
    <3> QED
      BY <1>3, <3>1
  <2>2. ASSUME NEW c \in A
        PROVE  num(c) \in 0..(k - 1) /\ at(num(c)) = c
    BY <1>1, <1>2
  <2> HIDE DEF A
  <2>3. f \in [0..(k - 1) -> A] /\ DOMAIN f = 0..(k - 1)
    BY <2>1
  <2>4. IsInjective(f)
    BY <2>1, <2>3 DEF IsInjective
  <2>5. \A c \in A : \E m \in 0..(k - 1) : f[m] = c
    BY <2>2
  <2> HIDE DEF f
  <2>6. f \in Bijection(0..(k - 1), A)
    BY <2>3, <2>4, <2>5 DEF Bijection, Injection, Surjection
  <2>7. IsFiniteSet(0..(k - 1)) /\ Cardinality(0..(k - 1)) = k
    <3>1. 0 \in Int /\ k - 1 \in Int /\ k \in Nat
      BY <1>1
    <3>2. /\ IsFiniteSet(0..(k - 1))
          /\ Cardinality(0..(k - 1)) = IF 0 > k - 1 THEN 0 ELSE (k - 1) - 0 + 1
      BY <3>1, FS_Interval
    <3> QED
      BY <3>1, <3>2
  <2>8. Cardinality(A) = k
    BY <2>6, <2>7, FS_Bijection DEF ExistsBijection
  <2> QED
    BY <2>8 DEF A
<1>6. Cardinality(T) = w[0]
  <2>1. {c \in T : num(c) < w[0]} = T
    BY <1>1, <1>2
  <2>2. w[0] \in 0..w[0]
    BY <1>1
  <2> QED
    BY <1>5, <2>1, <2>2
<1>7. ASSUME NEW c \in T
      PROVE  Rank(c, T) = 1 + num(c)
  <2>1. {e \in T : Before(e, c)} = {e \in T : num(e) < num(c)}
    BY <1>4
  <2>2. num(c) \in 0..w[0]
    BY <1>1, <1>2
  <2>3. Cardinality({e \in T : num(e) < num(c)}) = num(c)
    BY <1>5, <2>2
  <2> QED
    BY <2>1, <2>3 DEF Rank
<1> QED
  BY <1>6, <1>7 DEF T, num

\* A sum is what its terms are.
LEMMA OffsetSame ==
  ASSUME NEW n \in Nat, NEW c, DOMAIN c = 1..n, NEW w, NEW v, \A d \in 1..n : v[d] = w[d]
  PROVE  Offset(c, v) = Offset(c, w)
<1>1. PICK o : IsSum(n, c, w, o) /\ o[n] = Offset(c, w)
  BY OffsetIs
<1>2. PICK p : IsSum(n, c, v, p) /\ p[n] = Offset(c, v)
  BY OffsetIs
<1> DEFINE S == {k \in 0..n : o[k] = p[k]}
<1>3. 0 \in S
  BY <1>1, <1>2 DEF IsSum
<1>4. ASSUME NEW k \in 1..n, k - 1 \in S
      PROVE  k \in S
  <2>1. o[k] = o[k - 1] + c[k] * w[k] /\ p[k] = p[k - 1] + c[k] * v[k]
    BY <1>1, <1>2 DEF IsSum
  <2>2. o[k - 1] = p[k - 1] /\ v[k] = w[k] /\ k \in 0..n
    BY <1>4
  <2> QED
    BY <2>1, <2>2
<1> HIDE DEF S
<1>5. \A k \in 0..n : k \in S
  BY <1>3, <1>4, RangeInduct
<1>6. n \in 0..n
  OBVIOUS
<1> QED
  BY <1>1, <1>2, <1>5, <1>6 DEF S

\* The weights of the dimensions kept, with the number of elements in front.
Inner(w, kept, o) == IF o = 0 THEN w[0] ELSE w[kept[o]]

\* The dimensions kept of the first k: those of more than one index, each once, each with
\* the weight it has among all.
KeptOf(k, extents, w, kept) ==
  /\ kept \in Seq(1..k)
  /\ \A o \in 1..Len(kept) : extents[kept[o]] > 1
  /\ \A d \in 1..k : extents[d] > 1 => \E o \in 1..Len(kept) : kept[o] = d
  /\ \A o, p \in 1..Len(kept) : kept[o] = kept[p] => o = p
  /\ \A o \in 1..Len(kept) : Inner(w, kept, o - 1) = Inner(w, kept, o) * extents[kept[o]]
  /\ Inner(w, kept, Len(kept)) = w[k]

LEMMA KeepOne ==
  ASSUME NEW n \in Nat, NEW spans, NEW extents, AreSpans(n, spans, extents),
         NEW w, IsWeights(n, extents, w), NEW k \in 1..n,
         NEW kept, KeptOf(k - 1, extents, w, kept)
  PROVE  KeptOf(k, extents, w, KeepStep(spans, kept, k))
<1> DEFINE m == Len(kept)
           next == Append(kept, k)
<1>1. extents[k] = Extent(spans[k]) /\ extents[k] \in Nat /\ extents[k] >= 1
  BY DEF AreSpans, Pos
<1>2. w[k - 1] = w[k] * extents[k] /\ w[k] \in Nat /\ w[k - 1] \in Nat
  <2>1. k \in 0..n /\ k - 1 \in 0..n
    OBVIOUS
  <2> QED
    BY <2>1 DEF IsWeights, Pos
<1>3. m \in Nat /\ kept \in Seq(1..k) /\ \A o \in 1..m : kept[o] \in 1..(k - 1)
  <2>1. kept \in Seq(1..(k - 1))
    BY DEF KeptOf
  <2> QED
    BY <2>1
<1>4. CASE ~(extents[k] > 1)
  <2>1. extents[k] = 1 /\ KeepStep(spans, kept, k) = kept
    BY <1>1, <1>4 DEF KeepStep
  <2>2. w[k - 1] = w[k]
    BY <1>2, <2>1
  <2>3. \A d \in 1..k : extents[d] > 1 => d \in 1..(k - 1)
    BY <2>1
  <2> QED
    BY <1>3, <2>1, <2>2, <2>3 DEF KeptOf
<1>5. CASE extents[k] > 1
  <2>1. KeepStep(spans, kept, k) = next
    BY <1>1, <1>5 DEF KeepStep
  <2>2. /\ next \in Seq(1..k) /\ Len(next) = m + 1 /\ next[m + 1] = k
        /\ \A o \in 1..m : next[o] = kept[o]
    BY <1>3
  <2> HIDE DEF next
  <2>3. \A o \in 1..(m + 1) : extents[next[o]] > 1
    <3>1. \A o \in 1..(m + 1) : o \in 1..m \/ o = m + 1
      BY <1>3
    <3>2. \A o \in 1..m : extents[kept[o]] > 1
      BY DEF KeptOf
    <3> QED
      BY <1>5, <2>2, <3>1, <3>2
  <2>4. ASSUME NEW d \in 1..k, extents[d] > 1
        PROVE  \E o \in 1..(m + 1) : next[o] = d
    <3>1. CASE d = k
      <4>1. m + 1 \in 1..(m + 1)
        BY <1>3
      <4> QED
        BY <2>2, <3>1, <4>1
    <3>2. CASE d # k
      <4>1. d \in 1..(k - 1)
        BY <3>2
      <4>2. PICK o \in 1..m : kept[o] = d
        BY <2>4, <4>1 DEF KeptOf
      <4>3. o \in 1..(m + 1)
        BY <1>3
      <4> QED
        BY <2>2, <4>2, <4>3
    <3> QED
      BY <3>1, <3>2
  <2>5. ASSUME NEW o \in 1..(m + 1), NEW p \in 1..(m + 1), next[o] = next[p]
        PROVE  o = p
    <3>1. (o \in 1..m \/ o = m + 1) /\ (p \in 1..m \/ p = m + 1)
      BY <1>3
    <3>2. \A q \in 1..m : next[q] \in 1..(k - 1)
      BY <1>3, <2>2
    <3>3. k \notin 1..(k - 1)
      OBVIOUS
    <3>4. \A q, r \in 1..m : kept[q] = kept[r] => q = r
      BY DEF KeptOf
    <3> QED
      BY <2>2, <2>5, <3>1, <3>2, <3>3, <3>4
  <2>6. \A o \in 0..m : Inner(w, next, o) = Inner(w, kept, o)
    <3>1. \A o \in 0..m : o # 0 => o \in 1..m
      OBVIOUS
    <3> QED
      BY <2>2, <3>1 DEF Inner
  <2>7. Inner(w, next, m + 1) = w[k]
    <3>1. m + 1 # 0
      BY <1>3
    <3> QED
      BY <2>2, <3>1 DEF Inner
  <2>8. ASSUME NEW o \in 1..(m + 1)
        PROVE  Inner(w, next, o - 1) = Inner(w, next, o) * extents[next[o]]
    <3>1. CASE o \in 1..m
      <4>1. o \in 0..m /\ o - 1 \in 0..m
        BY <3>1
      <4>2. Inner(w, kept, o - 1) = Inner(w, kept, o) * extents[kept[o]]
        BY <3>1 DEF KeptOf
      <4> QED
        BY <2>2, <2>6, <3>1, <4>1, <4>2
    <3>2. CASE o = m + 1
      <4>1. o - 1 = m /\ m \in 0..m
        BY <1>3, <3>2
      <4>2. Inner(w, kept, m) = w[k - 1]
        BY DEF KeptOf
      <4>3. Inner(w, next, o - 1) = w[k - 1]
        BY <2>6, <4>1, <4>2
      <4> QED
        BY <1>2, <2>2, <2>7, <3>2, <4>3
    <3> QED
      BY <1>3, <3>1, <3>2
  <2>9. KeptOf(k, extents, w, next)
    BY <2>2, <2>3, <2>4, <2>5, <2>7, <2>8 DEF KeptOf
  <2> QED
    BY <2>1, <2>9
<1> QED
  BY <1>4, <1>5

LEMMA KeptAre ==
  ASSUME NEW n \in Nat, NEW spans, NEW extents, AreSpans(n, spans, extents),
         NEW w, IsWeights(n, extents, w)
  PROVE  KeptOf(n, extents, w, Kept(spans))
<1> DEFINE list == [i \in DOMAIN spans |-> i]
           base == <<>>
<1>1. DOMAIN spans = 1..n
  BY DEF AreSpans
<1>2. DOMAIN list = 1..n /\ \A i \in 1..n : list[i] = i
  BY <1>1
<1>3. Kept(spans) = Keeping!Fold(spans, base, list)
  BY DEF Kept, KeepStep, Keeping!Fold, FoldLeftDomain, FoldLeft, MapThenFoldSet,
     Keeping!Greatest, Max
<1>4. base = <<>>
  OBVIOUS
<1> HIDE DEF list, base
<1>5. PICK g : Keeping!Trace(spans, base, list, n, g) /\ g[n] = Keeping!Fold(spans, base, list)
  BY <1>2, Keeping!FoldTrace
<1>6. g[0] = <<>> /\ \A k \in 1..n : g[k] = KeepStep(spans, g[k - 1], k)
  BY <1>2, <1>4, <1>5 DEF Keeping!Trace
<1> DEFINE S == {k \in 0..n : KeptOf(k, extents, w, g[k])}
<1>7. 0 \in S
  <2>1. g[0] \in Seq(1..0) /\ Len(g[0]) = 0 /\ 1..0 = {}
    BY <1>6
  <2>2. Inner(w, g[0], 0) = w[0]
    BY DEF Inner
  <2>3. KeptOf(0, extents, w, g[0])
    BY <2>1, <2>2 DEF KeptOf
  <2>4. 0 \in 0..n
    OBVIOUS
  <2> QED
    BY <2>3, <2>4
<1>8. ASSUME NEW k \in 1..n, k - 1 \in S
      PROVE  k \in S
  <2>1. KeptOf(k, extents, w, KeepStep(spans, g[k - 1], k))
    BY <1>8, KeepOne
  <2>2. k \in 0..n
    OBVIOUS
  <2> QED
    BY <1>6, <2>1, <2>2
<1> HIDE DEF S
<1>9. \A k \in 0..n : k \in S
  BY <1>7, <1>8, RangeInduct
<1>10. n \in 0..n
  OBVIOUS
<1> QED
  BY <1>3, <1>5, <1>9, <1>10 DEF S

\* The dimension of the result that a dimension kept becomes.
OuterOf(kept, d) == CHOOSE o \in DOMAIN kept : kept[o] = d

\* The strides of the selection are the weights of the dimensions kept, its length the
\* number of all.
LEMMA OuterIs ==
  ASSUME NEW n \in Nat, NEW spans, NEW extents, AreSpans(n, spans, extents),
         NEW w, IsWeights(n, extents, w)
  PROVE  /\ Length(SelectedShape(spans)) = w[0]
         /\ \A d \in 1..n : extents[d] > 1 =>
              /\ Strides(SelectedShape(spans))[OuterOf(Kept(spans), d)] = w[d]
              /\ SelectedShape(spans)[OuterOf(Kept(spans), d)] = extents[d]
<1> DEFINE kept == Kept(spans)
           outer == SelectedShape(spans)
           m == Len(kept)
           u == [o \in 0..m |-> Inner(w, kept, o)]
<1>1. KeptOf(n, extents, w, kept)
  BY KeptAre
<1>2. outer = [o \in 1..m |-> Extent(spans[kept[o]])]
  BY DEF SelectedShape
<1> HIDE DEF kept, outer
<1>3. m \in Nat /\ DOMAIN kept = 1..m /\ \A o \in 1..m : kept[o] \in 1..n
  <2>1. kept \in Seq(1..n)
    BY <1>1 DEF KeptOf
  <2> QED
    BY <2>1
<1> HIDE DEF m
<1>4. ASSUME NEW o \in 1..m
      PROVE  outer[o] = extents[kept[o]] /\ outer[o] \in Pos
    BY <1>2, <1>3 DEF AreSpans
<1>5. outer \in [1..m -> Pos] /\ Len(outer) = m
  <2>1. outer = [o \in 1..m |-> outer[o]]
    BY <1>2
  <2>2. outer \in [1..m -> Pos]
    BY <1>4, <2>1
  <2> QED
    BY <1>2, <1>3, <2>2
<1>6. \A o \in 0..m : u[o] = Inner(w, kept, o)
  OBVIOUS
<1>7. u \in [0..m -> Pos]
  <2>1. ASSUME NEW o \in 0..m
        PROVE  Inner(w, kept, o) \in Pos
    <3>1. 0 \in 0..n /\ w \in [0..n -> Pos]
      BY DEF IsWeights
    <3>2. o # 0 => kept[o] \in 0..n
      <4>1. o # 0 => o \in 1..m
        BY <1>3
      <4> QED
        BY <1>3, <4>1
    <3> QED
      BY <3>1, <3>2 DEF Inner
  <2> QED
    BY <2>1
<1> HIDE DEF u
<1>8. IsWeights(m, outer, u)
  <2>1. u[m] = 1
    <3>1. Inner(w, kept, m) = w[n]
      BY <1>1 DEF KeptOf, m
    <3>2. m \in 0..m
      BY <1>3
    <3> QED
      BY <1>6, <3>1, <3>2 DEF IsWeights
  <2>2. ASSUME NEW o \in 1..m
        PROVE  u[o - 1] = u[o] * outer[o]
    <3>1. o \in 0..m /\ o - 1 \in 0..m
      BY <1>3
    <3>2. Inner(w, kept, o - 1) = Inner(w, kept, o) * extents[kept[o]]
      BY <1>1 DEF KeptOf, m
    <3> QED
      BY <1>4, <1>6, <3>1, <3>2
  <2> QED
    BY <1>7, <2>1, <2>2 DEF IsWeights
<1>9. Length(outer) = w[0]
  <2>1. Length(outer) = u[0]
    BY <1>3, <1>5, <1>8, LengthIs
  <2>2. u[0] = w[0]
    <3>1. 0 \in 0..m
      BY <1>3
    <3> QED
      BY <1>6, <3>1 DEF Inner
  <2> QED
    BY <2>1, <2>2
<1>10. Strides(outer) = [o \in 1..m |-> u[o]]
  BY <1>3, <1>5, <1>8, StridesAre
<1>11. ASSUME NEW d \in 1..n, extents[d] > 1
       PROVE  Strides(outer)[OuterOf(kept, d)] = w[d] /\ outer[OuterOf(kept, d)] = extents[d]
  <2> DEFINE o == OuterOf(kept, d)
  <2>1. \E q \in DOMAIN kept : kept[q] = d
    BY <1>1, <1>3, <1>11 DEF KeptOf, m
  <2>2. o \in 1..m /\ kept[o] = d
    BY <1>3, <2>1 DEF OuterOf
  <2> HIDE DEF o
  <2>3. u[o] = w[d]
    <3>1. o \in 0..m /\ o # 0
      BY <1>3, <2>2
    <3> QED
      BY <1>6, <2>2, <3>1 DEF Inner
  <2> QED
    BY <1>4, <1>10, <2>2, <2>3 DEF o
<1> QED
  BY <1>9, <1>11 DEF outer, kept

\* Spans within a shape select, in the order of the data, the elements of the coordinates
\* that lie in them.
THEOREM SelectedIs ==
  ASSUME NEW n \in Nat, NEW shape \in [1..n -> Pos], Len(shape) = n,
         NEW spans, NEW extents, AreSpans(n, spans, extents),
         \A d \in 1..n : spans[d][1] >= 1 /\ spans[d][2] <= shape[d]
  PROVE  SelectsMeant(shape, spans, Selected(shape, spans))
<1> DEFINE outer == SelectedShape(spans)
           kept == Kept(spans)
           full == [d \in DOMAIN shape |-> <<1, shape[d]>>]
           selected == Selected(shape, spans)
           at(m, d) == spans[d][1] - 1
                       + (IF Extent(spans[d]) > 1
                            THEN ((m - 1) \div Strides(outer)[OuterOf(kept, d)])
                                 % outer[OuterOf(kept, d)]
                            ELSE 0)
<1>1. extents \in [1..n -> Pos] /\ \A d \in 1..n : extents[d] = Extent(spans[d])
  BY DEF AreSpans
<1>2. PICK w : IsWeights(n, extents, w)
  BY <1>1, WeightsExist
<1>3. PICK v : IsWeights(n, shape, v)
  BY WeightsExist
<1>4. selected = [m \in 1..Length(outer) |->
                    1 + Offset([d \in 1..n |-> at(m, d)], Strides(shape))]
  BY DEF Selected, OuterOf
<1>5. /\ Length(outer) = w[0]
      /\ \A d \in 1..n : extents[d] > 1 =>
           /\ Strides(outer)[OuterOf(kept, d)] = w[d]
           /\ outer[OuterOf(kept, d)] = extents[d]
  BY <1>2, OuterIs
<1> HIDE DEF outer, kept
<1>6. Strides(shape) = [d \in 1..n |-> v[d]]
  BY <1>3, StridesAre
<1>7. \A x : DOMAIN x = 1..n => Offset(x, Strides(shape)) = Offset(x, v)
  <2>1. \A d \in 1..n : Strides(shape)[d] = v[d]
    BY <1>6
  <2> QED
    BY <2>1, OffsetSame
<1>8. AreSpans(n, full, shape)
  <2>1. DOMAIN shape = 1..n /\ \A d \in 1..n : shape[d] \in Int
    BY DEF Pos
  <2>2. \A d \in 1..n : full[d] = <<1, shape[d]>>
    BY <2>1
  <2>3. full \in [1..n -> Int \X Int]
    BY <2>1
  <2> HIDE DEF full
  <2>4. \A d \in 1..n : Extent(full[d]) = shape[d]
    BY <2>1, <2>2 DEF Extent
  <2>5. shape = [d \in 1..n |-> shape[d]]
    OBVIOUS
  <2> QED
    BY <2>3, <2>4, <2>5 DEF AreSpans
<1>9. \A d \in 1..n : full[d][1] = 1 /\ full[d][2] = shape[d]
  OBVIOUS
<1>10. DOMAIN full = 1..n /\ DOMAIN spans = 1..n
  BY <1>8 DEF AreSpans
<1> HIDE DEF full
<1>11. w[0] \in Nat
  <2>1. 0 \in 0..n
    OBVIOUS
  <2> QED
    BY <1>2, <2>1 DEF IsWeights, Pos
<1>12. Len(selected) = Cardinality(Tuples(spans))
  <2>1. Cardinality(Tuples(spans)) = w[0]
    BY <1>2, RankIs
  <2>2. Len(selected) = w[0]
    <3> HIDE DEF at
    <3>1. DOMAIN selected = 1..w[0]
      BY <1>4, <1>5
    <3> HIDE DEF selected
    <3> QED
      BY <1>11, <3>1
  <2> QED
    BY <2>1, <2>2
<1>13. ASSUME NEW c \in Tuples(spans)
       PROVE  selected[Rank(c, Tuples(spans))] = Rank(c, Tuples(full))
  <2> DEFINE x == Within(c, n, spans)
             k == Offset(x, w)
             coordinates == [d \in 1..n |-> at(1 + k, d)]
  <2>1. Rank(c, Tuples(spans)) = 1 + k
    BY <1>2, RankIs
  <2>2. x \in Digits(n, extents) /\ c \in [1..n -> Int]
    BY TuplesAre
  <2>3. k \in 0..(w[0] - 1) /\ x = DigitsOf(k, n, extents, w)
    BY <1>1, <1>2, <2>2, Numbering, DigitsUnique
  <2>4. c \in Tuples(full)
    <3>1. c \in [1..n -> Int] /\ \A d \in 1..n : c[d] \in spans[d][1]..spans[d][2]
      BY <1>10, <2>2 DEF Tuples
    <3>2. ASSUME NEW d \in 1..n
          PROVE  c[d] \in full[d][1]..full[d][2]
      <4>1. spans[d][1] \in Int /\ spans[d][2] \in Int /\ shape[d] \in Int
        BY DEF AreSpans, Pos
      <4>2. c[d] \in spans[d][1]..spans[d][2]
        BY <3>1
      <4> QED
        BY <1>9, <4>1, <4>2
    <3> DEFINE U == UNION {full[d][1]..full[d][2] : d \in DOMAIN full}
    <3>3. \A d \in 1..n : c[d] \in U
      BY <1>10, <3>2
    <3>4. c \in [DOMAIN full -> U]
      <4> HIDE DEF U
      <4> QED
        BY <1>10, <3>1, <3>3
    <3> QED
      BY <1>10, <3>2, <3>4 DEF Tuples
  <2>5. Rank(c, Tuples(full)) = 1 + Offset(Within(c, n, full), v)
    BY <1>3, <1>8, <2>4, RankIs
  <2>6. ASSUME NEW d \in 1..n
        PROVE  at(1 + k, d) = c[d] - 1
    <3>1. spans[d][1] \in Int /\ c[d] \in Int /\ k \in Int
      BY <2>2, <2>3 DEF AreSpans
    <3>2. x[d] = c[d] - spans[d][1] /\ x[d] \in Nat /\ x[d] < extents[d] /\ extents[d] \in Nat
      BY <1>1, <2>2 DEF Within, Digits, Pos
    <3>3. (1 + k) - 1 = k
      BY <3>1
    <3>4. CASE extents[d] > 1
      <4>1. x[d] = (k \div w[d]) % extents[d]
        BY <2>3 DEF DigitsOf
      <4> HIDE DEF k, x
      <4>2. at(1 + k, d) = spans[d][1] - 1 + x[d]
        BY <1>1, <1>5, <3>3, <3>4, <4>1
      <4> QED
        BY <3>1, <3>2, <4>2
    <3>5. CASE ~(extents[d] > 1)
      <4>1. x[d] = 0
        BY <3>2, <3>5
      <4>2. at(1 + k, d) = spans[d][1] - 1 + 0
        BY <1>1, <3>5
      <4> HIDE DEF at, k, x
      <4> QED
        BY <3>1, <3>2, <4>1, <4>2
    <3> QED
      BY <3>4, <3>5
  <2> HIDE DEF at, k
  <2>7. coordinates = Within(c, n, full)
    BY <1>9, <2>6 DEF Within
  <2>8. selected[1 + k] = 1 + Offset(coordinates, Strides(shape))
    <3>1. 1 + k \in 1..w[0]
      BY <1>11, <2>3
    <3> QED
      BY <1>4, <1>5, <3>1
  <2>9. DOMAIN coordinates = 1..n
    OBVIOUS
  <2> HIDE DEF coordinates, selected
  <2>10. Offset(coordinates, Strides(shape)) = Offset(coordinates, v)
    BY <1>7, <2>9
  <2> QED
    BY <2>1, <2>5, <2>7, <2>8, <2>10
<1> QED
  BY <1>12, <1>13 DEF SelectsMeant, full

\* Clamping leaves nothing outside of the dimension.
LEMMA ClampWithin ==
  ASSUME NEW index \in Int \X Int, NEW dim \in Int, Extent(Clamp(index, dim)) > 0
  PROVE  Clamp(index, dim)[1] >= 1 /\ Clamp(index, dim)[2] <= dim
<1>1. index[1] \in Int /\ index[2] \in Int
  OBVIOUS
<1> DEFINE first == IF index[1] < 0 THEN dim + index[1] + 1 ELSE index[1]
           last == IF index[2] < 0 THEN dim + index[2] + 1 ELSE index[2]
           low == IF first < 1 THEN 1 ELSE first
           high == IF last > dim THEN dim ELSE last
<1>2. first \in Int /\ last \in Int
  BY <1>1
<1>3. Clamp(index, dim) = IF low > high THEN <<1, 0>> ELSE <<low, high>>
  BY DEF Clamp
<1> HIDE DEF first, last
<1>4. low >= 1 /\ high <= dim /\ low \in Int /\ high \in Int
  BY <1>2
<1> HIDE DEF low, high
<1>5. low <= high
  <2>1. SUFFICES ASSUME low > high PROVE FALSE
    BY <1>4
  <2>2. Clamp(index, dim) = <<1, 0>>
    BY <1>3, <2>1
  <2>3. Extent(Clamp(index, dim)) = 0
    BY <2>2 DEF Extent
  <2> QED
    BY <2>3
<1>6. Clamp(index, dim) = <<low, high>>
  BY <1>3, <1>4, <1>5
<1> QED
  BY <1>4, <1>6

\* Any index list of a shape with nothing empty selects what is meant.
LEMMA SelectionIs ==
  ASSUME NEW shape \in Seq(Int), NEW indices \in Seq(Int \X Int),
         \A d \in DOMAIN Spans(shape, indices) : Extent(Spans(shape, indices)[d]) > 0
  PROVE  SelectsMeant(shape, Spans(shape, indices), Selected(shape, Spans(shape, indices)))
<1> DEFINE n == Len(shape)
           spans == Spans(shape, indices)
           extents == [d \in 1..n |-> Extent(spans[d])]
           index(d) == IF d <= Len(indices) THEN indices[d] ELSE <<1, -1>>
<1>1. n \in Nat /\ spans \in [1..n -> Int \X Int]
  BY SpansPairs
<1>2. ASSUME NEW d \in 1..n
      PROVE  /\ Extent(spans[d]) \in Pos
             /\ spans[d][1] >= 1 /\ spans[d][2] <= shape[d] /\ shape[d] \in Pos
  <2>1. spans[d] = Clamp(index(d), shape[d])
    BY DEF Spans
  <2>2. index(d) \in Int \X Int
    <3>1. <<1, -1>> \in Int \X Int
      OBVIOUS
    <3>2. d <= Len(indices) => d \in 1..Len(indices)
      OBVIOUS
    <3> QED
      BY <3>1, <3>2
  <2>3. shape[d] \in Int /\ spans[d][1] \in Int /\ spans[d][2] \in Int
    <3>1. shape[d] \in Int
      OBVIOUS
    <3>2. spans[d] \in Int \X Int
      <4> HIDE DEF spans
      <4> QED
        BY <1>1
    <3> HIDE DEF spans
    <3> QED
      BY <3>1, <3>2
  <2>4. d \in DOMAIN spans
    BY <1>1
  <2>5. Extent(spans[d]) > 0
    BY <2>4
  <2> HIDE DEF index
  <2>6. spans[d][1] >= 1 /\ spans[d][2] <= shape[d]
    BY <2>1, <2>2, <2>3, <2>5, ClampWithin
  <2> HIDE DEF spans
  <2>7. Extent(spans[d]) \in Int /\ shape[d] >= 1
    BY <2>3, <2>5, <2>6 DEF Extent
  <2> QED
    BY <2>3, <2>5, <2>6, <2>7 DEF Pos
<1> HIDE DEF spans
<1>3. AreSpans(n, spans, extents)
  BY <1>1, <1>2 DEF AreSpans
<1>4. shape \in [1..n -> Pos]
  <2>1. shape = [d \in 1..n |-> shape[d]]
    OBVIOUS
  <2> QED
    BY <1>2, <2>1
<1> HIDE DEF n, extents
<1>5. Len(shape) = n
  BY DEF n
<1>6. SelectsMeant(shape, spans, Selected(shape, spans))
  BY <1>1, <1>2, <1>3, <1>4, <1>5, SelectedIs
<1> QED
  BY <1>6 DEF spans

-----------------------------------------------------------------------------
(* The program. *)

\* Every statement leaves tables, lists and shapes of integers in the heap.
LEMMA NextKeeps ==
  ASSUME IsHeap(heap), [Next]_vars
  PROVE  IsHeap(heap)'
<1> USE ContainersAssumption
<1>1. ASSUME NEW r, Holds(r), Execute(r)
      PROVE  IsHeap(heap)'
  BY <1>1 DEF Execute, Holds, IsHeap
<1>2. ASSUME NEW s \in Assigned, Assign(s[1], s[2])
      PROVE  IsHeap(heap)'
  <2>1. Holds(AssignStatement(heap, value, s[1], s[2]))
    BY AssignKeeps
  <2> QED
    BY <1>1, <1>2, <2>1 DEF Assign
<1>3. ASSUME NEW s \in Indexed, AssignIndexed(s[1], s[2], s[3])
      PROVE  IsHeap(heap)'
  <2>1. Holds(IndexStatement(heap, value, s[1], s[2], s[3]))
    BY IndexKeeps
  <2> QED
    BY <1>1, <1>3, <2>1 DEF AssignIndexed
<1>4. ASSUME NEW s \in Deleted, DeleteIndexed(s[1], s[2])
      PROVE  IsHeap(heap)'
  <2>1. Holds(DeleteStatement(heap, value, s[1], s[2]))
    BY DeleteKeeps
  <2> QED
    BY <1>1, <1>4, <2>1 DEF DeleteIndexed
<1>5. ASSUME NEW n \in Name, Delete(n)
      PROVE  IsHeap(heap)'
  <2> DEFINE h == Free(heap, value[n])
             values == [value EXCEPT ![n] = Null]
  <2>1. IsHeap(h)
    BY FreeKeeps
  <2>2. Execute(Unchanged(h, values, TRUE))
    BY <1>5 DEF Delete
  <2> HIDE DEF h, values
  <2>3. Holds(Unchanged(h, values, TRUE))
    BY <2>1, UnchangedHolds
  <2> QED
    BY <1>1, <2>2, <2>3
<1>6. ASSUME NEW n \in Lockable, SetLock(n)
      PROVE  IsHeap(heap)'
  BY <1>6 DEF SetLock, IsHeap
<1>7. CASE UNCHANGED vars
  BY <1>7 DEF vars, IsHeap
<1> QED
  BY <1>2, <1>3, <1>4, <1>5, <1>6, <1>7 DEF Next

\* In every map a program can build, the lookup along the hash chains finds what a search
\* through the entries finds, and no key is there twice: for any keys and hashes, however
\* many cells, and after any statements, the failing ones included.
THEOREM LookupCorrect == Spec => []LookupExact
<1>1. Init => IsHeap(heap)
  BY FS_EmptySet DEF Init, IsHeap
<1>2. IsHeap(heap) /\ [Next]_vars => IsHeap(heap)'
  BY NextKeeps
<1>3. IsHeap(heap) => LookupExact
  <2> SUFFICES ASSUME IsHeap(heap), NEW a \in Cells("map")
               PROVE  /\ WellLinked(heap[a].table) /\ KeysDistinct(heap[a].table)
                      /\ \A k \in Key : FindIndex(heap[a].table, k) = Position(heap[a].table, k)
    BY DEF LookupExact
  <2> DEFINE t == heap[a].table
  <2>1. IsCell(heap[a]) /\ heap[a].type = "map"
    BY DEF Cells, IsHeap
  <2>2. IsTable(t)
    BY <2>1, CellFacts
  <2> HIDE DEF t
  <2>3. WellLinked(t) /\ KeysDistinct(t) /\ \A k \in Key : FindIndex(t, k) = Position(t, k)
    BY <2>2, LookupFinds DEF IsTable
  <2> QED
    BY <2>3 DEF t
<1> QED
  BY <1>1, <1>2, <1>3, PTL DEF Spec
\* The index lists of the program's assignments select from the tensors in use the elements
\* whose coordinates lie in their spans, in the order of the data: for any shapes a program
\* can build, any number of dimensions and any indices, from the end too.
THEOREM SelectionCorrect == Spec => []SelectionMeant
<1>1. Init => IsHeap(heap)
  BY FS_EmptySet DEF Init, IsHeap
<1>2. IsHeap(heap) /\ [Next]_vars => IsHeap(heap)'
  BY NextKeeps
<1>3. IsHeap(heap) => SelectionMeant
  <2> SUFFICES ASSUME IsHeap(heap), NEW a \in Cells("tensor"), NEW s \in Indexed,
                      NEW i \in DOMAIN s[2], s[2][i].form = "indices",
                      \A d \in DOMAIN Spans(heap[a].shape, s[2][i].indices) :
                        Extent(Spans(heap[a].shape, s[2][i].indices)[d]) > 0
               PROVE  SelectsMeant(heap[a].shape, Spans(heap[a].shape, s[2][i].indices),
                                   Selected(heap[a].shape,
                                            Spans(heap[a].shape, s[2][i].indices)))
    BY DEF SelectionMeant
  <2>1. IsCell(heap[a]) /\ heap[a].type = "tensor"
    BY DEF Cells, IsHeap
  <2>2. heap[a].shape \in Seq(Int)
    BY <2>1 DEF IsCell
  <2>3. s[2][i].indices \in Seq(Int \X Int)
    <3>1. IsPath(s[2])
      BY ContainersAssumption
    <3> QED
      BY <3>1, PathStep
  <2> QED
    BY <2>2, <2>3, SelectionIs
<1> QED
  BY <1>1, <1>2, <1>3, PTL DEF Spec

============================================================================
