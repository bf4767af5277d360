------------------------------ MODULE MapTable ------------------------------
(***************************************************************************)
(* The ordered hash table behind a map (value.c): the entries in insertion *)
(* order, each with the index of the next entry of its bucket, and the     *)
(* buckets with the index of the first.  Indices start at 1 here and 0     *)
(* stands for the code's -1.  A NaN key, which equals no key, is not       *)
(* modelled; the capacity of the entries array cannot be observed.         *)
(***************************************************************************)
EXTENDS Naturals, Sequences, FiniteSetsExt, SequencesExt

CONSTANTS
  Key,         \* the int, float and str values used as keys
  Hash,        \* map_hash_key
  SmallMap,    \* below this many entries a table gets MinBuckets buckets
  MinBuckets   \* (8 and 16 in the code)

ASSUME TableAssumption ==
  /\ Hash \in [Key -> Nat]
  /\ SmallMap \in Nat
  /\ MinBuckets \in Nat \ {0}

NewTable == [items |-> <<>>, next |-> <<>>, buckets |-> <<>>, count |-> 0]

Bucket(k, count) == Hash[k] % count

\* The bucket_count doubles from its minimum until it is needed or more.
RecommendedBuckets(entries) ==
  LET needed == IF entries < SmallMap THEN MinBuckets ELSE 2 * entries
      doubled[i \in 0 .. needed] == IF i = 0 THEN MinBuckets ELSE 2 * doubled[i - 1]
  IN  doubled[Min({i \in 0 .. needed : doubled[i] >= needed})]

\* The last entry of bucket b before index i: the loop of map_rehash links
\* the entries in order, each in front of those of its bucket.
LatestBefore(items, b, count, i) ==
  LET earlier == {j \in 1 .. i - 1 : Bucket(items[j].key, count) = b}
  IN  IF earlier = {} THEN 0 ELSE Max(earlier)

Rehash(items, count) ==
  [items   |-> items,
   next    |-> [i \in 1 .. Len(items) |->
                  LatestBefore(items, Bucket(items[i].key, count), count, i)],
   buckets |-> [b \in 0 .. count - 1 |->
                  LatestBefore(items, b, count, Len(items) + 1)],
   count   |-> count]

\* map_find_index: the chain of the key's bucket.  A table without buckets
\* has no entries either.
FindIndex(t, k) ==
  LET follow[i \in 0 .. Len(t.items)] ==
        IF i = 0 \/ t.items[i].key = k THEN i ELSE follow[t.next[i]]
  IN  IF t.items = <<>> THEN 0 ELSE follow[t.buckets[Bucket(k, t.count)]]

\* Mutant of AppendEntry: the entry is linked, but its bucket still starts
\* with the one before it.
AppendEntryUnlinked(t, k, v) ==
  LET items == Append(t.items, [key |-> k, value |-> v])
      b     == Bucket(k, t.count)
  IN  IF t.count = 0
        THEN Rehash(items, RecommendedBuckets(Len(items)))
      ELSE IF Len(items) * 4 > t.count * 3
        THEN Rehash(items, 2 * t.count)
      ELSE [items |-> items, next |-> Append(t.next, t.buckets[b]),
            buckets |-> t.buckets, count |-> t.count]

\* The table is built, or doubled when more than three quarters full, or
\* the entry becomes the first of its bucket.
AppendEntry(t, k, v) ==
  LET items == Append(t.items, [key |-> k, value |-> v])
      b     == Bucket(k, t.count)
  IN  IF t.count = 0
        THEN Rehash(items, RecommendedBuckets(Len(items)))
      ELSE IF Len(items) * 4 > t.count * 3
        THEN Rehash(items, 2 * t.count)
      ELSE [items |-> items, next |-> Append(t.next, t.buckets[b]),
            buckets |-> [t.buckets EXCEPT ![b] = Len(items)], count |-> t.count]

\* value_map_delete, of a key that is there: the later entries move up and
\* the table is built anew.
DeleteEntry(t, k) ==
  LET items == RemoveAt(t.items, FindIndex(t, k))
  IN  Rehash(items, RecommendedBuckets(Len(items)))

\* The entries of value_copy and value_deep_copy in a table of their own.
CopyTable(items) ==
  IF items = <<>> THEN NewTable
  ELSE Rehash(items, RecommendedBuckets(Len(items)))

SetValue(t, i, v) ==
  [t EXCEPT !.items = [j \in DOMAIN @ |-> IF j = i THEN [@[j] EXCEPT !.value = v] ELSE @[j]]]

Has(t, k) == FindIndex(t, k) # 0
Get(t, k) == t.items[FindIndex(t, k)].value

\* What value_map_set leaves: the entry's value, or a new last entry.
SetEntry(t, k, v) ==
  IF Has(t, k) THEN SetValue(t, FindIndex(t, k), v) ELSE AppendEntry(t, k, v)

(* The chains are those of a table built at once, and looking a key up      *)
(* along them is the same as searching the entries one by one.              *)
WellLinked(t) ==
  IF t.count = 0 THEN t = NewTable ELSE t = Rehash(t.items, t.count)

Position(t, k) ==
  LET at == {i \in 1 .. Len(t.items) : t.items[i].key = k}
  IN  IF at = {} THEN 0 ELSE Min(at)

KeysDistinct(t) ==
  \A i, j \in 1 .. Len(t.items) : t.items[i].key = t.items[j].key => i = j
=============================================================================
