---------------------------- MODULE TensorIndex ----------------------------
(***************************************************************************)
(* Which elements of a tensor an index list selects (value_tensor_get,     *)
(* value_tensor_slice and the tensor branch of assign_index_chain).  A     *)
(* tensor's shape is a sequence of dimensions and its data the elements in *)
(* row-major order.  An index is a pair <<first, last>> counted from 1,    *)
(* negative from the end: n stands for <<n, n>> and # for <<1, -1>>.       *)
(***************************************************************************)
EXTENDS Integers, Sequences, SequencesExt, FiniteSets

\* Mutant of Strides: the dimension itself instead of those inside it.
StridesOutward(shape) ==
  LET n == Len(shape)
      stride[d \in 1 .. n] == IF d = n THEN 1 ELSE stride[d + 1] * shape[d]
  IN  stride

\* compute_strides: the last dimension varies fastest.
Strides(shape) ==
  LET n == Len(shape)
      stride[d \in 1 .. n] == IF d = n THEN 1 ELSE stride[d + 1] * shape[d + 1]
  IN  stride

Length(shape) == FoldLeft(LAMBDA n, dim : n * dim, 1, shape)

\* Both bounds are brought into the dimension; what is left may be empty.
Clamp(index, dim) ==
  LET first == IF index[1] < 0 THEN dim + index[1] + 1 ELSE index[1]
      last  == IF index[2] < 0 THEN dim + index[2] + 1 ELSE index[2]
      low   == IF first < 1 THEN 1 ELSE first
      high  == IF last > dim THEN dim ELSE last
  IN  IF low > high THEN <<1, 0>> ELSE <<low, high>>

\* One span per dimension: those without an index are taken whole.
Spans(shape, indices) ==
  [d \in 1 .. Len(shape) |->
     Clamp(IF d <= Len(indices) THEN indices[d] ELSE <<1, -1>>, shape[d])]

Extent(span) == span[2] - span[1] + 1

\* The dimensions of the result: those with more than one index.
Kept(spans) ==
  FoldLeftDomain(LAMBDA kept, d : IF Extent(spans[d]) > 1 THEN Append(kept, d) ELSE kept,
                 <<>>, spans)

SelectedShape(spans) ==
  LET kept == Kept(spans)
  IN  [o \in 1 .. Len(kept) |-> Extent(spans[kept[o]])]

Offset(coordinates, strides) ==
  FoldLeftDomain(LAMBDA n, d : n + coordinates[d] * strides[d], 0, coordinates)

\* The index in data of each element of the selection, in the order of the
\* result; an empty span is fixed to the first index like one of length 1.
Selected(shape, spans) ==
  LET kept    == Kept(spans)
      outer   == SelectedShape(spans)
      steps   == Strides(outer)
      place(n, o) == ((n - 1) \div steps[o]) % outer[o]
      at(n, d) == spans[d][1] - 1
                  + (IF Extent(spans[d]) > 1
                       THEN place(n, CHOOSE o \in DOMAIN kept : kept[o] = d)
                       ELSE 0)
  IN  [n \in 1 .. Length(outer) |->
         1 + Offset([d \in 1 .. Len(shape) |-> at(n, d)], Strides(shape))]

\* value_tensor_get: fewer indices than dimensions select a block.
Block(shape, coordinates) ==
  LET inner == SubSeq(shape, Len(coordinates) + 1, Len(shape))
      first == Offset(coordinates, SubSeq(Strides(shape), 1, Len(coordinates)))
  IN  [n \in 1 .. Length(inner) |-> first + n]

-----------------------------------------------------------------------------
(* What the arithmetic is meant to compute, without it: the elements whose  *)
(* coordinates lie in the spans, in the order of the data.                 *)

Tuples(spans) ==
  {c \in [DOMAIN spans -> UNION {spans[d][1] .. spans[d][2] : d \in DOMAIN spans}] :
     \A d \in DOMAIN spans : c[d] \in spans[d][1] .. spans[d][2]}

Before(c, e) ==
  \E d \in DOMAIN c : c[d] < e[d] /\ \A outer \in 1 .. d - 1 : c[outer] = e[outer]

Rank(c, tuples) == 1 + Cardinality({e \in tuples : Before(e, c)})

SelectsMeant(shape, spans, selected) ==
  LET all   == Tuples([d \in DOMAIN shape |-> <<1, shape[d]>>])
      meant == Tuples(spans)
  IN  /\ Len(selected) = Cardinality(meant)
      /\ \A c \in meant : selected[Rank(c, meant)] = Rank(c, all)
=============================================================================
