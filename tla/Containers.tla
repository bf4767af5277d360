----------------------------- MODULE Containers -----------------------------
(***************************************************************************)
(* Maps and tensors as the statements of a program see them (value.c, and  *)
(* EXPR_TENSOR, EXPR_MAP, EXPR_INDEX, assign_index_chain and del of the    *)
(* interpreter).  A container is a cell of the heap with a reference       *)
(* count.  A copy duplicates one level and shares the containers inside;   *)
(* a statement works on a copy of its name's value and writes that back.   *)
(* The heap is a function of the addresses in use; malloc does not fail.   *)
(*                                                                         *)
(* One thread executes.  Scalars stand for the values of every other type. *)
(* An index list is not longer than the tensor it is applied to has        *)
(* dimensions, and a SELF<...> in a literal has one key: the code does not *)
(* check either.                                                           *)
(***************************************************************************)
EXTENDS MapTable, TensorIndex, FiniteSets

CONSTANTS
  Name,        \* variables of the program
  Declared,    \* the type each is declared with
  MaxLive,     \* bound: cells in use between two statements
  Assigned,    \* the assignments, as <<name, expression>>
  Indexed,     \* the indexed assignments, as <<name, path, expression>>
  Deleted,     \* the indexed deletions, as <<name, keys>>
  Lockable     \* the names lock and unlock are used on

\* An index expression as the parser leaves it: a list of keys and of lists of
\* indices.
IsPath(path) ==
  path \in Seq([form : {"key"}, key : Key]
               \cup [form : {"indices"}, indices : Seq(Int \X Int), literal : BOOLEAN])

IsOperand(e) == e.form = "constant" \/ (e.form = "index" /\ IsPath(e.path))

IsEntry(entry) ==
  entry.key \in Key /\ (entry.item.form \in {"self", "self_key"} \/ IsOperand(entry.item))

IsExpression(e) ==
  \/ IsOperand(e)
  \/ /\ e.form = "map"
     /\ e.entries \in Seq(ToSet(e.entries))
     /\ \A entry \in ToSet(e.entries) : IsEntry(entry)
  \/ /\ e.form = "tensor"
     /\ e.shape \in Seq(Nat)
     /\ e.items \in Seq(ToSet(e.items))
     /\ \A item \in ToSet(e.items) : IsOperand(item)
  \/ e.form = "deep_copy"

ASSUME ContainersAssumption ==
  /\ Declared \in [Name -> {"map", "tensor"}]
  /\ MaxLive \in Nat
  /\ \A s \in Assigned : IsExpression(s[2])
  /\ \A s \in Indexed : IsPath(s[2]) /\ IsExpression(s[3])
  /\ \A s \in Deleted : s[2] \in Seq(Key)

VARIABLES
  heap,        \* the cells
  value,       \* of each name; Null while it has none
  locked       \* names whose binding is frozen

vars == <<heap, value, locked>>

-----------------------------------------------------------------------------
(* Values and cells. *)

Null == [type |-> "null"]
Scalar(type, id) == [type |-> type, id |-> id]

IsContainer(v) == v.type \in {"map", "tensor"}

MapCell(table) == [type |-> "map", refcount |-> 1, table |-> table]
TensorCell(elem, shape, data) ==
  [type |-> "tensor", refcount |-> 1, elem |-> elem, shape |-> shape, data |-> data]

\* What is at an address; nothing refers to one that is not in use.
Unused == [type |-> "unused", refcount |-> 0]
Cell(h, a) == IF a \in DOMAIN h THEN h[a] ELSE Unused

Elements(cell) ==
  CASE cell.type = "map" ->
         [i \in DOMAIN cell.table.items |-> cell.table.items[i].value]
    [] cell.type = "tensor" -> cell.data
    [] cell.type = "unused" -> <<>>

Shape(cell) == IF cell.type = "tensor" THEN cell.shape ELSE <<>>

SetElement(cell, i, v) ==
  IF cell.type = "map" THEN [cell EXCEPT !.table = SetValue(@, i, v)]
  ELSE [cell EXCEPT !.data = [j \in DOMAIN @ |-> IF j = i THEN v ELSE @[j]]]

\* A cell of its own with other elements: malloc, and map_rehash for a map.
Duplicate(cell, elements) ==
  IF cell.type = "map"
    THEN MapCell(CopyTable([i \in DOMAIN elements |->
                              [cell.table.items[i] EXCEPT !.value = elements[i]]]))
    ELSE [cell EXCEPT !.refcount = 1, !.data = elements]

Fresh(h) == Min((1 .. Cardinality(DOMAIN h) + 1) \ DOMAIN h)

With(h, a, cell) == [b \in DOMAIN h \cup {a} |-> IF b = a THEN cell ELSE h[b]]

AllocateAt(h, a, cell) ==
  [heap |-> With(h, a, cell), value |-> [type |-> cell.type, at |-> a]]
Allocate(h, cell) == AllocateAt(h, Fresh(h), cell)

Alias(h, v) == IF IsContainer(v) THEN [h EXCEPT ![v.at].refcount = @ + 1] ELSE h

\* The elements of a copy at address a of v: an entry that is the map itself
\* becomes the copy.
Owned(v, elements, a) ==
  [i \in DOMAIN elements |-> IF elements[i] = v THEN [v EXCEPT !.at = a] ELSE elements[i]]

CopyTo(h, v, a, elements) ==
  [heap |-> FoldLeft(Alias, With(h, a, Duplicate(Cell(h, v.at), elements)), elements),
   value |-> [v EXCEPT !.at = a]]

\* value_copy: one level, the containers inside are shared.
Copy(h, v) ==
  IF IsContainer(v) THEN CopyTo(h, v, Fresh(h), Owned(v, Elements(Cell(h, v.at)), Fresh(h)))
  ELSE [heap |-> h, value |-> v]

\* value_free: the last reference frees the elements with the container.  A
\* round gives up the values it is left, and leaves the elements of the cells
\* that went; one cell goes in every round but the last.  (A cell goes with its
\* last reference, in whatever order they are given up.)
GiveUp(work, v) ==
  CASE ~IsContainer(v) -> work
    [] IsContainer(v) /\ Cell(work.heap, v.at).refcount > 1 ->
         [work EXCEPT !.heap[v.at].refcount = @ - 1]
    [] IsContainer(v) /\ ~(Cell(work.heap, v.at).refcount > 1) ->
         [heap |-> Restrict(work.heap, DOMAIN work.heap \ {v.at}),
          left |-> work.left \o Elements(Cell(work.heap, v.at))]

FreeRound(work, n) ==
  IF work.left = <<>> THEN work
  ELSE FoldLeft(GiveUp, [heap |-> work.heap, left |-> <<>>], work.left)

Rounds(h) == [n \in 1 .. Cardinality(DOMAIN h) + 1 |-> n]

Free(h, v) ==
  IF IsContainer(v) THEN FoldLeft(FreeRound, [heap |-> h, left |-> <<v>>], Rounds(h)).heap
  ELSE h

FreeOriginal(copy, v) == [copy EXCEPT !.heap = Free(@, v)]

\* value_copy of v and value_free of v.
Pass(h, v) == FreeOriginal(Copy(h, v), v)

Collect(done, copy) ==
  [heap |-> copy.heap, elements |-> Append(done.elements, copy.value)]
Nothing(h) == [heap |-> h, elements |-> <<>>]

\* value_deep_copy, of a value that does not contain itself: a round puts copies
\* in the places it is left, which hold the originals, and leaves the places
\* in those copies.
Places(a, elements) == [i \in DOMAIN elements |-> <<a, i>>]

CopyInto(work, place, copy) ==
  [heap |-> [copy.heap EXCEPT ![place[1]] = SetElement(@, place[2], copy.value)],
   left |-> work.left \o Places(copy.value.at, Elements(Cell(copy.heap, copy.value.at)))]

DeepCopyPlace(work, place) ==
  LET v == Elements(Cell(work.heap, place[1]))[place[2]]
      cell == Cell(work.heap, v.at)
  IN  IF IsContainer(v)
        THEN CopyInto(work, place, Allocate(work.heap, Duplicate(cell, Elements(cell))))
        ELSE work

DeepCopyRound(work, n) ==
  IF work.left = <<>> THEN work
  ELSE FoldLeft(DeepCopyPlace, [heap |-> work.heap, left |-> <<>>], work.left)

DeepCopyFrom(h, top) ==
  [heap |-> FoldLeft(DeepCopyRound,
                     [heap |-> top.heap,
                      left |-> Places(top.value.at, Elements(Cell(top.heap, top.value.at)))],
                     Rounds(h)).heap,
   value |-> top.value]

DeepCopy(h, v) ==
  IF IsContainer(v)
    THEN DeepCopyFrom(h, Allocate(h, Duplicate(Cell(h, v.at), Elements(Cell(h, v.at)))))
    ELSE [heap |-> h, value |-> v]

\* The cells a set of cells leads to, itself included.
Pointers(h, a) == {e.at : e \in {f \in ToSet(Elements(Cell(h, a))) : IsContainer(f)}}
Reach(h, from) ==
  LET within[n \in Nat] ==
        IF n = 0 THEN from
        ELSE within[n - 1] \cup UNION {Pointers(h, a) : a \in within[n - 1]}
  IN  within[Cardinality(DOMAIN h)]

Root(v) == IF IsContainer(v) THEN {v.at} ELSE {}
Cyclic(h, from) == \E a \in Reach(h, from) : a \in Reach(h, Pointers(h, a))

-----------------------------------------------------------------------------
(* The operations of a map. *)

Table(h, m) == Cell(h, m.at).table

PutEntry(copy, m, k) == [copy.heap EXCEPT ![m.at].table = SetEntry(@, k, copy.value)]

FreeEntry(h, m, k) ==
  IF Has(Table(h, m), k) THEN Free(h, Get(Table(h, m), k)) ELSE h

\* value_map_set
MapSet(h, m, k, v) == PutEntry(Copy(FreeEntry(h, m, k), v), m, k)

\* value_map_set_self
MapSetSelf(h, m, k) ==
  PutEntry([heap |-> Alias(FreeEntry(h, m, k), m), value |-> m], m, k)

Failed(h) == [heap |-> h, value |-> Null, ok |-> FALSE]
Success(result) == [heap |-> result.heap, value |-> result.value, ok |-> TRUE]

\* value_map_get
MapGet(h, m, k) ==
  IF Has(Table(h, m), k) THEN Success(Copy(h, Get(Table(h, m), k))) ELSE Failed(h)

-----------------------------------------------------------------------------
(* Evaluation of an index expression.  A path is the sequence of keys and  *)
(* index lists, the innermost first.                                       *)

KeyStep(k) == [form |-> "key", key |-> k]
IndexStep(indices, literal) ==
  [form |-> "indices", indices |-> indices, literal |-> literal]

ToTensor(cell, shape, copied) ==
  Allocate(copied.heap, TensorCell(cell.elem, shape, copied.elements))

\* The one element, or a new tensor with copies of the listed elements.
ReadElements(h, cell, shape, list) ==
  IF shape = <<>> THEN Copy(h, Elements(cell)[list[1]])
  ELSE ToTensor(cell, shape,
         FoldLeft(LAMBDA done, i : Collect(done, Copy(done.heap, Elements(cell)[i])),
                  Nothing(h), list))

\* value_tensor_slice
ReadSlice(h, cell, spans) ==
  Success(ReadElements(h, cell, SelectedShape(spans), Selected(Shape(cell), spans)))

\* Literal indices must be in range; value_tensor_get of those that are.
ReadBlock(h, cell, places) ==
  IF \E d \in DOMAIN places : places[d] \notin 1 .. Shape(cell)[d] THEN Failed(h)
  ELSE Success(ReadElements(h, cell, SubSeq(Shape(cell), Len(places) + 1, Len(Shape(cell))),
                            Block(Shape(cell), [d \in DOMAIN places |-> places[d] - 1])))

ReadTensor(h, cell, step) ==
  IF step.literal
    THEN ReadBlock(h, cell, [d \in DOMAIN step.indices |->
                     LET i == step.indices[d][1]
                     IN  IF i < 0 THEN Shape(cell)[d] + i + 1 ELSE i])
    ELSE ReadSlice(h, cell, Spans(Shape(cell), step.indices))

\* One step: the copy it starts from is freed, whether it succeeds or not.
ReadStep(h, v, step) ==
  FreeOriginal(CASE step.form = "key" /\ v.type = "map" -> MapGet(h, v, step.key)
                 [] step.form = "indices" /\ v.type = "tensor" -> ReadTensor(h, Cell(h, v.at), step)
                 [] OTHER -> Failed(h), v)

\* EXPR_IDENT and, with a path, EXPR_INDEX.
Read(h, values, n, path) ==
  IF values[n] = Null THEN Failed(h)
  ELSE FoldLeft(LAMBDA r, step : IF r.ok THEN ReadStep(r.heap, r.value, step) ELSE r,
                Success(Copy(h, values[n])), path)

-----------------------------------------------------------------------------
(* Evaluation of expressions. *)

\* The shared element type of a tensor literal, if there is one.
ElementType(data) ==
  IF \A i \in DOMAIN data : data[i].type = data[1].type THEN data[1].type
  ELSE "unknown"

FailLiteral(result, m) == Failed(Free(result.heap, m))

\* SELF<key> as the value of an entry: read from a copy of the map built so
\* far, copied, set, and both copies freed.
StoreFromSelf(got, m, k, copy) ==
  [heap |-> Free(Free(MapSet(copy.heap, m, k, copy.value), copy.value), got.value),
   value |-> m, ok |-> TRUE]

SetFromSelf(got, m, k) ==
  IF got.ok THEN StoreFromSelf(got, m, k, Copy(got.heap, got.value))
  ELSE FailLiteral(got, m)

GetFromSelf(copy, key) == FreeOriginal(MapGet(copy.heap, copy.value, key), copy.value)

\* A constant, a name and an index expression, which are what the items of
\* literals are here.
Operand(h, values, e) ==
  IF e.form = "constant" THEN [heap |-> h, value |-> e.value, ok |-> TRUE]
  ELSE Read(h, values, e.name, e.path)

SetFromOperand(e, m, k) ==
  IF e.ok THEN [heap |-> Free(MapSet(e.heap, m, k, e.value), e.value), value |-> m, ok |-> TRUE]
  ELSE FailLiteral(e, m)

\* One entry of a map literal; a failure frees the map.
AddEntry(h, m, values, entry) ==
  CASE entry.item.form = "self" ->
         [heap |-> MapSetSelf(h, m, entry.key), value |-> m, ok |-> TRUE]
    [] entry.item.form = "self_key" ->
         SetFromSelf(GetFromSelf(Copy(h, m), entry.item.key), m, entry.key)
    [] OTHER -> SetFromOperand(Operand(h, values, entry.item), m, entry.key)

Items(done) == [heap |-> done.heap, elements |-> done.elements, ok |-> TRUE]

\* One item of a tensor literal; a failure frees those before it.
AddItem(done, e) ==
  IF e.ok THEN Items(Collect(done, Pass(e.heap, e.value)))
  ELSE [heap |-> FoldLeft(Free, e.heap, done.elements), elements |-> <<>>, ok |-> FALSE]

\* value_tensor_from_values: the items are copied and then freed.
FromItems(items, shape) ==
  IF ~items.ok THEN Failed(items.heap)
  ELSE Success(ToTensor([elem |-> ElementType(items.elements)], shape,
         FoldLeft(LAMBDA done, v : Collect(done, Pass(done.heap, v)),
                  Nothing(items.heap), items.elements)))

DeepCopied(arg) ==
  IF arg.ok THEN Success(FreeOriginal(DeepCopy(arg.heap, arg.value), arg.value)) ELSE arg

\* eval_expr of an operand, a literal (of a tensor with its shape and its
\* items in row-major order) and deep_copy of a name.
Evaluate(h, values, e) ==
  CASE e.form \in {"constant", "index"} -> Operand(h, values, e)
    [] e.form = "map" ->
         FoldLeft(LAMBDA done, entry :
                    IF done.ok THEN AddEntry(done.heap, done.value, values, entry) ELSE done,
                  Success(Allocate(h, MapCell(NewTable))), e.entries)
    [] e.form = "tensor" ->
         FromItems(FoldLeft(LAMBDA done, item :
                              IF done.ok THEN AddItem(done, Operand(done.heap, values, item))
                              ELSE done,
                            Items(Nothing(h)), e.items), e.shape)
    [] e.form = "deep_copy" -> DeepCopied(Read(h, values, e.name, <<>>))

-----------------------------------------------------------------------------
(* assign_index_chain.  The walk holds the heap, base_val, and where cur   *)
(* points: <<>> for base_val, <<a, i>> for the i-th element of cell a.     *)

At(walk) == IF walk.cur = <<>> THEN walk.base
            ELSE Elements(Cell(walk.heap, walk.cur[1]))[walk.cur[2]]

Put(walk, copy) ==
  IF walk.cur = <<>> THEN [walk EXCEPT !.heap = copy.heap, !.base = copy.value]
  ELSE [walk EXCEPT !.heap = [copy.heap EXCEPT ![walk.cur[1]] =
                                SetElement(@, walk.cur[2], copy.value)]]

Replace(walk, v) == Put(walk, Copy(Free(walk.heap, At(walk)), v))

Promote(walk) ==
  IF At(walk) = Null THEN Put(walk, Allocate(walk.heap, MapCell(NewTable))) ELSE walk

Error(walk) == [walk EXCEPT !.status = "error"]
Ok(walk) == [walk EXCEPT !.status = "ok"]

\* The type of what is there must be that of the value.
ReplaceTyped(walk, rhs) ==
  IF At(walk).type \in {"null", rhs.type} THEN Ok(Replace(walk, rhs)) ELSE Error(walk)

\* value_map_get_ptr: the entry is made if there is none.
EntryOf(walk, m, k) ==
  IF Has(Table(walk.heap, m), k)
    THEN [walk EXCEPT !.cur = <<m.at, FindIndex(Table(walk.heap, m), k)>>]
    ELSE [walk EXCEPT !.cur = <<m.at, Len(Table(walk.heap, m).items) + 1>>,
                      !.heap[m.at].table = AppendEntry(@, k, Null)]

\* A key: the last one takes the value, the others lead to a map.
WalkKey(walk, k, last, rhs) ==
  IF At(walk).type # "map" THEN Error(walk)
  ELSE IF last THEN ReplaceTyped(EntryOf(walk, At(walk), k), rhs)
  ELSE Promote(EntryOf(walk, At(walk), k))

\* An element takes the value and becomes cur, whatever follows.
WalkElement(walk, t, i, rhs) ==
  IF rhs.type \notin {"tensor", Cell(walk.heap, t).elem} THEN Error(walk)
  ELSE Replace([walk EXCEPT !.cur = <<t, i>>], rhs)

WriteAll(walk, t, list, data) ==
  FoldLeftDomain(LAMBDA done, n : Replace([done EXCEPT !.cur = <<t, list[n]>>], data[n]),
                 walk, list)

\* Mutant of WalkSlice: the elements are written in the opposite order.
WalkSliceReversed(walk, t, list, shape, rhs) ==
  IF \/ rhs.type # "tensor"
     \/ Shape(Cell(walk.heap, rhs.at)) # shape
     \/ Cell(walk.heap, rhs.at).elem # Cell(walk.heap, t).elem
  THEN Error(walk)
  ELSE [WriteAll(walk, t, Reverse(list), Elements(Cell(walk.heap, rhs.at))) EXCEPT
          !.cur = <<>>, !.direct = TRUE]

\* A slice takes the elements of a tensor of its shape and element type; cur
\* is base_val again.
WalkSlice(walk, t, list, shape, rhs) ==
  IF \/ rhs.type # "tensor"
     \/ Shape(Cell(walk.heap, rhs.at)) # shape
     \/ Cell(walk.heap, rhs.at).elem # Cell(walk.heap, t).elem
  THEN Error(walk)
  ELSE [WriteAll(walk, t, list, Elements(Cell(walk.heap, rhs.at))) EXCEPT
          !.cur = <<>>, !.direct = TRUE]

WalkSelection(walk, t, list, shape, rhs) ==
  IF shape = <<>> THEN WalkElement(walk, t, list[1], rhs)
  ELSE WalkSlice(walk, t, list, shape, rhs)

WalkSpans(walk, t, spans, rhs) ==
  WalkSelection(walk, t, Selected(Shape(Cell(walk.heap, t)), spans), SelectedShape(spans), rhs)

WalkIndices(walk, indices, rhs) ==
  IF At(walk).type # "tensor" THEN Error(walk)
  ELSE WalkSpans(walk, At(walk).at, Spans(Shape(Cell(walk.heap, At(walk).at)), indices), rhs)

WalkStep(walk, step, last, rhs) ==
  CASE walk.status # "walk" -> walk
    [] walk.status = "walk" /\ step.form = "key" ->
         WalkKey(Promote(walk), step.key, last, rhs)
    [] walk.status = "walk" /\ step.form = "indices" ->
         WalkIndices(walk, step.indices, rhs)

StartWalk(h, base) ==
  [heap |-> h, base |-> base, cur |-> <<>>, direct |-> FALSE, status |-> "walk"]

\* The end of a chain whose last node is an index list.
Finish(walk, rhs) ==
  CASE walk.status # "walk" -> walk
    [] walk.status = "walk" /\ walk.direct -> Ok(walk)
    [] walk.status = "walk" /\ ~walk.direct -> ReplaceTyped(walk, rhs)

Walk(h, base, path, rhs) ==
  Finish(FoldLeftDomain(LAMBDA walk, s : WalkStep(walk, path[s], s = Len(path), rhs),
                        StartWalk(h, base), path), rhs)

-----------------------------------------------------------------------------
(* Statements.  Each is an operator from the heap and the values of the    *)
(* names to those after it, and whether it succeeded.                      *)

Unchanged(h, values, ok) == [heap |-> h, values |-> values, ok |-> ok]

Bound(copy, values, n) ==
  [heap |-> copy.heap, values |-> [values EXCEPT ![n] = copy.value], ok |-> TRUE]

\* env_assign of a value that the caller frees afterwards.
Bind(h, values, n, v) ==
  IF n \in locked \/ v.type # Declared[n] THEN Unchanged(h, values, FALSE)
  ELSE Bound(Copy(Free(h, values[n]), v), values, n)

BindAndFree(h, values, n, v) == FreeOriginal(Bind(h, values, n, v), v)

\* STMT_ASSIGN of an expression to a name.
AssignValue(rhs, values, n) ==
  IF rhs.ok THEN BindAndFree(rhs.heap, values, n, rhs.value)
  ELSE Unchanged(rhs.heap, values, FALSE)

AssignStatement(h, values, n, e) == AssignValue(Evaluate(h, values, e), values, n)

\* Mutant of WriteBack: the copy of the base is not freed on an error.
WriteBackKeepsBase(walk, values, n) ==
  IF walk.status = "error" THEN Unchanged(walk.heap, values, FALSE)
  ELSE BindAndFree(walk.heap, values, n, walk.base)

\* The end of assign_index_chain: the base is bound again on success.
WriteBack(walk, values, n) ==
  IF walk.status = "error" THEN Unchanged(Free(walk.heap, walk.base), values, FALSE)
  ELSE BindAndFree(walk.heap, values, n, walk.base)

\* A name without a value is given an empty map, of which the walk changes
\* another copy.
AssignToNew(bound, n, base, path, rhs) ==
  IF bound.ok THEN WriteBack(Walk(bound.heap, base, path, rhs), bound.values, n)
  ELSE FreeOriginal(bound, base)

StartNew(new, values, n, path, rhs) ==
  AssignToNew(Bind(new.heap, values, n, new.value), n, new.value, path, rhs)

AssignToCopy(base, values, n, path, rhs) ==
  WriteBack(Walk(base.heap, base.value, path, rhs), values, n)

AssignChain(h, values, n, path, rhs) ==
  IF values[n] = Null THEN StartNew(Allocate(h, MapCell(NewTable)), values, n, path, rhs)
  ELSE AssignToCopy(Copy(h, values[n]), values, n, path, rhs)

\* STMT_ASSIGN to an index expression.
AssignIndex(rhs, values, n, path) ==
  IF rhs.ok
    THEN FreeOriginal(AssignChain(rhs.heap, values, n, path, rhs.value), rhs.value)
    ELSE Unchanged(rhs.heap, values, FALSE)

IndexStatement(h, values, n, path, e) == AssignIndex(Evaluate(h, values, e), values, n, path)

\* value_map_delete of a key that is there.
MapDelete(h, m, k) ==
  [Free(h, Get(Table(h, m), k)) EXCEPT ![m.at].table = DeleteEntry(@, k)]

\* A key of the index expression del is given: a missing one ends the
\* deletion, with nothing to write back unless it is the last.
DeleteStep(walk, k, last) ==
  CASE walk.status # "walk" -> walk
    [] walk.status = "walk" /\ At(walk).type # "map" -> Error(walk)
    [] walk.status = "walk" /\ At(walk).type = "map" ->
         IF ~Has(Table(walk.heap, At(walk)), k)
           THEN [walk EXCEPT !.status = IF last THEN "ok" ELSE "missing"]
         ELSE IF ~last THEN EntryOf(walk, At(walk), k)
         ELSE Ok([walk EXCEPT !.heap = MapDelete(@, At(walk), k)])

DeleteWalk(base, keys) ==
  FoldLeftDomain(LAMBDA walk, s : DeleteStep(walk, keys[s], s = Len(keys)),
                 StartWalk(base.heap, base.value), keys)

FinishDelete(walk, values, n) ==
  IF walk.status = "missing" THEN Unchanged(Free(walk.heap, walk.base), values, TRUE)
  ELSE WriteBack(walk, values, n)

\* builtin_del of an index expression
DeleteStatement(h, values, n, keys) ==
  IF values[n] = Null THEN Unchanged(h, values, FALSE)
  ELSE FinishDelete(DeleteWalk(Copy(h, values[n]), keys), values, n)

-----------------------------------------------------------------------------
(* The program: any sequence of statements. *)

Init ==
  /\ heap = <<>>
  /\ value = [n \in Name |-> Null]
  /\ locked = {}

Execute(result) ==
  /\ Cardinality(DOMAIN result.heap) <= MaxLive
  /\ heap' = result.heap
  /\ value' = result.values
  /\ UNCHANGED locked

\* A deep copy of a value that contains itself does not return.
Assign(n, e) ==
  /\ e.form = "deep_copy" => ~Cyclic(heap, Root(value[e.name]))
  /\ Execute(AssignStatement(heap, value, n, e))

AssignIndexed(n, path, e) == Execute(IndexStatement(heap, value, n, path, e))

DeleteIndexed(n, keys) == Execute(DeleteStatement(heap, value, n, keys))

\* del of a name
Delete(n) ==
  /\ value[n] # Null
  /\ n \notin locked
  /\ Execute(Unchanged(Free(heap, value[n]), [value EXCEPT ![n] = Null], TRUE))

\* lock and unlock
SetLock(n) ==
  /\ value[n] # Null
  /\ locked' = IF n \in locked THEN locked \ {n} ELSE locked \cup {n}
  /\ UNCHANGED <<heap, value>>

Next ==
  \/ \E s \in Assigned : Assign(s[1], s[2])
  \/ \E s \in Indexed : AssignIndexed(s[1], s[2], s[3])
  \/ \E s \in Deleted : DeleteIndexed(s[1], s[2])
  \/ \E n \in Name : Delete(n)
  \/ \E n \in Lockable : SetLock(n)

Spec == Init /\ [][Next]_vars

-----------------------------------------------------------------------------
(* Properties. *)

Cells(kind) == {a \in DOMAIN heap : heap[a].type = kind}
Roots == UNION {Root(value[n]) : n \in Name}

\* The variables hold values of the declared types, the cells containers.
TypeOK ==
  /\ \A n \in Name : value[n] = Null \/ value[n].type = Declared[n]
  /\ \A n \in Name : \A a \in Root(value[n]) : Cell(heap, a).type = value[n].type
  /\ \A a \in Cells("tensor") : Len(heap[a].data) = Length(heap[a].shape)
  /\ \A a \in DOMAIN heap : \A e \in ToSet(Elements(heap[a])) :
       IsContainer(e) => Cell(heap, e.at).type = e.type
  /\ locked \subseteq Name

\* References to cell a: names whose value it is, elements that are it.
References(a) ==
  Cardinality({n \in Name : Root(value[n]) = {a}})
  + MapThenSumSet(LAMBDA b : Cardinality({i \in DOMAIN Elements(heap[b]) :
                                            Root(Elements(heap[b])[i]) = {a}}),
                  DOMAIN heap)

\* Between two statements the count of every cell is the number of names and
\* elements that refer to it (value_copy, value_alias and value_free along
\* every path, the failing ones included).
RefcountExact == \A a \in DOMAIN heap : heap[a].refcount = References(a)

\* What is in use and no name leads to hangs from a container that contains
\* itself: statements leak nothing else.
GarbageIsCyclic ==
  \A a \in DOMAIN heap \ Reach(heap, Roots) :
    \E b \in DOMAIN heap \ Reach(heap, Roots) :
      Cyclic(heap, {b}) /\ a \in Reach(heap, {b})

\* Between two statements, whichever of them failed half-way: references lead to
\* containers of their type, counts are exact, and only cycles are leaked.
HeapExact == TypeOK /\ RefcountExact /\ GarbageIsCyclic

\* In every map the lookup along the hash chains finds what a search through
\* the entries finds, after every sequence of insertions with and without
\* rehash, deletions and copies, and no key is there twice.
LookupExact ==
  \A a \in Cells("map") :
    /\ WellLinked(heap[a].table)
    /\ KeysDistinct(heap[a].table)
    /\ \A k \in Key : FindIndex(heap[a].table, k) = Position(heap[a].table, k)

\* Values that a program cannot tell apart without changing them: the same
\* scalar, or containers with the same elements but for themselves.
Alike(h, v, w) ==
  \/ v = w
  \/ /\ IsContainer(v) /\ v.type = w.type
     /\ LET own(c) == [i \in DOMAIN Elements(h[c.at]) |->
                         IF Elements(h[c.at])[i] = c THEN "self" ELSE Elements(h[c.at])[i]]
        IN  own(v) = own(w)
     /\ v.type = "map" => \A i \in DOMAIN h[v.at].table.items :
          h[v.at].table.items[i].key = h[w.at].table.items[i].key

\* The index lists of a path as expressions that are not literals.
Computed(path) ==
  [s \in DOMAIN path |-> IF path[s].form = "key" THEN path[s]
                         ELSE [path[s] EXCEPT !.literal = FALSE]]

ReadAs(read, v) == read.ok /\ Alike(read.heap, read.value, v)

ReadAfter(s, rhs, after) ==
  rhs.ok /\ after.ok /\ ~Cyclic(after.heap, Root(after.values[s[1]]))
    => ReadAs(Read(after.heap, after.values, s[1], Computed(s[2])), rhs.value)

ReadBackOf(s, rhs) ==
  ReadAfter(s, rhs, AssignChain(rhs.heap, value, s[1], s[2], rhs.value))

\* After an indexed assignment that succeeds the same path reads the value
\* assigned, through maps made on demand, shared maps, elements and slices.
\* (A path through a container that contains itself may cut itself off.)
ReadBack == \A s \in Indexed : ReadBackOf(s, Evaluate(heap, value, s[3]))

\* The index arithmetic of the tensors in use selects the elements whose
\* coordinates lie in the spans, in the order of the data (no span empty).
SelectionMeant ==
  \A a \in Cells("tensor") : \A s \in Indexed : \A i \in DOMAIN s[2] :
    s[2][i].form = "indices" =>
      LET shape == heap[a].shape
          spans == Spans(shape, s[2][i].indices)
      IN  (\A d \in DOMAIN spans : Extent(spans[d]) > 0)
            => SelectsMeant(shape, spans, Selected(shape, spans))

=============================================================================
