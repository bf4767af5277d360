---------------------------- MODULE MCContainers ----------------------------
(* Two maps and a tensor under a chosen set of statements. *)
EXTENDS Containers

Constant(v) == [form |-> "constant", value |-> v]
Index(n, path) == [form |-> "index", name |-> n, path |-> path]
MapLiteral(entries) == [form |-> "map", entries |-> entries]
Entry(k, item) == [key |-> k, item |-> item]
TensorLiteral(shape, items) == [form |-> "tensor", shape |-> shape, items |-> items]

One == Constant(Scalar("int", 1))
Two == Constant(Scalar("int", 2))
Text == Constant(Scalar("str", 1))
Keys(path) == [s \in DOMAIN path |-> KeyStep(path[s])]

MCKey == {"a", "b", "c"}
MCHash == [a |-> 0, b |-> 1, c |-> 4]
MCName == {"x", "y", "t"}
MCDeclared == [x |-> "map", y |-> "map", t |-> "tensor"]

MCAssigned ==
  {<<"x", MapLiteral(<<>>)>>,
   <<"x", MapLiteral(<<Entry("a", [form |-> "self"])>>)>>,
   <<"x", MapLiteral(<<Entry("a", Index("x", <<>>)),
                      Entry("b", [form |-> "self_key", key |-> "a"]),
                      Entry("a", One), Entry("c", One)>>)>>,
   <<"y", Index("x", <<>>)>>,
   <<"y", [form |-> "deep_copy", name |-> "x"]>>,
   <<"x", Index("t", <<IndexStep(<< <<2, 2>>, <<1, 1>> >>, TRUE)>>)>>,
   <<"t", TensorLiteral(<<2, 3>>, <<One, One, One, One, One, Two>>)>>,
   <<"t", TensorLiteral(<<1, 2>>, <<Index("x", <<>>), Index("y", <<>>)>>)>>}

MCIndexed ==
  {<<"x", Keys(<<"a", "b">>), Index("x", <<>>)>>,
   <<"y", Keys(<<"a">>), Index("x", Keys(<<"a">>))>>,
   <<"y", Keys(<<"a", "c">>), One>>,
   <<"t", <<IndexStep(<< <<1, -1>>, <<-2, -2>> >>, FALSE)>>,
     Index("t", <<IndexStep(<< <<2, 2>>, <<2, 3>> >>, FALSE)>>)>>,
   <<"t", <<IndexStep(<< <<1, 1>>, <<1, 1>> >>, TRUE), KeyStep("b")>>, Index("x", <<>>)>>,
   <<"t", <<IndexStep(<< <<1, 1>>, <<5, 5>> >>, TRUE)>>, Index("t", <<>>)>>}

MCDeleted == {<<"x", <<"a">>>>, <<"y", <<"a", "b">>>>}

(* States that differ in the addresses alone are the same: the cells are    *)
(* numbered in the order in which the names lead to them, the rest after.   *)
RECURSIVE Visit(_, _)
Visit(seen, v) ==
  IF ~IsContainer(v) \/ v.at \in ToSet(seen) THEN seen
  ELSE FoldLeft(Visit, Append(seen, v.at), Elements(heap[v.at]))

Order ==
  LET named == FoldLeft(Visit, <<>>, <<value["x"], value["y"], value["t"]>>)
  IN  named \o SetToSortSeq(DOMAIN heap \ ToSet(named), <)

Renamed(v, order) ==
  IF ~IsContainer(v) THEN v
  ELSE [v EXCEPT !.at = CHOOSE i \in DOMAIN order : order[i] = v.at]

CellView(cell, order) ==
  LET elements == [i \in DOMAIN Elements(cell) |-> Renamed(Elements(cell)[i], order)]
  IN  IF cell.type = "tensor" THEN [cell EXCEPT !.data = elements]
      ELSE [cell EXCEPT !.table.items =
              [i \in DOMAIN @ |-> [@[i] EXCEPT !.value = elements[i]]]]

View == LET order == Order
        IN  <<[i \in DOMAIN order |-> CellView(heap[order[i]], order)],
              [n \in Name |-> Renamed(value[n], order)], locked>>
=============================================================================
