---- MODULE SerAst ----
(***************************************************************************)
(* How serialize writes the syntax tree of a function body or of a thread's *)
(* block, and how unserialize reads it (src/src/builtins.c).  Writer and    *)
(* reader are two long lists of node kinds kept in step by hand; here each  *)
(* is a table, and one operator walks the tree under it.  A node is         *)
(*   [k, a, one, many]:  its kind, its own attributes, its single children  *)
(* by slot, and the elements of its list, each a tuple of children.         *)
(***************************************************************************)
EXTENDS Integers, Sequences, SequencesExt, TLC

Nil == [k |-> "nil"]  \* NULL in C, null in the text

Kind(attrs, slots, list) == [attrs |-> attrs, slots |-> slots, list |-> list]

-----------------------------------------------------------------------------
(* The nodes of the syntax tree (ast.h). *)

ExprKinds ==
  [bool |-> Kind({"value"}, {}, FALSE),
   int |-> Kind({"value", "base"}, {}, FALSE),
   float |-> Kind({"value", "base"}, {}, FALSE),
   str |-> Kind({"value"}, {}, FALSE),
   TensorLiteral |-> Kind({}, {}, TRUE),
   MapLiteral |-> Kind({}, {}, TRUE),
   Identifier |-> Kind({"name"}, {}, FALSE),
   TypedIdentifier |-> Kind({"decl_type", "decl_base", "schema", "name"}, {}, FALSE),
   PointerExpression |-> Kind({"target"}, {}, FALSE),
   CallExpression |-> Kind({"kw_names"}, {"callee"}, TRUE),
   AsyncExpression |-> Kind({}, {"block"}, FALSE),
   IndexExpression |-> Kind({"is_map"}, {"base"}, TRUE),
   Range |-> Kind({}, {"lo", "start"}, FALSE),
   Star |-> Kind({}, {}, FALSE),
   Lambda |-> Kind({"params", "return_type", "return_base", "return_schema"}, {"body"}, FALSE),
   FormatString |-> Kind({}, {}, TRUE)]

StmtKinds ==
  [Block |-> Kind({}, {}, TRUE),
   Assignment |-> Kind({"target", "declared_type", "decl_base", "schema"}, {"expression"}, FALSE),
   TensorSetStatement |-> Kind({}, {"target", "value"}, FALSE),
   Declaration |-> Kind({"name", "declared_type", "decl_base", "schema"}, {}, FALSE),
   ExpressionStatement |-> Kind({}, {"expression"}, FALSE),
   IfStatement |-> Kind({}, {"condition", "then_block", "else_block"}, TRUE),
   WhileStatement |-> Kind({}, {"condition", "block"}, FALSE),
   ForStatement |-> Kind({"counter"}, {"target_expr", "block"}, FALSE),
   ParForStatement |-> Kind({"counter"}, {"target_expr", "block"}, FALSE),
   FuncDef |-> Kind({"name", "params", "param_bases", "param_schemas", "return_type",
                     "return_base", "return_schema"}, {"body"}, TRUE),
   ReturnStatement |-> Kind({}, {"expression"}, FALSE),
   PopStatement |-> Kind({}, {"expression"}, FALSE),
   BreakStatement |-> Kind({}, {"expression"}, FALSE),
   GotoStatement |-> Kind({}, {"expression"}, FALSE),
   GotopointStatement |-> Kind({}, {"expression"}, FALSE),
   ContinueStatement |-> Kind({}, {}, FALSE),
   AsyncStatement |-> Kind({}, {"block"}, FALSE),
   ThrStatement |-> Kind({"symbol"}, {"block"}, FALSE),
   TryStatement |-> Kind({"catch_symbol"}, {"try_block", "catch_block"}, FALSE)]

Ast == ExprKinds @@ StmtKinds

-----------------------------------------------------------------------------
(* The writer.  A lambda, a format string and any other kind it has no case *)
(* for become null.                                                         *)

WrittenLeaves ==
  [bool |-> Kind({"value"}, {}, FALSE),
   int |-> Kind({"value", "base"}, {}, FALSE),
   float |-> Kind({"value", "base"}, {}, FALSE),
   str |-> Kind({"value"}, {}, FALSE),
   TensorLiteral |-> Kind({}, {}, TRUE),
   MapLiteral |-> Kind({}, {}, TRUE),
   Identifier |-> Kind({"name"}, {}, FALSE),
   TypedIdentifier |-> Kind({"decl_type", "name"}, {}, FALSE)]

WrittenExprs ==
  [PointerExpression |-> Kind({"target"}, {}, FALSE),
   CallExpression |-> Kind({"kw_names"}, {"callee"}, TRUE),
   AsyncExpression |-> Kind({}, {"block"}, FALSE),
   IndexExpression |-> Kind({"is_map"}, {"base"}, TRUE),
   Range |-> Kind({}, {"lo", "start"}, FALSE),
   Star |-> Kind({}, {}, FALSE)]

WrittenControl ==
  [Block |-> Kind({}, {}, TRUE),
   Assignment |-> Kind({"target", "declared_type"}, {"expression"}, FALSE),
   TensorSetStatement |-> Kind({}, {"target", "value"}, FALSE),
   Declaration |-> Kind({"name", "declared_type"}, {}, FALSE),
   ExpressionStatement |-> Kind({}, {"expression"}, FALSE),
   IfStatement |-> Kind({}, {"condition", "then_block", "else_block"}, TRUE),
   WhileStatement |-> Kind({}, {"condition", "block"}, FALSE),
   ForStatement |-> Kind({"counter"}, {"target_expr", "block"}, FALSE)]

WrittenDefs ==
  [ParForStatement |-> Kind({"counter"}, {"target_expr", "block"}, FALSE),
   FuncDef |-> Kind({"name", "params", "return_type"}, {"body"}, TRUE)]

WrittenStmts ==
  [ReturnStatement |-> Kind({}, {"expression"}, FALSE),
   PopStatement |-> Kind({}, {"expression"}, FALSE),
   BreakStatement |-> Kind({}, {"expression"}, FALSE),
   GotoStatement |-> Kind({}, {"expression"}, FALSE),
   GotopointStatement |-> Kind({}, {"expression"}, FALSE),
   ContinueStatement |-> Kind({}, {}, FALSE),
   AsyncStatement |-> Kind({}, {"block"}, FALSE),
   ThrStatement |-> Kind({"symbol"}, {"block"}, FALSE),
   TryStatement |-> Kind({"catch_symbol"}, {"try_block", "catch_block"}, FALSE)]

\* Mutant of Written: a statement the parser has and the writer lacks.
WrittenNoGotopoint ==
  LET all == WrittenLeaves @@ WrittenExprs @@ WrittenControl @@ WrittenDefs @@ WrittenStmts
  IN [k \in (DOMAIN all) \ {"GotopointStatement"} |-> all[k]]

Written == WrittenLeaves @@ WrittenExprs @@ WrittenControl @@ WrittenDefs @@ WrittenStmts

RECURSIVE SerNode(_)
SerNode(x) ==
  IF x = Nil \/ x.k \notin DOMAIN Written THEN Nil
  ELSE LET w == Written[x.k]
       IN [k |-> x.k,
           a |-> [f \in w.attrs |-> x.a[f]],
           one |-> [s \in w.slots |-> SerNode(x.one[s])],
           many |-> IF w.list
                    THEN [i \in DOMAIN x.many |->
                           [j \in DOMAIN x.many[i] |-> SerNode(x.many[i][j])]]
                    ELSE <<>>]

-----------------------------------------------------------------------------
(* The reader.  Of a list it takes every element, or only those none of     *)
(* whose children has been lost.                                            *)

ReadLiterals ==
  [bool |-> Kind({"value"}, {}, "none"),
   int |-> Kind({"value", "base"}, {}, "none"),
   float |-> Kind({"value", "base"}, {}, "none"),
   str |-> Kind({"value"}, {}, "none")]

ReadExprs ==
  [TensorLiteral |-> Kind({}, {}, "present"),
   MapLiteral |-> Kind({}, {}, "present"),
   Identifier |-> Kind({"name"}, {}, "none"),
   TypedIdentifier |-> Kind({"decl_type", "name"}, {}, "none"),
   PointerExpression |-> Kind({"target"}, {}, "none"),
   CallExpression |-> Kind({"kw_names"}, {"callee"}, "all"),
   AsyncExpression |-> Kind({}, {"block"}, "none"),
   IndexExpression |-> Kind({"is_map"}, {"base"}, "present"),
   Range |-> Kind({}, {"lo", "start"}, "none"),
   Star |-> Kind({}, {}, "none")]

ReadControl ==
  [Block |-> Kind({}, {}, "present"),
   Assignment |-> Kind({"target", "declared_type", "decl_base"}, {"expression"}, "none"),
   Declaration |-> Kind({"name", "declared_type", "decl_base"}, {}, "none"),
   ExpressionStatement |-> Kind({}, {"expression"}, "none"),
   IfStatement |-> Kind({}, {"condition", "then_block", "else_block"}, "present"),
   WhileStatement |-> Kind({}, {"condition", "block"}, "none"),
   ForStatement |-> Kind({"counter"}, {"target_expr", "block"}, "none"),
   ParForStatement |-> Kind({"counter"}, {"target_expr", "block"}, "none")]

ReadStmts ==
  [FuncDef |-> Kind({"name", "params", "param_bases", "return_type", "return_base"},
                    {"body"}, "all"),
   ReturnStatement |-> Kind({}, {"expression"}, "none"),
   PopStatement |-> Kind({}, {"expression"}, "none"),
   BreakStatement |-> Kind({}, {"expression"}, "none"),
   GotoStatement |-> Kind({}, {"expression"}, "none"),
   GotopointStatement |-> Kind({}, {"expression"}, "none"),
   ContinueStatement |-> Kind({}, {}, "none"),
   AsyncStatement |-> Kind({}, {"block"}, "none"),
   ThrStatement |-> Kind({"symbol"}, {"block"}, "none"),
   TryStatement |-> Kind({"catch_symbol"}, {"try_block", "catch_block"}, "none"),
   TensorSetStatement |-> Kind({}, {"target", "value"}, "none")]

ReadKinds == ReadLiterals @@ ReadExprs @@ ReadControl @@ ReadStmts

\* A number in the text is read as a double, also the value of an int literal:
\* one of more than 53 bits comes back as another number.
ThroughDouble(k, f, v) == IF k = "int" /\ f = "value" /\ v = "wide" THEN "rounded" ELSE v

Absent == "absent"  \* what the reader puts where the text has nothing

RECURSIVE DeserNode(_)
DeserNode(t) ==
  IF t = Nil \/ t.k \notin DOMAIN ReadKinds THEN Nil
  ELSE LET r == ReadKinds[t.k]
           items == [i \in DOMAIN t.many |->
                      [j \in DOMAIN t.many[i] |-> DeserNode(t.many[i][j])]]
           Present(item) == \A j \in DOMAIN item : item[j] # Nil
       IN [k |-> t.k,
           a |-> [f \in Ast[t.k].attrs |->
                   IF f \in r.attrs \cap DOMAIN t.a THEN ThroughDouble(t.k, f, t.a[f])
                   ELSE Absent],
           one |-> [s \in Ast[t.k].slots |->
                     IF s \in r.slots \cap DOMAIN t.one THEN DeserNode(t.one[s]) ELSE Nil],
           many |-> CASE r.list = "all" -> items
                      [] r.list = "present" -> SelectSeq(items, Present)
                      [] OTHER -> <<>>]

-----------------------------------------------------------------------------
(* What a reader of the text may count on. *)

\* Named bases and map schemas have no place in the text.
Untold == {"decl_base", "schema", "param_bases", "param_schemas", "return_base", "return_schema"}

\* No lambda and no format string anywhere, and no integer wider than a double.
RECURSIVE Tellable(_)
Tellable(x) ==
  \/ x = Nil
  \/ /\ x.k \notin {"Lambda", "FormatString"}
     /\ \A f \in DOMAIN x.a : x.a[f] # "wide"
     /\ \A s \in DOMAIN x.one : Tellable(x.one[s])
     /\ \A i \in DOMAIN x.many : \A j \in DOMAIN x.many[i] : Tellable(x.many[i][j])

RECURSIVE Told(_)
Told(x) ==
  IF x = Nil THEN Nil
  ELSE [x EXCEPT !.a = [f \in DOMAIN x.a |-> IF f \in Untold THEN Absent ELSE x.a[f]],
                 !.one = [s \in DOMAIN x.one |-> Told(x.one[s])],
                 !.many = [i \in DOMAIN x.many |->
                            [j \in DOMAIN x.many[i] |-> Told(x.many[i][j])]]]

\* The statements of a tree and of its blocks, by their kinds.
RECURSIVE Outline(_)
Outline(x) ==
  IF x = Nil \/ x.k \notin DOMAIN StmtKinds THEN <<>>
  ELSE <<x.k,
         [s \in {s \in DOMAIN x.one : x.one[s] # Nil /\ x.one[s].k \in DOMAIN StmtKinds} |->
            Outline(x.one[s])],
         IF x.k = "Block" THEN [i \in DOMAIN x.many |-> Outline(x.many[i][1])] ELSE <<>>>>
====
