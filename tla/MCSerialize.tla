---------------------------- MODULE MCSerialize ----------------------------
EXTENDS Serialize

CONSTANTS glob, env1, env2, func1, func2, thr1, name1, name2

MCEnvs == {glob, env1, env2}
MCNames == {name1, name2}
CallEnvs == Permutations({env1, env2})
MCFuncs == {func1, func2}
MCThrs == {thr1}

\* A node of each kind, every attribute given.
Node(k, one, many) ==
  [k |-> k, a |-> [n \in Ast[k].attrs |-> "given"], one |-> one, many |-> many]

Leaf == Node("Identifier", <<>>, <<>>)
Wide == [Node("int", <<>>, <<>>) EXCEPT !.a.value = "wide"]
Lambda == Node("Lambda", [body |-> Nil], <<>>)
Format == Node("FormatString", <<>>, <<<<Leaf>>>>)

Block(stmts) == Node("Block", <<>>, [i \in DOMAIN stmts |-> <<stmts[i]>>])
Continue == Node("ContinueStatement", <<>>, <<>>)
Statements == Block(<<Continue, Node("GotoStatement", [expression |-> Leaf], <<>>)>>)

StmtSlots == {"block", "body", "then_block", "else_block", "try_block", "catch_block"}
Slots(k, e) == [s \in Ast[k].slots |-> IF s \in StmtSlots THEN Statements ELSE e]

\* Two elements in each list, the second with e in it.
List(k, e) ==
  CASE ~Ast[k].list -> <<>>
    [] k = "Block" -> <<<<Continue>>, <<Node("ExpressionStatement", [expression |-> e], <<>>)>>>>
    [] k = "IfStatement" -> <<<<Leaf, Statements>>, <<Leaf, Block(<<>>)>>>>
    [] k = "MapLiteral" -> <<<<Leaf, Leaf>>, <<Leaf, e>>>>
    [] k = "FuncDef" -> <<<<Nil>>, <<e>>>>
    [] OTHER -> <<<<Leaf>>, <<e>>>>

Sample(k, e) == Node(k, Slots(k, e), List(k, e))

MCPlain == Block(<<>>)
MCPrograms ==
  {MCPlain, Sample("Block", Wide)}
    \cup {Block(<<Sample(k, e), Continue>>) : k \in DOMAIN StmtKinds, e \in {Leaf, Lambda, Format}}
    \cup {Block(<<Node("ReturnStatement", [expression |-> Sample(k, e)], <<>>)>>) :
           k \in DOMAIN ExprKinds, e \in {Leaf, Lambda}}
=============================================================================
