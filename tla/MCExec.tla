------------------------------- MODULE MCExec -------------------------------
(***************************************************************************)
(* Exec of programs of a while, a for or a try in another in another, the  *)
(* innermost over each statement without parts or a call, and of functions *)
(* whose body is a statement, or a loop or a try over one.                 *)
(***************************************************************************)
EXTENDS Exec, Functions

Op(op, n) == [op |-> op, n |-> n, body |-> <<>>, handler |-> <<>>]

With(op, n, body) == [Op(op, n) EXCEPT !.body = body]

Try(body) == [With("try", 1, body) EXCEPT !.handler = <<Op("for", 1), Op("return", 0)>>]

Over(lists) ==
  UNION {{<<With("while", 0, l)>>, <<With("for", 2, l)>>, <<Try(l)>>} : l \in lists}

Simples ==
  {<<Op("expr", 0)>>, <<Op("assign", 0)>>, <<Op("continue", 0)>>, <<Op("return", 0)>>,
   <<Op("goto", 1)>>, <<Op("call", 0)>>, <<Op("call", 1)>>} \cup {<<Op("break", n)>> : n \in 1..3}

MCPrograms ==
  {<<Op("expr", 0), Op("point", 1)>> \o l : l \in Over(Over(Over(Simples)))}
    \cup {<<With("if", 0, <<Op("assign", 0), Op("continue", 0)>>),
            With("for", 3, <<Op("expr", 0)>>), Op("call", 1)>>}

MCBodies ==
  {<<Op("break", 2)>>, <<Op("goto", 1)>>, <<Try(<<Op("expr", 0)>>)>>}
    \cup {<<Op("point", 2), With("for", 1, <<s>>), Op("return", 0)>> :
            s \in {Op("return", 0), Op("expr", 0), Op("goto", 2)}}

\* A jump in a loop to a gotopoint before the loop.
JumpPrograms ==
  {<<Op("point", 1), With("for", n, <<Op("expr", 0), Op("goto", 1)>>)>> : n \in 1..2}

\* The statements of all these lists and of the lists in them.
MCStatements ==
  UNION {Range(l) : l \in MCPrograms \cup MCBodies \cup JumpPrograms \cup Simples
                           \cup Over(Simples) \cup Over(Over(Simples))}
    \cup {Op(op, 0) : op \in {"expr", "assign", "return", "continue"}}
    \cup {Op("for", 1), Op("goto", 1), Op("goto", 2)}

=============================================================================
