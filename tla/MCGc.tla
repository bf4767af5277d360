---- MODULE MCGc ----
EXTENDS Gc

MCQualified(n) == "m." \o n

Ln(op, name, reads, last) ==
  [op |-> op, name |-> name, reads |-> reads, last |-> last, value |-> IF name = "flag" THEN "off" ELSE "v"]
Decl(n) == Ln("decl", n, {}, 0)
Do(n) == Ln("use", "", {n}, 0)
Set(n, m) == Ln("set", n, {m}, 0)
Col == Ln("collect", "", {}, 0)
While(n, last) == Ln("while", "", n, last)
If(last) == Ln("if", "", {}, last)
Func(n, last) == Ln("func", n, {}, last)
Go(n) == Ln("call", n, {}, 0)
Hold(k, f) == Ln("decl", k, {f}, 0)
Ptr(p, x) == Ln("point", p, {x}, 0)
Goto(i) == Ln("goto", "", {}, i)

Grow(line, p, in) ==
  IF line.last >= p \/ (in /\ line.last = p - 1) THEN [line EXCEPT !.last = @ + 1] ELSE line

\* Line `new` put before line p; a block that ends just before takes it in or not.
Insert(text, p, in, new) ==
  LET g == [i \in DOMAIN text |-> Grow(text[i], p, in /\ text[i].op # "goto")]
  IN SubSeq(g, 1, p - 1) \o <<new>> \o SubSeq(g, p, Len(g))

Texts == {
  <<Decl("x"), Decl("y"), While({"y"}, 5), Do("x"), Set("y", "y"), Do("y")>>,
  <<Decl("x"), While({}, 5), While({}, 4), Do("x"), Decl("y")>>,
  <<Decl("x"), Func("f", 3), Do("x"), While({}, 5), Go("f")>>,
  <<Decl("x"), Func("g", 3), Do("x"), Func("f", 5), Go("g"), Go("f"), Go("f")>>,
  <<Decl("y"), Func("f", 6), Decl("x"), If(5), Do("x"), Do("y"), Go("f"), Go("f")>>,
  <<Decl("x"), Ptr("p", "x"), Decl("y"), Do("p")>>,
  <<Decl("x"), Func("g", 3), Do("y"), Func("f", 6), Do("x"), Go("g"), Decl("y"), Go("f"), Do("y")>> }

Odd == {
  <<Decl("x"), Func("f", 3), Do("x"), Hold("k", "f"), Go("k")>>,
  <<Decl("x"), Do("x"), Goto(2)>>,
  <<Decl("x"), Func("g", 3), Decl("y"), Func("f", 7), Ptr("p", "x"), Go("g"), Do("p"), Go("f")>>,
  <<Decl("x"), While({}, 4), Func("f", 4), Do("x"), Go("f")>> }

WithCollect(texts) ==
  UNION {{Insert(t, p, in, Col) : p \in 2..(Len(t) + 1), in \in BOOLEAN} : t \in texts}

Program(main, lib) == [main |-> main, lib |-> lib]

\* Protection: what is ignored, tracked again, tracked all at once.
Op(op, n) == Ln(op, n, {}, 0)
Kept == {
  <<Decl("x"), Op("ignore", "x"), Decl("y"), Do("y")>>,
  <<Decl("x"), Op("ignore_all", ""), Op("track", "x"), Decl("y"), Do("y")>>,
  <<Decl("x"), Op("ignore_all", ""), Decl("y"), Op("track_all", ""), Do("y")>>,
  <<Decl("x"), Func("f", 4), Decl("y"), Op("ignore", "y"), Go("f"), Go("f"), Do("x")>>,
  <<Decl("flag"), Decl("x"), Op("track", "x"), Decl("y"), Do("flag")>> }

Module == <<Decl("l"), Decl("k"), Func("f", 4), Do("l")>>
Client == <<Decl("x"), Op("track_all", ""), Go("m.f"), Do("x"), Go("m.f")>>

MCPrograms ==
  {Program(t, <<>>) : t \in WithCollect(Odd \cup WithCollect(Texts \cup Kept))}
    \cup {Program(t, Module) : t \in WithCollect({Client})}
    \cup {Program(Client, t) : t \in {Insert(Module, 4, FALSE, Col), Insert(Module, 5, TRUE, Col)}}
====
