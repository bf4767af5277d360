----------------------------- MODULE MCParallel -----------------------------
EXTENDS Parallel

MCActors == {0, 1, 2}

Import(n) == [op |-> "import", name |-> n, alias |-> "none"]
ImportAs(n, alias) == [op |-> "import", name |-> n, alias |-> alias]
ImportPath(n) == [op |-> "import_path", name |-> n, alias |-> "none"]
Include(n) == [op |-> "include", name |-> n]
Let(n, type) == [op |-> "assign", name |-> n, type |-> type]
Extending(n) == [op |-> "extend", name |-> n]
Exporting(n, module) == [op |-> "export", name |-> n, module |-> module]
Failure == [op |-> "fail"]

\* The program is in "here", next to the package "pkg".
MCFiles == {"here/a", "here/f", "here/s", "here/g", "here/u", "here/m", "pkg/init", "pkg/a", "lib/l"}

MCFileAt(dir, name) ==
  CASE <<dir, name>> = <<"here", "a">> -> "here/a"
    [] <<dir, name>> = <<"here", "f">> -> "here/f"
    [] <<dir, name>> = <<"here", "s">> -> "here/s"
    [] <<dir, name>> = <<"here", "g">> -> "here/g"
    [] <<dir, name>> = <<"here", "u">> -> "here/u"
    [] <<dir, name>> = <<"here", "m">> -> "here/m"
    [] <<dir, name>> = <<"here", "p">> -> "pkg/init"
    [] <<dir, name>> = <<"here", "q">> -> "no init"
    [] <<dir, name>> = <<"pkg", "a">> -> "pkg/a"
    [] <<dir, name>> = <<"lib", "l">> -> "lib/l"
    [] OTHER -> "missing"

MCPathTo(path) == IF path = "/here/a" THEN "here/a" ELSE "missing"
MCBaseName(path) == IF path = "/here/a" THEN "a" ELSE path
MCDirOf(file) ==
  CASE file \in {"pkg/init", "pkg/a"} -> "pkg" [] file = "lib/l" -> "lib" [] OTHER -> "here"

MCBody(file) ==
  CASE file = "here/a" -> <<Let("x", "int"), Let("y", "int")>>
    [] file = "here/f" -> <<Let("x", "int"), Failure, Let("y", "int")>>
    [] file = "here/s" -> <<Let("x", "int"), Import("s"), Let("y", "int")>>
    [] file = "here/g" -> <<Let("x", "int"), Exporting("x", "g")>>
    [] file = "pkg/init" -> <<Import("a"), Let("z", "int")>>
    [] file = "pkg/a" -> <<Let("x", "str")>>
    [] file = "lib/l" -> <<Extending("e1"), Let("x", "int")>>
    [] OTHER -> <<>>

MCReadable(file) == file # "here/u"
MCWellFormed(file) == file # "here/m"
MCLibDirs == <<"lib">>

\* Two libraries; the second is found beside the program only, in directories
\* of both names.
MCExtPlaces == <<"cwd", "ext">>
MCLibraryAt(place, spec, init) ==
  CASE <<place, spec, init>> = <<"ext", "e1", FALSE>> -> "one"
    [] <<place, spec, init>> = <<"here", "e1", TRUE>> -> "two"
    [] <<place, spec, init>> = <<"here", "e2", TRUE>> -> "two"
    [] OTHER -> "no library"
MCExtensionOf(spec) == spec
MCOperators(library) == IF library = "one" THEN <<"o", "p">> ELSE <<"o">>
MCRestricted(library) == IF library = "one" THEN {"o"} ELSE {"o"}

MCCoercible(from, to) == from = "int"

Run(body) == [params |-> <<>>, body |-> body]
WithDefault(default, coerced) ==
  [params |-> <<[name |-> "x", type |-> "str", default |-> default, coerced |-> coerced]>>,
   body |-> <<Let("x", "str")>>]
MCNoFunction == Run(<<[op |-> "none"]>>)
Both(f, g) == [op |-> "parallel", functions |-> <<f, g>>]

Statements ==
  { Import("a"), ImportAs("a", "b"), ImportPath("/here/a"), Include("a"), Import("p"),
    Import("f"), Import("s"), Import("g"), ImportAs("u", "a"), Import("m"), Import("q"),
    Import("z"), ImportAs("l", "k"), Include("l"), Exporting("x", "a"), Let("x", "int"),
    Let("x", "str"), Extending("e2"), Extending("e3") }

Parallels ==
  { Both(Run(<<Import("a")>>), Run(<<ImportAs("f", "a")>>)),
    Both(Run(<<Let("n", "int")>>), Run(<<Let("n", "str"), Include("a")>>)),
    Both(Run(<<Extending("e1")>>), Run(<<Import("l")>>)),
    Both(Run(<<Failure>>), Run(<<Extending("e2")>>)),
    Both(WithDefault("none", FALSE), WithDefault("int", TRUE)),
    Both(WithDefault("fails", FALSE), WithDefault("map", TRUE)),
    Both(Run(<<>>), MCNoFunction) }

\* Every two statements, an import twice after another statement, a PARALLEL before and after.
MCPrograms ==
  {<<s, t>> : s, t \in Statements}
    \cup {<<s, t, t>> : s \in {Include("a"), Let("y", "str")},
                        t \in {Import("a"), Import("f"), ImportAs("l", "a"), Import("p")}}
    \cup {<<ImportAs("a", "b"), Let("x", "int"), Exporting("x", "b"), Import("a")>>}
    \cup {<<p>> : p \in Parallels}
    \cup {<<Include("a"), Both(Run(<<Import("a")>>), Run(<<Let("y", "str")>>))>>}
    \cup {<<Import("f"), Both(Run(<<Import("f")>>), Run(<<Import("f")>>)), Import("f")>>,
          <<Both(Run(<<Import("a")>>), Run(<<Import("a")>>)), Import("a")>>,
          <<Both(Run(<<Import("l")>>), Run(<<Extending("e2")>>)), ImportAs("l", "k")>>}
=============================================================================
