---------------------------- MODULE ExampleSources ----------------------------
(***************************************************************************)
(* Programs as files, each with the functional model that it should amount *)
(* to.  Those that are in test/unit have their names there.                *)
(***************************************************************************)
EXTENDS ExampleModules

Text(name, imports, decls) ==
  [name |-> name, imports |-> imports, decls |-> decls, valid |-> TRUE]
Unparsable == [Text("", <<>>, <<>>) EXCEPT !.valid = FALSE]
As(name, alias) == [name |-> name, alias |-> alias]
Plain(name) == As(name, name)
At2(dir, name) == <<dir, name, "arrp">>

(* A program that is `main' in the current directory, with libraries in    *)
(* "lib" and two possible extensions                                       *)
Files(program, decls, imports, files) ==
  [program EXCEPT !.project =
     [main |-> At2("", "main"), dirs |-> <<"lib">>, exts |-> <<"arrp", "stream">>,
      files |-> (At2("", "main") :> Text("", imports, decls)) @@ files]]
Single(program, decls) == Files(program, decls, <<>>, <<>>)
Bad(fault, decls) == Single(Faulty(fault, <<>>, <<>>), decls)

X(name) == Name(name)
Prev(name) == App(X(name), <<Sub2(X("i"), I(1))>>)
(* name[i, ...] = e                                                        *)
Element(name, indexes, e) == DefineElement(name, Pattern(indexes, <<Otherwise, e>>))
Each(name, index, e) == Element(name, <<AnyIndex(index)>>, e)
First(name, e) == Element(name, <<FixedIndex(0)>>, e)
(* [index: range] -> e                                                     *)
Mapping(index, range, e) == ArrayDef(<<range>>, <<Pattern(<<AnyIndex(index)>>, <<Otherwise, e>>)>>)

Importee1 == Text("importee1", <<Plain("importee2")>>, <<Define("a", Add(I(1), Qualified("importee2", "a")))>>)
Importee2 == Text("importee2", <<>>, <<Define("a", I(2)), Define("b", I(3))>>)

Imported == <<
  \* importer
  Files(Module(<<"main">>, Out("main", I(1000 + 3 + 2 + 3))),
    <<Define("a", I(1000)),
      OutputValue("main", Add(Add(X("a"), Qualified("importee1", "a")),
                              Add(Qualified("i2", "a"), Qualified("i2", "b"))))>>,
    <<Plain("importee1"), As("importee2", "i2")>>,
    At2("lib", "importee1") :> Importee1 @@ At2("lib", "importee2") :> Importee2),
  \* two modules that import each other, one of them with an output
  Files(Module(<<"p.y", "main">>, Out("p.y", I(4)) @@ Out("main", I(5))),
    <<OutputValue("main", Add(Qualified("q", "x"), I(2)))>>, <<Plain("p"), Plain("q")>>,
    At2("", "p") :> Text("p", <<Plain("q")>>, <<OutputValue("y", Add(Qualified("q", "x"), I(1)))>>) @@
    At2("", "q") :> Text("q", <<Plain("p")>>, <<Define("x", I(3))>>)),
  \* a file with the name of another module comes first
  Files(Module(<<"main">>, Out("main", I(9))),
    <<OutputValue("main", Qualified("q", "x"))>>, <<Plain("q")>>,
    At2("", "q") :> Text("other", <<Plain("p")>>, <<Define("x", I(1))>>) @@
    At2("", "p") :> Text("p", <<>>, <<Define("x", I(2))>>) @@
    <<"", "q", "stream">> :> Text("q", <<As("p", "a"), As("other", "a")>>,
                                  <<Define("x", Add(Qualified("a", "x"), I(7)))>>)),
  \* what is imported imports what imports it, and needs it
  Files(Faulty(UndefinedName, <<>>, <<>>),
    <<OutputValue("main", Qualified("p", "x"))>>, <<Plain("p")>>,
    At2("", "p") :> Text("p", <<Plain("q")>>, <<Define("x", Qualified("q", "x"))>>) @@
    At2("", "q") :> Text("q", <<Plain("p")>>, <<Define("x", Qualified("p", "x"))>>)),
  Files(Faulty("Can not find imported module", <<>>, <<>>), <<OutputValue("main", I(1))>>, <<Plain("p")>>,
    At2("", "p") :> Text("q", <<>>, <<>>)),
  Files(Faulty("syntax error", <<>>, <<>>), <<OutputValue("main", I(1))>>, <<Plain("p")>>,
    At2("lib", "p") :> Unparsable)
>>

Written == <<
  \* naming
  Single(Module(<<"main">>, Out("main", I(5 * 3 - 3 + 15))),
    <<DefineFunc("f", <<"a">>, LocalScope(<<Define("b", I(3))>>, Sub2(Mul(X("a"), X("b")), X("b")))),
      Define("x", LocalScope(<<Define("b", I(3))>>, Mul(X("b"), I(5)))),
      OutputValue("main", Add(Call(X("f"), <<I(5)>>), X("x")))>>),
  \* elements of two arrays in turn, with other names for their variables
  Single(Module(<<"y", "z">>, Out("y", Fun("t", "i", Infinite, Add(I(2), Times2(V("i"))))) @@
                              Out("z", Fun("u", "i", Infinite, Add(I(3), Times2(V("i")))))),
    <<First("x", I(1)), Each("y", "n", Times2(App(X("x"), <<X("n")>>))), OutputDecl("y"),
      Each("x", "i", Add(Prev("x"), I(1))), OutputValue("z", Add(X("y"), I(1)))>>),
  \* the same in a local scope
  Single(Module(<<"main">>, Out("main", Fun("t", "i", Infinite, Add(I(3), Times2(V("i")))))),
    <<OutputValue("main",
        LocalScope(<<First("a", I(1)), First("b", I(2)),
                     Each("a", "i", Add(Prev("a"), I(1))),
                     Each("b", "k", Add(App(X("b"), <<Sub2(X("k"), I(1))>>), I(1)))>>,
                   Add(X("a"), X("b"))))>>),
  \* functions without names, composed; primitive ones are not to be shadowed
  Single(Module(<<"main">>, Out("main", I(8 + 5))),
    <<DefineFunc("h", <<"x">>, Times2(X("x"))), DefineFunc("min", <<"x", "y">>, I(77)),
      Define("g", Compose(X("h"), Lambda(<<"a">>, Add(X("a"), I(1))))),
      OutputValue("main", Add(Call(X("g"), <<I(3)>>), Call(X("min"), <<I(5), I(6)>>)))>>),
  \* inner names hide outer ones
  Single(Module(<<"main">>, Out("main", Fun("t", "i", I(3), Add(V("i"), I(7))))),
    <<Define("x", I(40)), DefineFunc("f", <<"x">>, LocalScope(<<Define("y", Add(X("x"), I(2)))>>, X("y"))),
      OutputValue("main", Mapping("x", I(3), Add(X("x"), Call(X("f"), <<I(5)>>))))>>),
  \* types and values apart, in any order
  Single(Module(<<"a", "main">>, Ext("a", 1, 0, type_for(<<3>>, "int")) @@
                                 Out("main", Add(R("a"), I(2)))),
    <<Define("main", Add(X("a"), BindingExpr(Define("b", I(2))))),
      OutputType("main", type_for(<<3>>, "int")), InputDecl("a", 1, type_for(<<3>>, "int"))>>),
  Bad(AlreadyDefined, <<Define("a", I(1)), First("a", I(1))>>),
  Bad(AlreadyTyped, <<DeclareType("a", Scalar("int")), OutputType("a", Scalar("int"))>>),
  Bad(AlreadyTyped, <<DeclareType("a", Scalar("int")), InputDecl("a", 1, Scalar("int"))>>),
  Bad(AlreadyDefined, <<OutputValue("a", I(2)), InputDecl("a", 1, Scalar("int"))>>),
  Bad(AlreadyExternal, <<InputDecl("a", 1, Scalar("int")), OutputDecl("a")>>),
  Bad(InScope, <<OutputValue("a", Lambda(<<"x", "x">>, X("x")))>>),
  Bad(InScope, <<Element("a", <<AnyIndex("i"), AnyIndex("i")>>, X("i"))>>),
  Bad(IndexCount, <<First("a", I(1)), Element("a", <<AnyIndex("i"), AnyIndex("j")>>, X("i"))>>),
  Bad(UndefinedName, <<OutputValue("a", Add(X("b"), Qualified("m", "a")))>>)
>>

AllSources == Imported \o Written
=============================================================================
