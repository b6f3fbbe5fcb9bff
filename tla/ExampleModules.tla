---------------------------- MODULE ExampleModules ----------------------------
(***************************************************************************)
(* Functional models that the front end is checked with.  Most are those   *)
(* of programs in test/unit, whose name is given, with smaller ranges.     *)
(***************************************************************************)
EXTENDS Generator

N(base) == <<base, 0>>
R(base) == Ref(N(base))
V(base) == Var(N(base))
P(base) == Param(N(base))
I(v) == IntC(v)
Fn(params, body) == Func([k \in DOMAIN params |-> N(params[k])], body)
Where(value, names) == Let([k \in DOMAIN names |-> N(names[k])], value)
Add(a, b) == Prim("add", <<a, b>>)
Sub2(a, b) == Prim("subtract", <<a, b>>)
Mul(a, b) == Prim("multiply", <<a, b>>)

Times2(a) == Prim("multiply", <<I(2), a>>)
Div(a, b) == Prim("divide_integer", <<a, b>>)
Mod(a, b) == Prim("modulo", <<a, b>>)
Least(a, b) == Prim("min", <<a, b>>)
Most(a, b) == Prim("max", <<a, b>>)
Less(a, b) == Prim("less", <<a, b>>)
Otherwise == BoolC(TRUE)

(* Arrays by patterns: fix, expression, ...                                *)
Arr(tag, vars, ranges, fixes, exprs) ==
  LET names == [k \in DOMAIN vars |-> N(vars[k])]
  IN  Array(N(tag), names, FALSE, ranges,
            Patterns(names, fixes,
                     FlattenSeq([k \in DOMAIN exprs |-> <<BoolC(TRUE), exprs[k]>>])))
(* [v: range] -> e                                                         *)
Fun(tag, v, range, e) == Arr(tag, <<v>>, <<range>>, <<<<-1>>>>, <<e>>)
Fun2(tag, v, w, rv, rw, e) == Arr(tag, <<v, w>>, <<rv, rw>>, <<<<-1, -1>>>>, <<e>>)
(* name[0] = first; name[v] = rest                                         *)
Rec(tag, v, range, first, rest) ==
  Arr(tag, <<v>>, <<range>>, <<<<0>>, <<-1>>>>, <<first, rest>>)
(* [v: range | guard -> e | ...]                                           *)
Guarded(tag, v, range, parts) ==
  Array(N(tag), <<N(v)>>, FALSE, <<range>>,
        Patterns(<<N(v)>>, [k \in 1..(Len(parts) \div 2) |-> <<-1>>], parts))
At(a, v) == App(a, <<v>>)
Before(v) == Sub2(V(v), I(1))

D(base, e) == N(base) :> Definition(e, FALSE)
Out(base, e) == N(base) :> Definition(e, TRUE)
Ext(base, label, params, type) ==
  N(base) :> [Definition(External(params = 0, label, params, type), FALSE) EXCEPT !.decl = type]

NoProject == [main |-> <<>>, dirs |-> <<>>, exts |-> <<>>, files |-> <<>>]
Faulty(fault, names, ids) ==
  [global |-> [k \in DOMAIN names |-> N(names[k])], ids |-> ids, fault |-> fault,
   project |-> NoProject]
Module(names, ids) == Faulty("none", names, ids)
-----------------------------------------------------------------------------
Functions == <<
  \* local_id_w_func_arg
  Module(<<"f", "h", "main">>,
    D("f", Fn(<<"g", "a">>, Where(R("r"), <<"r">>))) @@ D("r", Call(P("g"), <<P("a")>>)) @@
    D("h", Fn(<<"b">>, Add(P("b"), I(1)))) @@ Out("main", Call(R("f"), <<R("h"), I(999)>>))),
  \* func_w_func_arg3
  Module(<<"f", "h", "main">>,
    D("f", Fn(<<"g">>, Call(Call(P("g"), <<I(1)>>), <<I(2)>>))) @@
    D("h", Fn(<<"x", "y">>, Sub2(P("x"), P("y")))) @@ Out("main", Call(R("f"), <<R("h")>>))),
  \* lambda3
  Module(<<"f", "main">>,
    D("f", Fn(<<"g">>, Add(Call(P("g"), <<I(1), I(2)>>), Call(P("g"), <<I(3), I(4)>>)))) @@
    Out("main", Call(R("f"), <<Fn(<<"x", "y">>, Mul(P("x"), P("y")))>>))),
  \* scope_w_func_result
  Module(<<"f", "g", "main">>,
    D("f", Fn(<<"x">>, Add(P("x"), I(1)))) @@
    D("g", Fn(<<"y">>, Where(R("f"), <<"a">>))) @@ D("a", P("y")) @@
    Out("main", Call(Call(R("g"), <<I(1)>>), <<I(2)>>))),
  \* a function of two parameters applied to one at a time, and used twice
  Module(<<"f", "main", "g", "twice">>,
    D("f", Fn(<<"x", "y">>, Where(Add(R("s"), P("y")), <<"s">>))) @@ D("s", Mul(P("x"), P("x"))) @@
    D("g", Call(R("f"), <<I(3)>>)) @@
    Out("twice", Add(Call(R("g"), <<I(4)>>), Call(R("g"), <<I(5)>>))) @@
    Out("main", Fun("t", "i", I(4), Call(R("g"), <<V("i")>>)))),
  \* local_id_w_arg_arg
  Module(<<"f", "g", "main">>,
    D("f", Fn(<<"a">>, Where(Add(R("x"), I(1)), <<"x">>))) @@ D("x", P("a")) @@
    D("g", Fn(<<"b">>, Call(R("f"), <<P("b")>>))) @@ Out("main", Call(R("g"), <<I(2)>>))),
  \* scope_where_nested1
  Module(<<"main">>,
    Out("main", Where(Add(R("x"), I(1)), <<"x">>)) @@
    D("x", Where(Mul(R("y"), I(2)), <<"y">>)) @@ D("y", I(3))),
  \* mutual_recursion3
  Module(<<"f", "main">>,
    D("f", Fn(<<"x">>, Where(Add(Add(R("a"), R("b")), P("x")), <<"a", "b">>))) @@
    D("a", Rec("t", "i", Infinite, I(0), Mul(I(2), At(R("b"), Before("i"))))) @@
    D("b", Fun("u", "j", Infinite, Add(At(R("a"), V("j")), I(1)))) @@
    Out("main", Call(R("f"), <<I(2)>>))),
  \* recursive_local_id
  Module(<<"g", "main">>,
    D("g", Fn(<<"b">>, Add(P("b"), I(2)))) @@ Out("main", Where(R("y"), <<"y">>)) @@
    D("y", Rec("t", "i", Infinite, I(0), Call(R("g"), <<Add(At(R("y"), Before("i")), I(1))>>)))),
  \* a function of an array that has the array's size in its result
  Module(<<"f", "main">>,
    D("f", Fn(<<"x">>, Fun("t", "i", SizeOf(P("x"), I(1)), Add(At(P("x"), V("i")), I(20))))) @@
    Out("main", Call(R("f"), <<Fun("u", "j", I(3), Add(V("j"), I(10)))>>)))
>>

Locals == <<
  \* propagated_array_var1
  Module(<<"f", "main">>,
    D("f", Fn(<<"a", "b">>, Where(Add(R("y"), I(2)), <<"x", "y">>))) @@
    D("x", Mul(P("a"), P("b"))) @@ D("y", Add(R("x"), I(1))) @@
    Out("main", Fun2("t", "i", "j", I(3), I(2),
                     Fun("u", "k", I(3), Call(R("f"), <<V("i"), V("k")>>))))),
  \* propagated_array_var2
  Module(<<"a", "f", "g", "main">>,
    D("a", Fun("t", "k", I(3), V("k"))) @@
    D("f", Fn(<<"j">>, Where(R("x"), <<"x">>))) @@ D("x", At(R("a"), P("j"))) @@
    D("g", Fn(<<"n">>, Fun("u", "i", P("n"), Add(Call(R("f"), <<V("i")>>), I(2))))) @@
    Out("main", Call(R("g"), <<I(3)>>))),
  \* propagated_array_var3
  Module(<<"g", "main">>,
    D("g", Fn(<<"a">>, Where(R("x"), <<"x">>))) @@
    D("x", Fun("t", "k", Infinite, Mul(V("k"), P("a")))) @@
    Out("main", Fun2("u", "i", "j", Infinite, I(3), At(Call(R("g"), <<V("j")>>), V("i"))))),
  \* array_recursion_lambda_lift1
  Module(<<"f", "main">>,
    D("f", Fn(<<"j">>, Where(R("y"), <<"y">>))) @@
    D("y", Add(Fun("t", "i", Infinite, P("j")),
               Concat(<<I(0), Fun("u", "k", Infinite, At(R("y"), V("k")))>>))) @@
    Out("main", Fun("v", "m", I(3), Call(R("f"), <<V("m")>>)))),
  \* array_recursion_lambda_lift2
  Module(<<"f", "main">>,
    D("f", Fn(<<"j">>, Where(R("x"), <<"x", "y">>))) @@
    D("x", Rec("t", "i", Infinite, P("j"), At(R("y"), Before("i")))) @@
    D("y", Fun("u", "k", Infinite, Add(At(R("x"), V("k")), I(1)))) @@
    Out("main", Fun("v", "m", I(3), Call(R("f"), <<V("m")>>)))),
  \* local definitions at two depths, the inner one with both variables
  Module(<<"main">>,
    Out("main", Fun("t", "i", I(3), Where(Add(R("x"), V("i")), <<"x">>))) @@
    D("x", Fun("u", "j", I(2), Where(Mul(R("y"), R("y")), <<"y">>))) @@
    D("y", Add(V("i"), Mul(I(2), V("j"))))),
  \* two outputs that share a definition with a local one
  Module(<<"a", "p", "q">>,
    D("a", Fun("t", "i", Infinite, Where(Mul(R("x"), R("x")), <<"x">>))) @@ D("x", Add(V("i"), I(1))) @@
    Out("p", Fun("u", "j", Infinite, At(R("a"), Add(V("j"), I(1))))) @@
    Out("q", Add(R("a"), R("p"))))
>>

Arrays == <<
  \* an array by elements, the first of which is another array
  Module(<<"a", "main">>,
    D("a", Fun("t", "x", I(3), V("x"))) @@
    Out("main", Rec("u", "k", I(4), R("a"), Add(At(R("main"), Before("k")), I(1))))),
  \* array_w_arrays
  Module(<<"main">>,
    Out("main", Rec("u", "k", Infinite, Fun("t", "x", I(3), Add(V("x"), I(1))),
                    Fun("v", "y", I(3), Add(V("y"), V("k")))))),
  \* a recursive array behind a first element
  Module(<<"main">>,
    Out("main", Where(Concat(<<I(9), R("x")>>), <<"x">>)) @@
    D("x", Rec("t", "i", Infinite, I(4), Add(At(R("x"), Before("i")), I(2))))),
  \* array_concat_recursive2
  Module(<<"main">>,
    Out("main", Concat(<<I(9), Fun("t", "i", Infinite, Add(At(R("main"), V("i")), I(1)))>>))),
  \* array_concat5
  Module(<<"main">>,
    Out("main", Concat(<<I(1), Rec("t", "i", I(5), I(2), Mul(V("i"), I(3)))>>))),
  \* array_enum4
  Module(<<"main">>,
    Out("main", Enum(<<I(1), Rec("t", "i", I(5), I(2), Mul(V("i"), I(3)))>>))),
  \* a recursive array as a row of another
  Module(<<"main">>,
    Out("main", Where(Enum(<<I(9), R("x")>>), <<"x">>)) @@
    D("x", Rec("t", "i", Infinite, I(4), Add(At(R("x"), Before("i")), I(2))))),
  \* array_recursion7
  Module(<<"y">>,
    Out("y", Rec("t", "i", Infinite, Fun("u", "j", I(3), V("j")),
                 Add(At(R("y"), Before("i")), I(1))))),
  \* array_nesting3
  Module(<<"y">>,
    Out("y", Rec("t", "i", Infinite, Enum(<<I(1), I(3)>>),
                 Fun("u", "j", I(2), Add(App(R("y"), <<Before("i"), V("j")>>), I(1)))))),
  \* array_size2
  Module(<<"a", "main">>,
    D("a", Fun2("t", "i", "j", I(2), I(4), Add(V("i"), V("j")))) @@
    Out("main", Fun("u", "k", SizeOf(R("a"), I(2)), V("k")))),
  \* array_app_lambda_lift1
  Module(<<"main">>,
    Out("main", At(Concat(<<I(0), Fun("t", "i", I(4), Add(V("i"), I(1)))>>), I(3)))),
  \* array_app_extra_dims
  Module(<<"a", "b", "main">>,
    D("a", I(1)) @@ D("b", Fun("t", "k", I(3), Add(V("k"), I(2)))) @@
    Out("main", Fun2("u", "m", "n", I(3), I(2),
                     Add(App(R("a"), <<V("m"), V("n")>>), App(R("b"), <<V("m"), V("n")>>))))),
  \* propagated_array
  Module(<<"a", "b", "main">>,
    D("a", Fun("t", "x", I(4), Add(V("x"), I(2)))) @@ D("b", R("a")) @@
    Out("main", At(R("b"), I(3)))),
  \* array_app_lambda_lift3
  Module(<<"x">>,
    Out("x", Concat(<<I(1), Fun("t", "i", I(3), At(Fun("u", "j", I(3), Add(At(R("x"), V("j")), I(1))),
                                                   V("i")))>>))),
  \* an infinite dimension behind a finite one, read with an index that moves
  Module(<<"a", "main">>,
    D("a", Fun2("t", "i", "j", I(2), Infinite, Add(Mul(I(5), V("i")), V("j")))) @@
    Out("main", Fun("u", "k", Infinite, App(R("a"), <<I(1), Add(V("k"), I(1))>>)))),
  \* a difference of arrays of different depth, one of them an input
  Module(<<"x", "a", "main">>,
    Ext("x", 1, 0, type_for(<<-1>>, "int")) @@
    D("a", Fun2("t", "i", "j", I(3), I(2), Add(V("i"), V("j")))) @@
    Out("main", Sub2(Fun("u", "k", I(3), At(R("x"), V("k"))), R("a"))))
>>

Calls == <<
  \* external1
  Module(<<"f1", "main">>,
    Ext("f1", 1, 1, Scalar("int")) @@ Out("main", Add(I(1), Call(R("f1"), <<I(1)>>)))),
  \* external2
  Module(<<"f2", "a", "main">>,
    Ext("f2", 2, 1, type_for(<<3>>, "int")) @@ D("a", Fun("t", "i", I(3), V("i"))) @@
    Out("main", Call(R("f2"), <<R("a")>>))),
  \* external3
  Module(<<"f3", "main">>,
    Ext("f3", 3, 1, type_for(<<3>>, "int")) @@
    Out("main", App(Fun("t", "i", I(3), Call(R("f3"), <<V("i")>>)), <<I(1), I(2)>>)))
>>

(* Indices that are not affine, guards, and ranges that are not given      *)
Indices == <<
  \* array_index_nonaffine
  Module(<<"a", "b">>,
    D("a", Guarded("t", "n", NoRange, <<Less(V("n"), I(4)), V("n")>>)) @@
    Out("b", Fun("u", "i", NoRange, At(R("a"), Least(Mul(V("i"), V("i")), I(3)))))),
  \* array_index_nonaffine2
  Module(<<"a", "b">>,
    D("a", Fun("t", "n", NoRange, V("n"))) @@
    Out("b", Fun("u", "i", NoRange,
                 At(R("a"), Add(Most(I(0), Least(I(4), Mul(V("i"), V("i")))), V("i")))))),
  \* array_index_div
  Module(<<"x", "y">>,
    D("x", Fun("a", "t", NoRange, V("t"))) @@
    Out("y", Fun("u", "s", NoRange, At(R("x"), Div(V("s"), I(2)))))),
  \* array_index_mod
  Module(<<"x", "y">>,
    D("x", Guarded("a", "t", NoRange, <<Less(V("t"), I(2)), Times2(V("t"))>>)) @@
    Out("y", Fun("u", "s", NoRange, At(R("x"), Mod(V("s"), I(2)))))),
  \* time_as_value
  Module(<<"main">>,
    Out("main", Fun2("t", "i", "s", I(3), Infinite, Add(V("i"), V("s"))))),
  \* array_bounding2
  Module(<<"a", "main">>,
    D("a", Fun("t", "i", I(5), V("i"))) @@
    Out("main", Fun("u", "n", I(3), Fun("v", "j", I(2), At(R("a"), Add(V("j"), V("n"))))))),
  \* array_bounding4
  Module(<<"a", "b", "main">>,
    D("a", Fun("t", "i", I(3), Times2(V("i")))) @@
    D("b", Fun("u", "j", Infinite, Mod(Div(V("j"), I(2)), I(3)))) @@
    Out("main", Fun("v", "k", Infinite, At(R("a"), At(R("b"), V("k")))))),
  \* two indices that are not affine, and do not agree
  Module(<<"a", "b", "c", "main">>,
    D("a", Fun2("t", "i", "j", I(3), I(3), Add(Mul(V("i"), I(5)), V("j")))) @@
    D("b", Fun("u", "k", Infinite, Mod(V("k"), I(3)))) @@
    D("c", Fun("v", "l", Infinite, Mod(Div(V("l"), I(2)), I(3)))) @@
    Out("main", Fun("w", "m", Infinite, App(R("a"), <<At(R("b"), V("m")), At(R("c"), V("m"))>>)))),
  \* linear_constraint_with_reified_subexpression
  Module(<<"f", "main">>,
    D("f", Fn(<<"n">>, Where(R("y"), <<"y">>))) @@
    D("y", Guarded("t", "i", NoRange, <<Less(V("i"), P("n")), V("i"), Otherwise, P("n")>>)) @@
    Out("main", Fun("u", "j", I(3), Call(R("f"), <<Add(V("j"), I(1))>>)))),
  \* a part of an inner array is where the variable of the outer one says
  Module(<<"main">>,
    Out("main", Fun("t", "i", I(3),
                    Guarded("u", "j", I(3), <<Less(V("i"), V("j")), V("i"), Otherwise, V("j")>>)))),
  \* parts that overlap, and a range that follows from them
  Module(<<"main">>,
    Out("main", Guarded("t", "i", NoRange,
                        <<Less(V("i"), I(2)), I(5), Less(V("i"), I(4)), Times2(V("i"))>>)))
>>

(* What is not accepted                                                    *)
Wrong == <<
  Faulty("Recursive function not allowed.",
    <<"f", "main">>,
    D("f", Fn(<<"x">>, Call(R("f"), <<Add(P("x"), I(1))>>))) @@ Out("main", Call(R("f"), <<I(1)>>))),
  Faulty("Can not apply remaining arguments.",
    <<"main">>, Out("main", Call(I(2), <<I(1)>>))),
  Faulty("Unexpected function.",
    <<"main">>, Out("main", Fn(<<"x">>, P("x")))),
  Faulty("size mismatch",
    <<"main">>,
    Out("main", Add(Fun("t", "i", I(3), V("i")), Fun("u", "j", I(2), V("j"))))),
  Faulty("Can not concatenate to end of infinite array.",
    <<"x", "main">>,
    Ext("x", 1, 0, type_for(<<-1>>, "int")) @@ Out("main", Concat(<<R("x"), I(1)>>))),
  Faulty("has more than 1 unbounded dimension.",
    <<"main">>, Out("main", Fun2("t", "i", "j", Infinite, Infinite, Add(V("i"), V("j"))))),
  Faulty("Inferred array domain is empty.",
    <<"main">>, Out("main", Guarded("t", "i", I(3), <<Less(V("i"), I(0)), I(1)>>))),
  Faulty("Part of array domain is undefined.",
    <<"main">>, Out("main", Arr("t", <<"i">>, <<NoRange>>, <<<<0>>, <<2>>>>, <<I(1), I(3)>>))),
  Faulty("Not an affine integer constraint.",
    <<"b", "p", "main">>,
    D("b", Fun("t", "i", I(3), V("i"))) @@ D("p", Less(At(R("b"), I(0)), I(2))) @@
    Out("main", Guarded("u", "j", I(3), <<R("p"), I(1), Otherwise, I(2)>>))),
  Faulty("Not an affine integer expression.",
    <<"b", "main">>,
    D("b", Fun("t", "i", I(3), V("i"))) @@
    Out("main", Guarded("u", "j", I(3), <<Less(At(R("b"), V("j")), I(2)), I(1), Otherwise, I(2)>>))),
  \* a scalar that is not affine as an index
  Faulty("Invalid type of variable in affine expression.",
    <<"b", "n", "main">>,
    D("b", Fun("t", "i", I(3), V("i"))) @@ D("n", Add(At(R("b"), I(0)), I(1))) @@
    Out("main", At(R("b"), R("n")))),
  Faulty("No output defined.",
    <<"a">>, D("a", I(1)))
>>

(* All ways in which three definitions can refer to each other, in order   *)
(* and at most to two: each takes what the others had one element before,  *)
(* so that any loop is one of streams.                                     *)
RefLists ==
  <<<<>>, <<"a">>, <<"b">>, <<"c">>, <<"a", "b">>, <<"b", "a">>, <<"a", "c">>, <<"c", "a">>,
    <<"b", "c">>, <<"c", "b">>>>
Stream(x, list) ==
  Rec(x \o "t", x \o "i", Infinite, I(1),
      FoldLeft(LAMBDA e, y : Add(e, At(R(y), Before(x \o "i"))), V(x \o "i"), list))
Graphs ==
  [k \in 1..1000 |->
     LET list(n) == RefLists[1 + (((k - 1) \div n) % 10)]
     IN  Module(<<"a", "b", "c">>,
                D("a", Stream("a", list(100))) @@ D("b", Stream("b", list(10))) @@
                Out("c", Stream("c", list(1))))]

AllModules == Functions \o Locals \o Arrays \o Calls \o Indices \o Wrong
=============================================================================
