--------------------------- MODULE FunctionalModel ---------------------------
(***************************************************************************)
(* The functional model (common/functional_model.hpp) that the front end   *)
(* works on, and what it means.                                            *)
(*                                                                         *)
(* An expression is a record of its kind, its children and its type, which *)
(* is there once types have been checked.  Children are always in `args',  *)
(* in the order in which visitors go through them, so that the base of all *)
(* visitors is a map over `args'.  Identifiers are names into a table, a   *)
(* name being a base and the number name_provider has appended to it.      *)
(* Pointers to variables and to arrays are names as well.                  *)
(***************************************************************************)
EXTENDS Integers, SequencesExt

None   == <<"none", 0>>
NoType == [size |-> <<0>>, elem |-> "none"]

Scalar(elem) == [size |-> <<>>, elem |-> elem]
type_for(size, elem) == [size |-> size, elem |-> elem]
IsArray(type) == type.size # <<>>

Node(op, args) == [op |-> op, args |-> args, type |-> NoType]
Typed(e, type) == [e EXCEPT !.type = type]

IntC(v)    == [op |-> "int", val |-> v, args |-> <<>>, type |-> Scalar("int")]
BoolC(b)   == Typed(Node(IF b THEN "true" ELSE "false", <<>>), Scalar("bool"))
Infinite   == Typed(Node("inf", <<>>), Scalar("infinity"))
NoRange    == Node("none", <<>>)           \* a range that is to be inferred
Named(op, name) == [op |-> op, name |-> name, args |-> <<>>, type |-> NoType]
Ref(name)   == Named("ref", name)
Var(name)   == Named("var", name)          \* a variable of an array
Param(name) == Named("param", name)        \* a variable of a function
Self(tag)   == Named("self", tag)          \* this, in the array called tag
Prim(kind, args) == [op |-> "prim", kind |-> kind, args |-> args, type |-> NoType]
Enum(args)   == Node("enum", args)         \* [a; b]
Concat(args) == Node("concat", args)       \* a ++ b
App(object, args)   == Node("app", <<object>> \o args)     \* a[i]
Call(object, args)  == Node("call", <<object>> \o args)    \* f(x)
SizeOf(object, dim) == Node("size", <<object, dim>>)       \* #a@dim
Cases(args) == Node("cases", args)         \* domain, expression, domain, ...
Func(vars, body) ==
  [op |-> "func", vars |-> vars, args |-> <<body>>, type |-> NoType]
Let(names, value) ==
  [op |-> "scope", names |-> names, args |-> <<value>>, type |-> NoType]
(* An input, or a function with that many parameters                       *)
External(input, label, params, type) ==
  [op |-> "external", input |-> input, label |-> label, params |-> params, decl |-> type,
   args |-> <<>>, type |-> NoType]
(* An array: its variables' ranges, then what it is made of.  What the     *)
(* parser makes an array of are patterns: case k holds where the variables *)
(* have the values fix[k], -1 standing for any.                            *)
Array(tag, vars, rec, ranges, body) ==
  [op |-> "array", tag |-> tag, vars |-> vars, rec |-> rec,
   args |-> ranges \o <<body>>, type |-> NoType]
Patterns(vars, fix, args) ==
  [op |-> "patterns", vars |-> vars, fix |-> fix, args |-> args, type |-> NoType]

Body(e)   == Last(e.args)
Ranges(e) == Front(e.args)

Definition(e, out) == [expr |-> e, out |-> out, rec |-> FALSE, count |-> 0, decl |-> NoType]

(* All that is in an expression, itself included                           *)
RECURSIVE Parts(_)
Parts(e) == {e} \cup UNION {Parts(e.args[k]) : k \in DOMAIN e.args}

NamesIn(e) == {p.name : p \in {q \in Parts(e) : q.op = "ref"}}

(* Visitors thread a state.  Its error stands for an exception: nothing is *)
(* visited any more.                                                       *)
Stop(s, error) == IF s.err = "none" THEN [s EXCEPT !.err = error] ELSE s

InTurn(F(_, _), s, seq) ==
  LET after[k \in 0..Len(seq)] ==
        IF k = 0 THEN s
        ELSE LET t == after[k - 1] IN IF t.err # "none" THEN t ELSE F(t, seq[k])
  IN  after[Len(seq)]

(* Visiting every child from left to right with F                          *)
MapArgs(F(_, _), s, e) ==
  LET after[k \in 0..Len(e.args)] ==
        IF k = 0 THEN [s |-> s, es |-> <<>>]
        ELSE LET t == after[k - 1]
                 r == IF t.s.err # "none" THEN [s |-> t.s, e |-> e.args[k]] ELSE F(t.s, e.args[k])
             IN  [s |-> r.s, es |-> Append(t.es, r.e)]
      all == after[Len(e.args)]
  IN  [s |-> all.s, e |-> [e EXCEPT !.args = all.es]]

(* name_provider::new_name, for each name                                  *)
NextNumber(s, base) == IF base \in DOMAIN s.issued THEN s.issued[base] + 1 ELSE 1
NewNames(s, names) ==
  LET issue(acc, base, n) ==
        [s |-> [acc.s EXCEPT !.issued = (base :> n) @@ @], names |-> Append(acc.names, <<base, n>>)]
  IN  FoldLeft(LAMBDA acc, name : issue(acc, name[1], NextNumber(acc.s, name[1])),
               [s |-> s, names |-> <<>>], names)

(* common_array_size: dimensions are aligned at the first, a size of 1     *)
(* goes with any other.                                                    *)
Mismatch == <<-2>>
common_array_size(a, b) ==
  CASE a = Mismatch \/ b = Mismatch -> Mismatch
    [] a = <<>> -> b
    [] b = <<>> -> a
    [] \E d \in DOMAIN a \cap DOMAIN b : a[d] # b[d] /\ a[d] # 1 /\ b[d] # 1 -> Mismatch
    [] OTHER ->
       [d \in DOMAIN a \cup DOMAIN b |->
          IF d \notin DOMAIN a \/ (d \in DOMAIN b /\ a[d] = 1) THEN b[d] ELSE a[d]]

Comparison == {"eq", "less", "geq", "leq"}
Boolean == Comparison \cup {"logic_and", "logic_or"}
IsTruth(e) == \/ e.op \in {"true", "false"}
              \/ e.op = "prim" /\ e.kind \in Boolean
              \/ e.op = "prim" /\ e.kind = "negate" /\ e.args[1].op = "prim"
                   /\ e.args[1].kind \in Boolean \cup {"negate"}

Magnitude(a) == IF a < 0 THEN -a ELSE a
Truncated(a, b) ==
  LET q == Magnitude(a) \div Magnitude(b) IN IF (a < 0) = (b < 0) THEN q ELSE -q
-----------------------------------------------------------------------------
(* What an expression means: its value at a vector of indices.             *)
(*                                                                         *)
(* Indices beyond what an expression has dimensions for are ignored, and   *)
(* so is an index into a dimension of size 1: that is broadcasting.        *)
(* Functions are applied by name: `pend' are the arguments that are still  *)
(* to be taken, each with the environment it comes from.                   *)
(***************************************************************************)
Nowhere == [var |-> <<>>, par |-> <<>>, self |-> <<>>, busy |-> {}]
Undefined == -1000

InputValue(label, idx) == 7 * label + FoldLeft(LAMBDA acc, i : 3 * acc + i, 0, idx)
CallExternal(label, values) == FoldLeft(LAMBDA acc, v : 2 * acc + v, label, values)

Close(es, env) == [k \in DOMAIN es |-> [e |-> es[k], env |-> env]]

(* Binding the parameters of a function, as far as there are arguments     *)
Bind(f, env, pend) ==
  LET n == Min({Len(f.vars), Len(pend)})
  IN  [env EXCEPT !.par = [v \in {f.vars[k] : k \in 1..n} |->
                             pend[CHOOSE k \in 1..n : f.vars[k] = v]] @@ @]

Operate(kind, v, truth) ==
  IF \E k \in DOMAIN v : v[k] = Undefined THEN Undefined
  ELSE LET B(b) == IF b THEN 1 ELSE 0 IN
       CASE kind = "add" -> v[1] + v[2]
         [] kind = "subtract" -> v[1] - v[2]
         [] kind = "multiply" -> v[1] * v[2]
         [] kind = "divide_integer" -> IF v[2] = 0 THEN Undefined ELSE Truncated(v[1], v[2])
         [] kind = "modulo" -> IF v[2] = 0 THEN Undefined ELSE v[1] - v[2] * Truncated(v[1], v[2])
         [] kind = "min" -> Min({v[1], v[2]})
         [] kind = "max" -> Max({v[1], v[2]})
         [] kind = "negate" -> IF truth THEN 1 - v[1] ELSE -v[1]
         [] kind = "eq" -> B(v[1] = v[2])
         [] kind = "less" -> B(v[1] < v[2])
         [] kind = "geq" -> B(v[1] >= v[2])
         [] kind = "leq" -> B(v[1] <= v[2])
         [] kind = "logic_and" -> v[1] * v[2]
         [] kind = "logic_or" -> B(v[1] + v[2] > 0)

RECURSIVE Eval(_, _, _, _, _), Size(_, _, _, _), CommonSizeOf(_, _, _)

(* The range of a dimension: a number, or -1                               *)
RangeValue(ids, e, env) == IF e.op \in {"inf", "none"} THEN -1 ELSE Eval(ids, e, env, <<>>, <<>>)

Eval(ids, e, env, pend, idx) ==
  LET value(a) == Eval(ids, a, env, <<>>, <<>>)
      again(a) == Eval(ids, a, env, <<>>, idx)
      rest(n)  == SubSeq(idx, n + 1, Len(idx))
      \* the expression of the first case that holds
      chosen(holds(_)) ==
        LET ks == {k \in 1..(Len(e.args) \div 2) : holds(k)}
        IN  IF ks = {} THEN Undefined ELSE again(e.args[2 * Min(ks)])
  IN
  CASE e.op = "int" -> e.val
    [] e.op = "true" -> 1
    [] e.op = "false" -> 0
    [] e.op = "inf" -> -1
    [] e.op = "ref" -> Eval(ids, ids[e.name].expr, env, pend, idx)
    [] e.op = "var" -> env.var[e.name]
    [] e.op = "param" -> LET c == env.par[e.name] IN Eval(ids, c.e, c.env, pend, idx)
    [] e.op = "self" -> LET c == env.self[e.name] IN Eval(ids, c.e, c.env, pend, idx)
    [] e.op = "array" ->
         LET size == [d \in DOMAIN e.vars |-> RangeValue(ids, e.args[d], env)]
             at   == [d \in DOMAIN e.vars |-> IF size[d] = 1 THEN 0 ELSE idx[d]]
             inside == [env EXCEPT
               !.self = (e.tag :> [e |-> e, env |-> env]) @@ @,
               !.var  = [v \in Range(e.vars) |-> at[CHOOSE d \in DOMAIN e.vars : e.vars[d] = v]] @@ @]
         IN  IF Len(idx) < Len(e.vars)
                \/ \E d \in DOMAIN e.vars : at[d] < 0 \/ (size[d] # -1 /\ at[d] >= size[d])
             THEN Undefined
             ELSE Eval(ids, Body(e), inside, pend, rest(Len(e.vars)))
    [] e.op = "patterns" ->
         chosen(LAMBDA k :
           /\ \A d \in DOMAIN e.fix[k] : e.fix[k][d] \in {-1, env.var[e.vars[d]]}
           /\ value(e.args[2 * k - 1]) = 1)
    [] e.op = "cases" -> chosen(LAMBDA k : value(e.args[2 * k - 1]) = 1)
    [] e.op = "prim" ->
         Operate(e.kind, [k \in DOMAIN e.args |-> again(e.args[k])],
                 e.kind = "negate" /\ IsTruth(e.args[1]))
    [] e.op = "enum" ->
         LET k == IF Len(e.args) = 1 THEN 0 ELSE idx[1]
         IN  IF k \in 0..(Len(e.args) - 1)
             THEN Eval(ids, e.args[k + 1], env, <<>>, rest(1)) ELSE Undefined
    [] e.op = "concat" ->
         LET size == Size(ids, e.args[1], env, <<>>)
             n == IF size = <<>> THEN 1 ELSE size[1]
         IN  CASE Len(e.args) > 1 /\ n # -1 /\ idx[1] >= n ->
                    Eval(ids, [e EXCEPT !.args = Tail(@)], env, <<>>, <<idx[1] - n>> \o rest(1))
               [] size = <<>> -> value(e.args[1])
               [] OTHER -> Eval(ids, e.args[1], env, <<>>, idx)
    [] e.op = "app" ->
         Eval(ids, e.args[1], env, pend,
              [k \in 1..(Len(e.args) - 1) |-> value(e.args[k + 1])] \o idx)
    [] e.op = "call" -> Eval(ids, e.args[1], env, Close(Tail(e.args), env) \o pend, idx)
    [] e.op = "func" ->
         Eval(ids, e.args[1], Bind(e, env, pend), SubSeq(pend, Len(e.vars) + 1, Len(pend)), idx)
    [] e.op = "external" ->
         LET mine == SubSeq(idx, 1, Min({Len(idx), Len(e.decl.size)}))
         IN  IF e.input THEN InputValue(e.label, mine)
             ELSE CallExternal(e.label, [k \in DOMAIN pend |->
                                  Eval(ids, pend[k].e, pend[k].env, <<>>, <<1, 1, 1>>)] \o mine)
    [] e.op = "scope" -> Eval(ids, e.args[1], env, pend, idx)
    [] e.op = "size" ->
         LET s == Size(ids, e.args[1], env, <<>>)
             d == value(e.args[2])
         IN  IF d \in DOMAIN s THEN s[d] ELSE 1

(* The sizes of an expression's dimensions, infinite ones being -1.        *)
CommonSizeOf(ids, es, env) ==
  IF es = <<>> THEN <<>>
  ELSE common_array_size(Size(ids, es[1], env, <<>>), CommonSizeOf(ids, Tail(es), env))

Size(ids, e, env, pend) ==
  CASE e.op = "ref" ->
         IF e.name \in env.busy THEN <<>>
         ELSE Size(ids, ids[e.name].expr, [env EXCEPT !.busy = @ \cup {e.name}], pend)
    [] e.op = "param" -> LET c == env.par[e.name] IN Size(ids, c.e, c.env, pend)
    [] e.op = "array" ->
         [d \in DOMAIN e.vars |-> RangeValue(ids, e.args[d], env)]
           \o Size(ids, Body(e), env, pend)
    [] e.op \in {"patterns", "cases"} ->
         CommonSizeOf(ids, [k \in 1..(Len(e.args) \div 2) |-> e.args[2 * k]], env)
    [] e.op = "prim" -> CommonSizeOf(ids, e.args, env)
    [] e.op = "enum" -> <<Len(e.args)>> \o CommonSizeOf(ids, e.args, env)
    [] e.op = "concat" ->
         LET line(size) == IF size = <<>> THEN <<1>> ELSE size
             first == line(Size(ids, e.args[1], env, <<>>))
             others == Size(ids, [e EXCEPT !.args = Tail(@)], env, <<>>)
         IN  IF Len(e.args) = 1 THEN first
             ELSE <<IF -1 \in {first[1], others[1]} THEN -1 ELSE first[1] + others[1]>>
                    \o common_array_size(Tail(first), Tail(others))
    [] e.op = "app" ->
         LET s == Size(ids, e.args[1], env, pend)
         IN  SubSeq(s, Len(e.args), Len(s))
    [] e.op = "call" -> Size(ids, e.args[1], env, Close(Tail(e.args), env) \o pend)
    [] e.op = "func" ->
         Size(ids, e.args[1], Bind(e, env, pend), SubSeq(pend, Len(e.vars) + 1, Len(pend)))
    [] e.op = "external" -> e.decl.size
    [] e.op = "scope" -> Size(ids, e.args[1], env, pend)
    [] OTHER -> <<>>

(* The value of a definition at a vector of indices                        *)
Meaning(ids, name, idx) == Eval(ids, ids[name].expr, Nowhere, <<>>, idx)
=============================================================================
