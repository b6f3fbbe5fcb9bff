---------------------------- MODULE ArrayReduction ----------------------------
(***************************************************************************)
(* Arrays of arrays, operations on whole arrays, concatenation and         *)
(* enumeration turned into flat arrays of scalar expressions by cases      *)
(* (frontend/array_reduction.cpp).  Each array is put into the normal form *)
(* that polyhedral_gen expects, what does not fit becomes a global         *)
(* identifier of its own.  s.ranges has the ranges of variables.           *)
(***************************************************************************)
EXTENDS ArrayInflate

IntVar(v) == Typed(Var(v), Scalar("int"))

(* Mutated: the condition that is known is the one that is kept.           *)
IntersectWithKnown(a, b) ==
  IF a.op \in {"true", "false"} THEN a
  ELSE IF b.op \in {"true", "false"} THEN b ELSE Prim("logic_and", <<a, b>>)

(* Conditions, simplified where one is known                               *)
intersect(a, b) ==
  CASE a.op = "false" \/ b.op = "false" -> BoolC(FALSE)
    [] a.op = "true" -> b
    [] b.op = "true" -> a
    [] OTHER -> Prim("logic_and", <<a, b>>)
negate(a) ==
  CASE a.op = "true" -> BoolC(FALSE)
    [] a.op = "false" -> BoolC(TRUE)
    [] OTHER -> Prim("negate", <<a>>)
equal(a, b) == Prim("eq", <<a, b>>)

(* array_ref_sub: variables are replaced by copies of what they are bound  *)
(* to; self references to an array that is merged into another get the     *)
(* variables of that other; those to an array that is an operand are       *)
(* replaced by what stands for it in the result.                           *)
RECURSIVE Sub(_, _, _)
Sub(s, e, m) ==
  CASE e.op = "var" /\ e.name \in DOMAIN m.vars -> CopyOf(s, m.vars[e.name])
    [] e.op = "self" /\ e.name \in DOMAIN m.arrays ->
         LET outer == m.arrays[e.name]
         IN  [s |-> s, e |-> Typed(App(Typed(Self(outer.tag), outer.type),
                                       [k \in DOMAIN outer.vars |-> IntVar(outer.vars[k])]), e.type)]
    [] e.op = "self" /\ e.name \in DOMAIN m.recursions -> CopyOf(s, m.recursions[e.name])
    [] OTHER -> MapArgs(LAMBDA s1, a : Sub(s1, a, m), s, e)

Nought == [vars |-> <<>>, arrays |-> <<>>, recursions |-> <<>>]
SubVars(s, e, vars)      == Sub(s, e, [Nought EXCEPT !.vars = vars])
SubArray(s, e, tag, a)   == Sub(s, e, [Nought EXCEPT !.arrays = (tag :> a)])
SubRecursion(s, e, tag, r) == Sub(s, e, [Nought EXCEPT !.recursions = (tag :> r)])

KnowRanges(s, vars, ranges) ==
  [s EXCEPT !.ranges = [v \in Range(vars) |-> ranges[CHOOSE k \in DOMAIN vars : vars[k] = v]] @@ @]

(* make_array_vars, with a pointer for the array they are made for         *)
RangeFor(n) == IF n = -1 THEN Infinite ELSE IntC(n)
NewArray(s, size) ==
  LET new == NewNames(s, <<<<"this", 0>>>> \o [k \in DOMAIN size |-> <<"i", 0>>])
      ranges == [k \in DOMAIN size |-> RangeFor(size[k])]
  IN  [s |-> KnowRanges(new.s, Tail(new.names), ranges),
       tag |-> new.names[1], vars |-> Tail(new.names), ranges |-> ranges]

(* Arguments for an operand of that size in a result with these variables  *)
broadcast(vars, size) == [d \in DOMAIN size |-> IF size[d] = 1 THEN IntC(0) ELSE IntVar(vars[d])]

(* reduce(array, patterns): the domains of cases made disjoint.  D is what *)
(* is left of a case's own condition after all cases before it.            *)
ReducePatterns(e, ap) ==
  LET fixed(k) == FoldLeft(LAMBDA acc, d : IF ap.fix[k][d] = -1 THEN acc
                             ELSE intersect(acc, equal(IntVar(e.vars[d]), IntC(ap.fix[k][d]))),
                           BoolC(TRUE), [d \in DOMAIN ap.fix[k] |-> d])
      add(acc, k) ==
        LET Ce == intersect(fixed(k), ap.args[2 * k - 1])
        IN  [Cg |-> intersect(acc.Cg, negate(Ce)),
             cases |-> acc.cases \o <<intersect(acc.Cg, Ce), ap.args[2 * k]>>]
      cases == FoldLeft(add, [Cg |-> BoolC(TRUE), cases |-> <<>>], [k \in DOMAIN ap.fix |-> k]).cases
  IN  IF Len(cases) = 2 /\ cases[1].op = "true" THEN cases[2] ELSE Typed(Cases(cases), ap.type)

Assertion == "assertion failed"

ResultType(type, n) == type_for(SubSeq(type.size, n + 1, Len(type.size)), type.elem)

RECURSIVE RedArr(_, _), ApplyTo(_, _, _), EtaExpand(_), LambdaLift(_, _), ReduceArray(_, _)

(* What has been done so far: s is the model, e the expression             *)
Done(s, e) == [s |-> s, e |-> e]
Retyped(r, type) == [r EXCEPT !.e = Typed(@, type)]
OverNew(new, rec, type, r) ==
  Done(r.s, Typed(Array(new.tag, new.vars, rec, new.ranges, r.e), type))

(* array_reducer::apply                                                    *)
ReducePart(n, r) ==
  RedArr(r.s, IF Len(r.e.vars) = n THEN Body(r.e)
              ELSE [r.e EXCEPT !.vars = SubSeq(@, n + 1, Len(@)), !.args = SubSeq(@, n + 1, Len(@))])
ApplyTo(s, e, given) ==
  LET n == Min({Len(given), Len(e.type.size)})
      args == SubSeq(given, 1, n)
      type == ResultType(e.type, n)
      bound == [v \in {e.vars[k] : k \in 1..n} |-> args[CHOOSE k \in 1..n : e.vars[k] = v]]
  IN  CASE ~IsArray(e.type) -> Done(s, e)
        [] e.op = "app" -> Done(s, Typed([e EXCEPT !.args = @ \o args], type))
        [] e.op = "array" /\ Len(e.vars) < n -> Done(Stop(s, Assertion), e)
        [] e.op = "array" -> Retyped(ReducePart(n, SubVars(s, e, bound)), type)
        [] OTHER -> Done(s, Typed(App(e, args), type))

EtaOver(new, e) ==
  OverNew(new, e.op = "array" /\ e.rec, e.type,
          ApplyTo(new.s, e, [k \in DOMAIN new.vars |-> IntVar(new.vars[k])]))
EtaExpand(r) ==
  LET e == r.e IN
  IF \/ ~IsArray(e.type)
     \/ e.op = "array" /\ (Body(e).op = "call" \/ Len(e.vars) = Len(e.type.size))
     \/ e.op \in {"external", "call"}
  THEN r ELSE EtaOver(NewArray(r.s, e.type.size), e)

(* lambda_lift: e becomes a global array over the variables free in it.    *)
AsGlobal(name, free, e, r) ==
  [s |-> [r.s EXCEPT !.ids = (name :> Definition(r.e, FALSE)) @@ @, !.global = Append(@, name)],
   e |-> Typed(App(Typed(Ref(name), r.e.type), [k \in DOMAIN free |-> IntVar(free[k])]), e.type)]
ReduceOver(tag, vars, ranges, r) ==
  RedArr(r.s, Typed(Array(tag, vars, FALSE, ranges, r.e),
                    inflate_type(r.e.type, [k \in DOMAIN vars |-> array_size(ranges[k])])))
LiftOver(free, new, e) ==
  LET vars == SubSeq(new.names, 3, Len(new.names))
      ranges == [k \in DOMAIN free |-> new.s.ranges[free[k]]]
      bound == [v \in Range(free) |-> IntVar(vars[CHOOSE k \in DOMAIN free : free[k] = v])]
  IN  AsGlobal(new.names[1], free, e,
               ReduceOver(new.names[2], vars, ranges,
                          SubVars(KnowRanges(new.s, vars, ranges), e, bound)))
LiftFree(s, e, free) == LiftOver(free, NewNames(s, <<<<"_tmp", 0>>, <<"this", 0>>>> \o free), e)
LambdaLift(s, e) == LiftFree(s, e, SetToSeq(FreeVars(e)))

LiftIf(must, s, e) == IF must THEN LambdaLift(s, e) ELSE Done(s, e)

(* reduce(array): an array in it is merged with it.                        *)
Merged(e, ranges, r) ==
  Done(r.s, [e EXCEPT !.vars = @ \o r.e.vars, !.args = ranges \o r.e.args, !.rec = @ \/ r.e.rec])
ReduceInner(nested, r) == ReduceArray(r.s, [nested EXCEPT !.args = Append(Ranges(nested), r.e)])
MergeBody(e, ranges, r) ==
  IF r.s.err # "none" \/ r.e.op # "array"
  THEN Done(r.s, [e EXCEPT !.args = Append(ranges, r.e)])
  ELSE Merged(e, ranges,
              ReduceInner(r.e, SubArray(r.s, Body(r.e), r.e.tag,
                                        [tag |-> e.tag, vars |-> e.vars, type |-> e.type])))
ReduceBody(e, r) ==
  MergeBody(e, r.e.args,
            EtaExpand(RedArr(KnowRanges(r.s, e.vars, r.e.args),
                             IF Body(e).op = "patterns" THEN ReducePatterns(e, Body(e)) ELSE Body(e))))
ReduceArray(s, e) == ReduceBody(e, MapArgs(RedArr, s, [e EXCEPT !.args = Ranges(e)]))

(* reduce(array_app)                                                       *)
ApplyLifted(e, args, lift) ==
  IF lift.e.op \in {"self", "ref"} /\ Len(args) <= Len(lift.e.type.size)
  THEN Done(lift.s, [e EXCEPT !.args[1] = lift.e])
  ELSE ApplyTo(lift.s, lift.e, args)
ReduceApp(r) ==
  LET object == r.e.args[1] IN
  ApplyLifted(r.e, Tail(r.e.args),
              LiftIf(\/ object.op = "call"
                     \/ object.op = "array" /\ (object.rec \/ Body(object).op \in {"cases", "call"}),
                     r.s, object))

(* reduce(func_app), of an external function                               *)
LiftArray(r) == LiftIf(r.e.op = "array", r.s, r.e)
ReduceCall(s, e) ==
  LET object == IF e.args[1].op = "ref" THEN s.ids[e.args[1].name].expr ELSE e.args[1]
      called(r) == Done(r.s, [r.e EXCEPT !.args = <<object>> \o @])
  IN  called(MapArgs(LAMBDA s1, a : LiftArray(RedArr(s1, a)), s, [e EXCEPT !.args = Tail(@)]))

(* reduce(primitive), of whole arrays: an array over the result's size     *)
LiftOperand(s, a) ==
  LiftIf(\/ a.op = "array" /\ (\/ a.rec \/ Body(a).op = "cases"
                               \/ Body(a).op = "call" /\ IsArray(Body(a).type))
         \/ a.op = "call" /\ IsArray(a.type), s, a)
OperateOver(new, e) ==
  LET at(s, a) == IF IsArray(a.type) THEN ApplyTo(s, a, broadcast(new.vars, a.type.size))
                  ELSE Done(s, a)
      operated(r) == Done(r.s, Typed(reduce_primitive(r.e), Scalar(e.type.elem)))
  IN  OverNew(new, FALSE, e.type, operated(MapArgs(at, new.s, e)))
ReduceOnArrays(r) == OperateOver(NewArray(r.s, r.e.type.size), r.e)
ReducePrim(r) ==
  IF IsArray(r.e.type) THEN ReduceOnArrays(MapArgs(LiftOperand, r.s, r.e))
  ELSE Done(r.s, reduce_primitive(r.e))

(* Mutated: cases stay inside of cases.                                    *)
CasesUnmerged(args) == args

(* Merging cases of cases                                                  *)
MergeCases(args) ==
  FoldLeft(LAMBDA acc, k :
      LET domain == args[2 * k - 1]
          e == args[2 * k]
      IN  acc \o (IF e.op = "cases"
                  THEN [j \in DOMAIN e.args |->
                          IF j % 2 = 1 THEN intersect(domain, e.args[j]) ELSE e.args[j]]
                  ELSE <<domain, e>>),
    <<>>, [k \in 1..(Len(args) \div 2) |-> k])

(* F on the expressions of cases, not on their domains                     *)
WithValues(e, r) ==
  Done(r.s, [e EXCEPT !.args = [k \in DOMAIN @ |-> IF k % 2 = 0 THEN r.e.args[k \div 2] ELSE @[k]]])
MapValues(F(_, _), s, e) == WithValues(e, MapArgs(F, s, [e EXCEPT !.args = Values(e)]))

(* Parts of cases, concatenations and enumerations: a call that has an     *)
(* array as its result becomes a definition of its own.                    *)
LiftCall(r) == LiftIf(r.e.op = "call" /\ IsArray(r.e.type), r.s, r.e)
ReduceOperand(s, a) == LiftCall(RedArr(s, a))

(* reduce(case_expr)                                                       *)
CasesOver(new, e) ==
  LET self == Typed(Self(new.tag), e.type)
      apply(r) == ApplyTo(r.s, r.e, broadcast(new.vars, r.e.type.size))
      at(s, a) ==
        CASE ~IsArray(a.type) -> Done(s, a)
          [] a.op = "array" -> apply(SubRecursion(s, a, a.tag, self))
          [] OTHER -> apply(Done(s, a))
      rec == \E k \in DOMAIN Values(e) : Values(e)[k].op = "array" /\ Values(e)[k].rec
      merged(r) == Done(r.s, Typed([r.e EXCEPT !.args = MergeCases(@)], Scalar(e.type.elem)))
  IN  OverNew(new, rec, e.type, merged(MapValues(at, new.s, e)))
ReduceCases(r) ==
  IF IsArray(r.e.type) THEN CasesOver(NewArray(r.s, r.e.type.size), r.e)
  ELSE Done(r.s, [r.e EXCEPT !.args = MergeCases(@)])

(* reduce(operation): concatenation and enumeration become an array by     *)
(* cases, one for the indices of each operand.                             *)
PartLength(e, a) == IF e.op = "enum" \/ ~IsArray(a.type) THEN 1 ELSE a.type.size[1]
PartBounds(row, at, n) ==
  LET lower == Prim("geq", <<row, IntC(at)>>) IN
  CASE n = 1 -> equal(row, IntC(at))
    [] n = -1 -> lower
    [] OTHER -> Prim("logic_and", <<lower, Prim("leq", <<row, IntC(at + n - 1)>>)>>)
PartIndices(e, vars, size, at) ==
  IF e.op = "enum" THEN broadcast(Tail(vars), size)
  ELSE <<IF at = 0 THEN IntVar(vars[1])
         ELSE Typed(Prim("subtract", <<IntVar(vars[1]), IntC(at)>>), Scalar("int"))>>
       \o Tail(broadcast(vars, size))

(* What an operand a at position `at' is to itself, as part of the result: *)
(* its row of an enumeration, or the elements from there on of a           *)
(* concatenation                                                           *)
RowOfResult(new, e, r) == Typed(App(Typed(Self(new.tag), e.type), <<r>>), ResultType(e.type, 1))
ShiftedOperand(new, e, at, a, n) ==
  LET v == n.names[2]
      there == Typed(Prim("add", <<IntVar(v), IntC(at)>>), Scalar("int"))
  IN  SubRecursion(KnowRanges(n.s, <<v>>, <<a.args[1]>>), a, a.tag,
                   Typed(Array(n.names[1], <<v>>, FALSE, <<a.args[1]>>, RowOfResult(new, e, there)),
                         a.type))
RecursiveOperand(new, e, at, s, a) ==
  IF e.op = "enum"
  THEN LET again(r) == RedArr(r.s, r.e)
       IN  again(SubRecursion(s, a, a.tag, RowOfResult(new, e, IntVar(new.vars[1]))))
  ELSE ShiftedOperand(new, e, at, a, NewNames(s, <<<<"this", 0>>, <<"i", 0>>>>))

AddPart(new, e, acc, a) ==
  LET apply(r) == IF IsArray(a.type)
                  THEN ApplyTo(r.s, r.e, PartIndices(e, new.vars, a.type.size, acc.at)) ELSE r
      added(r) == [s |-> r.s,
                   cases |-> acc.cases \o <<PartBounds(Typed(Var(new.vars[1]), NoType), acc.at,
                                                       PartLength(e, a)), r.e>>,
                   at |-> acc.at + PartLength(e, a)]
  IN  added(apply(IF a.op = "array" /\ a.rec THEN RecursiveOperand(new, e, acc.at, acc.s, a)
                  ELSE Done(acc.s, a)))
FlatCases(r, elem) ==
  LET cases == Typed(Cases(r.cases), Scalar(elem)) IN
  IF \E k \in DOMAIN r.cases : k % 2 = 0 /\ r.cases[k].op = "cases"
  THEN RedArr(r.s, cases) ELSE Done(r.s, cases)
JoinOver(new, e) ==
  OverNew(new, FALSE, e.type,
          FlatCases(FoldLeft(LAMBDA acc, a : AddPart(new, e, acc, a),
                             [s |-> new.s, cases |-> <<>>, at |-> 0], e.args),
                    e.type.elem))
ReduceJoin(r) == JoinOver(NewArray(r.s, r.e.type.size), r.e)

(* array_reducer::reduce                                                   *)
RedArr(s, e) ==
  CASE s.err # "none" -> [s |-> s, e |-> e]
    [] e.op = "array" -> ReduceArray(s, e)
    [] e.op = "app" -> ReduceApp(MapArgs(RedArr, s, e))
    [] e.op = "call" -> ReduceCall(s, e)
    [] e.op = "prim" -> ReducePrim(MapArgs(RedArr, s, e))
    [] e.op = "cases" -> ReduceCases(MapValues(ReduceOperand, s, e))
    [] e.op \in {"enum", "concat"} -> ReduceJoin(MapArgs(ReduceOperand, s, e))
    [] e.op = "size" -> [s |-> Stop(s, "Unexpected."), e |-> e]
    [] OTHER -> [s |-> s, e |-> e]

(* array_reducer::process, of one identifier                               *)
ReduceDefinition(s, name) ==
  LET put(r) == [r.s EXCEPT !.ids[name].expr = r.e] IN
  IF s.err # "none" THEN s ELSE put(EtaExpand(RedArr(s, s.ids[name].expr)))

AllRanges(s) ==
  LET arrays == UNION {ArraysIn(s.ids[n].expr) : n \in Range(s.global)}
  IN  [v \in UNION {Range(a.vars) : a \in arrays} |->
         LET a == CHOOSE a \in arrays : v \in Range(a.vars)
         IN  a.args[CHOOSE d \in DOMAIN a.vars : a.vars[d] = v]]

ReduceArrays(s) ==
  [InTurn(ReduceDefinition, [s EXCEPT !.ranges = AllRanges(s)], s.global) EXCEPT !.ranges = <<>>]
=============================================================================
