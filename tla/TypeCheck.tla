------------------------------ MODULE TypeCheck ------------------------------
(***************************************************************************)
(* The type checker (frontend/type_check.cpp) as far as sizes go, and of   *)
(* element types whether they are known: three passes over all definitions *)
(* by way of the references among them.  The first two assign types, the   *)
(* third finds out whether they still hold.  Beside what other visitors    *)
(* hand on, the state has the types of arrays by their tags, the number of *)
(* the pass and the definitions in progress.                               *)
(***************************************************************************)
EXTENDS Folding

SizeMismatch    == "size mismatch"
AfterInfinite   == "Can not concatenate to end of infinite array."
NotInferred     == "Type could not be completely inferred."
NoSolution      == "No type satisfying the constraints."
NotAsDeclared   == "Explicit type does not match expression type."
SelfApplication == "Array self reference must be applied exactly."
NotScalar       == "Array argument is not a scalar."
NotPositive     == "Array size not positive"
NotConstant     == "Array size is not a constant integer or infinity"
UnexpectedFunction == "Unexpected function."
WrongArgs       == "Wrong number of arguments in function application"
Untyped         == "Id has no inferred or explicit type."
NotConstraint   == "Not an affine integer constraint."
NotAffineExpr   == "Not an affine integer expression."
DomainEmpty     == "Inferred array domain is empty."
PartUndefined   == "Part of array domain is undefined."
NotData         == "Expression can not be used as data."

Unknown == "?"

(* result_type and common_type, when element types are int, bool, infinity *)
(* or unknown: an unknown one goes with any.                               *)
CommonElem(types) == LET known == Range(types) \ {Unknown}
                     IN  IF known = {} THEN Unknown ELSE CHOOSE t \in known : TRUE
ResultElem(kind, types) ==
  CASE CommonElem(types) = Unknown -> Unknown
    [] kind \in Boolean -> "bool"
    [] OTHER -> CommonElem(types)

IsConstant(e) == e.op \in {"int", "true", "false"}

(* type_checker::assign                                                    *)
Assign(s, e, type) ==
  CASE s.err # "none" -> [s |-> s, e |-> e]
    [] s.pass < 3 -> [s |-> s, e |-> Typed(e, type)]
    [] e.type = NoType \/ e.type.elem = Unknown -> [s |-> Stop(s, NotInferred), e |-> e]
    [] e.type # type -> [s |-> Stop(s, NoSolution), e |-> e]
    [] OTHER -> [s |-> s, e |-> e]

CommonSize(types) == FoldLeft(LAMBDA acc, t : common_array_size(acc, t.size), <<>>, types)

(* A type put together from those of the operands, if their sizes allow it *)
AssignCommon(s, e, size, elem) ==
  IF size = Mismatch THEN [s |-> Stop(s, SizeMismatch), e |-> e]
  ELSE Assign(s, e, type_for(size, elem))

TypesOf(es) == [k \in DOMAIN es |-> es[k].type]
Elems(types) == [k \in DOMAIN types |-> types[k].elem]
Values(e) == [k \in 1..(Len(e.args) \div 2) |-> e.args[2 * k]]

(* Concatenation adds up the first dimensions and stops behind an infinite *)
(* operand.                                                                *)
ConcatSize(types) ==
  LET firsts == [k \in DOMAIN types |-> IF IsArray(types[k]) THEN types[k].size[1] ELSE 1]
      rests  == [k \in DOMAIN types |->
                   IF IsArray(types[k]) THEN type_for(Tail(types[k].size), "?") ELSE Scalar("?")]
      total  == IF \E k \in DOMAIN firsts : firsts[k] = -1 THEN -1
                ELSE FoldLeft(LAMBDA a, b : a + b, 0, firsts)
  IN  IF CommonSize(rests) = Mismatch THEN Mismatch ELSE <<total>> \o CommonSize(rests)

RECURSIVE Check(_, _), Process(_, _)

(* process(id).  A definition that is met while it is being processed is   *)
(* left alone.                                                             *)
Processed(s, name, r) ==
  LET done == [r.s EXCEPT !.ids[name].expr = r.e, !.busy = s.busy, !.visited = @ \cup {name}]
      decl == s.ids[name].decl
  IN  CASE r.s.err # "none" -> r.s
        [] s.pass = 3 /\ decl # NoType /\ decl # r.e.type -> Stop(done, NotAsDeclared)
        [] r.e.type.elem = "infinity" -> Stop(done, NotData)
        [] OTHER -> done
Process(s, name) ==
  IF s.err # "none" \/ name \in s.visited \/ name \in s.busy THEN s
  ELSE Processed(s, name, Check([s EXCEPT !.busy = @ \cup {name}], s.ids[name].expr))

(* A reference has the declared type, or the one found for the expression  *)
(* in this pass or the last, and is replaced by a value that is constant.  *)
TypeReference(s, e, id) ==
  CASE id.decl # NoType -> Assign(s, e, id.decl)
    [] id.expr.type # NoType -> Assign(s, e, id.expr.type)
    [] id.rec -> Assign(s, e, Scalar(Unknown))
    [] OTHER -> [s |-> Stop(s, Untyped), e |-> e]
CheckRef(s, e) ==
  LET id == s.ids[e.name]
      r == TypeReference(s, e, id)
  IN  IF IsConstant(id.expr) THEN [r EXCEPT !.e = id.expr] ELSE r

(* ensure_expression: identifiers in affine expressions are replaced by    *)
(* what they stand for.  Where it fails, what has been replaced to the     *)
(* left stays so.                                                          *)
AffineKind(kind, kinds) ==
  LET constant(k) == kinds[k] = "constant" IN
  CASE kind \in {"add", "subtract", "multiply", "divide_integer", "modulo"} /\ constant(1) /\ constant(2) ->
         "constant"
    [] \/ kind \in {"add", "subtract"}
       \/ kind = "multiply" /\ (constant(1) \/ constant(2))
       \/ kind \in {"divide_integer", "modulo"} /\ constant(2) -> "variable"
    [] OTHER -> "no"
RECURSIVE ensure_expression(_, _), EnsureOperands(_, _)
EnsureOperands(ids, es) ==
  FoldLeft(LAMBDA acc, e :
      LET r == IF "no" \in Range(acc.kinds) THEN [e |-> e, kind |-> "no"] ELSE ensure_expression(ids, e)
      IN  [es |-> Append(acc.es, r.e), kinds |-> Append(acc.kinds, r.kind)],
    [es |-> <<>>, kinds |-> <<>>], es)
EnsuredNode(e, r) ==
  [e |-> [e EXCEPT !.args = r.es],
   kind |-> IF "no" \in Range(r.kinds) THEN "no" ELSE AffineKind(e.kind, r.kinds)]
EnsuredReference(e, r) == IF r.kind = "no" THEN [e |-> e, kind |-> "no"] ELSE r
ensure_expression(ids, e) ==
  CASE e.op = "int" -> [e |-> e, kind |-> "constant"]
    [] e.op = "var" -> [e |-> e, kind |-> "variable"]
    [] e.op = "ref" /\ ~ids[e.name].rec -> EnsuredReference(e, ensure_expression(ids, ids[e.name].expr))
    [] e.op = "prim" -> EnsuredNode(e, EnsureOperands(ids, e.args))
    [] OTHER -> [e |-> e, kind |-> "no"]

(* ensure_contraint                                                        *)
RECURSIVE ensure_contraint(_, _), EnsureAll(_, _)
EnsureAll(ids, es) ==
  FoldLeft(LAMBDA acc, e :
      LET r == IF acc.err # "none" THEN [e |-> e, err |-> acc.err] ELSE ensure_contraint(ids, e)
      IN  [es |-> Append(acc.es, r.e), err |-> r.err],
    [es |-> <<>>, err |-> "none"], es)
EnsuredTerms(e, r) ==
  [e |-> [e EXCEPT !.args = r.es],
   err |-> IF "no" \in Range(r.kinds) THEN NotAffineExpr ELSE "none"]
EnsuredParts(e, r) == [e |-> [e EXCEPT !.args = r.es], err |-> r.err]
ensure_contraint(ids, e) ==
  CASE e.op \in {"true", "false"} -> [e |-> e, err |-> "none"]
    [] e.op = "prim" /\ e.kind \in Comparison -> EnsuredTerms(e, EnsureOperands(ids, e.args))
    [] e.op = "prim" /\ e.kind \in {"negate", "logic_and", "logic_or"} ->
         EnsuredParts(e, EnsureAll(ids, e.args))
    [] OTHER -> [e |-> e, err |-> NotConstraint]

(* array_var_bounds, on top of a domain of the variables around the array. *)
(* Domains are sets of points, looked at up to Window in each dimension.   *)
Window == 5
WithBounds(domain, vars, ranges) ==
  {p @@ q : p \in domain,
            q \in {v \in [Range(vars) -> 0..Window] :
                     \A k \in DOMAIN vars : ranges[k].op = "int" => v[vars[k]] < ranges[k].val}}
PointHolds(guard, p) ==
  guard.op = "true" \/ Eval(<<>>, guard, [Nowhere EXCEPT !.var = p], <<>>, <<>>) = 1
Fits(fix, vars, p) == \A d \in DOMAIN fix : fix[d] \in {-1, p[vars[d]]}

(* process_array.  Each part is checked where its pattern and its guard    *)
(* hold and those of the parts before do not.                              *)
VarSizes(ranges) == [k \in DOMAIN ranges |-> IF ranges[k].op = "int" THEN ranges[k].val ELSE -1]

(* A self reference has the type found for its array before, or one with   *)
(* the sizes of the array's variables.                                     *)
KnowArray(s, e, ranges) ==
  [s EXCEPT !.tags =
     (e.tag :> [vars |-> Len(e.vars),
                type |-> IF e.type # NoType THEN e.type ELSE type_for(VarSizes(ranges), Unknown)]) @@ @]

(* The parts that have been checked: defined is where.                     *)
PartChecked(acc, guard, domain, r) ==
  [acc EXCEPT !.s = [r.s EXCEPT !.domain = acc.s.domain],
              !.args = @ \o <<guard, r.e>>, !.defined = @ \cup domain]
CheckValue(acc, guard, value, domain) ==
  PartChecked(acc, guard, domain, Check([acc.s EXCEPT !.domain = domain], value))
CheckGuarded(acc, ap, k, r) ==
  IF r.err # "none" THEN [acc EXCEPT !.s = Stop(@, r.err)]
  ELSE CheckValue(acc, r.e, ap.args[2 * k],
                  {p \in acc.bounds \ acc.defined : Fits(ap.fix[k], ap.vars, p) /\ PointHolds(r.e, p)})
CheckGuard(acc, ap, k, r) ==
  IF r.s.err # "none" THEN [acc EXCEPT !.s = r.s]
  ELSE CheckGuarded([acc EXCEPT !.s = r.s], ap, k, ensure_contraint(r.s.ids, r.e))
CheckParts(s, ap, bounds) ==
  FoldLeft(LAMBDA acc, k : IF acc.s.err # "none" THEN acc
                           ELSE CheckGuard(acc, ap, k, Check(acc.s, ap.args[2 * k - 1])),
           [s |-> s, args |-> <<>>, defined |-> {}, bounds |-> bounds], [k \in DOMAIN ap.fix |-> k])

(* Ranges that are not given are as far as the array is defined.           *)
InferredRange(var, range, defined) ==
  LET last == Max({p[var] : p \in defined})
  IN  IF range.op # "none" THEN range ELSE IF last = Window THEN Infinite ELSE IntC(last + 1)
InferredRanges(vars, ranges, defined) ==
  [k \in DOMAIN vars |-> InferredRange(vars[k], ranges[k], defined)]
TypeArray(s, e, ranges, body, defined) ==
  LET whole == [e EXCEPT !.args = Append(ranges, body)] IN
  IF WithBounds(s.domain, e.vars, ranges) # defined THEN [s |-> Stop(s, PartUndefined), e |-> whole]
  ELSE Assign(s, whole, type_for(VarSizes(ranges) \o body.type.size, body.type.elem))
CompleteArray(e, ranges, defined, r) ==
  CASE r.s.err # "none" -> r
    [] defined = {} -> [s |-> Stop(r.s, DomainEmpty), e |-> e]
    [] OTHER -> TypeArray(r.s, e, InferredRanges(e.vars, ranges, defined), r.e, defined)
TypeParts(e, ranges, acc) ==
  LET body == [Body(e) EXCEPT !.args = acc.args]
      types == TypesOf(Values(body))
  IN  IF acc.s.err # "none" THEN [s |-> acc.s, e |-> e]
      ELSE CompleteArray(e, ranges, acc.defined,
                         AssignCommon(acc.s, body, CommonSize(types), CommonElem(Elems(types))))
CheckRanges(e, r) ==
  LET ranges == r.e.args IN
  CASE r.s.err # "none" -> [s |-> r.s, e |-> e]
    [] \E k \in DOMAIN ranges : ranges[k].op = "int" /\ ranges[k].val < 1 ->
         [s |-> Stop(r.s, NotPositive), e |-> e]
    [] \E k \in DOMAIN ranges : ranges[k].op \notin {"int", "inf", "none"} ->
         [s |-> Stop(r.s, NotConstant), e |-> e]
    [] OTHER -> TypeParts(e, ranges, CheckParts(KnowArray(r.s, e, ranges), Body(e),
                                                WithBounds(r.s.domain, e.vars, ranges)))
CheckArray(s, e) == CheckRanges(e, MapArgs(Check, s, [e EXCEPT !.args = Ranges(e)]))

(* visit_array_app                                                         *)
FlatIndices(s, e) == [e EXCEPT !.args = [k \in DOMAIN @ |-> IF k = 1 THEN @[k] ELSE ensure_expression(s.ids, @[k]).e]]
CheckApp(s, e) ==
  LET type == e.args[1].type
      n == Len(e.args) - 1
  IN  CASE e.args[1].op = "self" /\ s.tags[e.args[1].name].vars # n ->
             [s |-> Stop(s, SelfApplication), e |-> e]
        [] \E k \in 2..Len(e.args) : IsArray(e.args[k].type) ->
             [s |-> Stop(s, NotScalar), e |-> e]
        [] OTHER -> Assign(s, FlatIndices(s, e), type_for(SubSeq(type.size, n + 1, Len(type.size)), type.elem))

(* #a@d is a number once the type of a is known.                           *)
CheckSize(s, e) ==
  LET size == e.args[1].type.size
      d == e.args[2].val
      n == IF d \in DOMAIN size THEN size[d] ELSE 1
  IN  [s |-> s, e |-> IF n >= 0 THEN IntC(n) ELSE Infinite]

(* What is checked after the children have been                            *)
CheckNode(r) ==
  LET s == r.s
      e == r.e
      types == TypesOf(e.args)
  IN
  CASE s.err # "none" -> [s |-> s, e |-> e]
    [] e.op = "prim" ->
         IF reduce_primitive(e) # e THEN [s |-> s, e |-> reduce_primitive(e)]
         ELSE AssignCommon(s, e, CommonSize(types), ResultElem(e.kind, Elems(types)))
    [] e.op = "enum" ->
         IF CommonSize(types) = Mismatch THEN [s |-> Stop(s, SizeMismatch), e |-> e]
         ELSE Assign(s, e, type_for(<<Len(e.args)>> \o CommonSize(types), CommonElem(Elems(types))))
    [] e.op = "concat" ->
         IF \E k \in 1..(Len(types) - 1) : IsArray(types[k]) /\ types[k].size[1] = -1
         THEN [s |-> Stop(s, AfterInfinite), e |-> e]
         ELSE AssignCommon(s, e, ConcatSize(types), CommonElem(Elems(types)))
    [] e.op = "app" -> CheckApp(s, e)
    [] e.op = "size" -> CheckSize(s, e)
    [] e.op = "call" ->
         IF Len(e.args) - 1 # s.ids[e.args[1].name].expr.params THEN [s |-> Stop(s, WrongArgs), e |-> e]
         ELSE Assign(s, e, types[1])
    [] OTHER -> [s |-> s, e |-> e]

Check(s, e) ==
  CASE s.err # "none" -> [s |-> s, e |-> e]
    [] e.op \in {"int", "true", "false", "inf", "none"} -> [s |-> s, e |-> e]
    [] e.op = "ref" -> CheckRef(Process(s, e.name), e)
    [] e.op = "var" -> Assign(s, e, Scalar("int"))
    [] e.op = "self" -> Assign(s, e, s.tags[e.name].type)
    [] e.op = "external" -> Assign(s, e, e.decl)
    [] e.op = "func" -> [s |-> Stop(s, UnexpectedFunction), e |-> e]
    [] e.op = "array" -> CheckArray(s, e)
    [] e.op = "scope" ->
         LET as(r) == Assign(r.s, r.e, r.e.args[1].type)
         IN  as(MapArgs(Check, InTurn(Process, s, e.names), e))
    [] OTHER -> CheckNode(MapArgs(Check, s, e))

(* type_checker::process                                                   *)
CheckTypes(s) ==
  LET pass(s1, n) == InTurn(Process, [s1 EXCEPT !.pass = n, !.visited = {}], s.global)
  IN  [InTurn(pass, s, <<1, 2, 3>>) EXCEPT !.pass = 0, !.visited = {}, !.tags = <<>>, !.domain = {<<>>}]
=============================================================================
