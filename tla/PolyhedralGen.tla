--------------------------- MODULE PolyhedralGen -----------------------------
(***************************************************************************)
(* Statements and array accesses made of the functional model              *)
(* (polyhedral_gen in frontend/ph_model_gen.cpp).                          *)
(***************************************************************************)
EXTENDS ArrayTranspose, PolyhedralModel

NotLinear     == "Not a linear constraint."
NotAffine     == "Not an integer affine expression."
WrongVariable == "Invalid type of variable in affine expression."
NotDisjoint   == "Array subdomains are not disjoint."
NotCovered    == "Array subdomains do not cover entire array."
InfiniteDim   == "A dimension other dimension than 0 is infinite."

(* What takes the place of an expression that can not be translated        *)
Failed(message) == [op |-> "failed", message |-> message, args |-> <<>>, type |-> NoType]
Faults(e) == {p.message : p \in {q \in Parts(e) : q.op = "failed"}}

(* What is known while a statement is made: the identifier that it is for, *)
(* the variables that are its iterators, and the types of all arrays       *)
Dim(c, var) == CHOOSE d \in DOMAIN c.vars : c.vars[d] = var

(* Does an affine expression, with iterators, have a value of its own?     *)
IsFixed(e) == \A p \in Parts(e) : p.op \notin {"iter", "unknown"}

(* to_affine_expr, to_affine_set                                           *)
AffineNode(e) ==
  CASE e.kind \in {"add", "subtract", "negate"} -> e
    [] e.kind = "multiply" /\ \E k \in DOMAIN e.args : IsFixed(e.args[k]) -> e
    [] e.kind \in {"divide_integer", "modulo"} /\ IsFixed(e.args[2]) -> e
    [] OTHER -> Failed(NotAffine)
RECURSIVE to_affine_expr(_, _), to_affine_set(_, _)
to_affine_expr(c, e) ==
  CASE e.op = "int" -> e
    [] e.op = "var" -> Iter(Dim(c, e.name))
    [] e.op = "ref" -> Failed(WrongVariable)
    [] e.op = "prim" -> AffineNode([e EXCEPT !.args = [k \in DOMAIN @ |-> to_affine_expr(c, @[k])]])
    [] OTHER -> Failed(NotAffine)
to_affine_set(c, e) ==
  CASE e.op \in {"true", "false"} -> e
    [] e.op = "prim" /\ e.kind \in Comparison ->
         [e EXCEPT !.args = [k \in DOMAIN @ |-> to_affine_expr(c, @[k])]]
    [] e.op = "prim" /\ e.kind \in {"negate", "logic_and", "logic_or"} ->
         [e EXCEPT !.args = [k \in DOMAIN @ |-> to_affine_set(c, @[k])]]
    [] OTHER -> Failed(NotLinear)

(* piecewise_affine_expr_builder::build: n is the number of the unknown to *)
(* come.  An operation that turns out not to be affine is an unknown       *)
(* itself, beside those among its operands.                                *)
Pieces == {"add", "subtract", "negate", "multiply", "divide_integer", "modulo", "max", "min"}
StaysAffine(e) ==
  CASE e.kind = "multiply" -> \E k \in DOMAIN e.args : IsFixed(e.args[k])
    [] e.kind \in {"divide_integer", "modulo"} -> IsFixed(e.args[2])
    [] OTHER -> TRUE
NewUnknown(n) == [n |-> n + 1, e |-> AnyInteger(n)]
Combined(e, r) ==
  LET whole == [e EXCEPT !.args = r.es] IN
  CASE Faults(whole) # {} \/ StaysAffine(whole) -> [n |-> r.n, e |-> whole]
    [] OTHER -> NewUnknown(r.n)
OneMore(acc, r) == [n |-> r.n, es |-> Append(acc.es, r.e)]
RECURSIVE build(_, _, _)
BuildAll(c, es, n) == FoldLeft(LAMBDA acc, e : OneMore(acc, build(c, e, acc.n)),
                               [n |-> n, es |-> <<>>], es)
build(c, e, n) ==
  CASE e.op = "int" -> [n |-> n, e |-> e]
    [] e.op = "var" -> [n |-> n, e |-> Iter(Dim(c, e.name))]
    [] e.op = "ref" -> [n |-> n, e |-> Failed(WrongVariable)]
    [] e.op = "prim" /\ e.kind \in Pieces -> Combined(e, BuildAll(c, e.args, n))
    [] OTHER -> NewUnknown(n)

(* Mutated: unknowns are numbered anew for each index.                     *)
RelationByIndex(c, es) == [k \in DOMAIN es |-> build(c, es[k], 1).e]

Relation(c, es) == BuildAll(c, es, 1).es

(* visit.  A variable with an infinite range is the time array's element   *)
(* at that index, unless it is in an affine part of an index.              *)
TimeRead(d) == Read(TimeArray, <<Iter(d)>>, <<Iter(d)>>, Scalar("int"))

RECURSIVE visit(_, _), VisitIndex(_, _)
visit_ref(c, e) ==
  IF e.op = "ref" THEN Read(e.name, <<>>, <<>>, c.types[e.name])
  ELSE IF c.ranges[Dim(c, e.name)].op = "inf" THEN TimeRead(Dim(c, e.name))
  ELSE Iter(Dim(c, e.name))
Accessed(array, indices, relation, type) ==
  IF \E k \in DOMAIN relation : Faults(relation[k]) # {} THEN Failed(WrongVariable)
  ELSE Read(array, indices, relation, type)
visit_array_app(c, e) ==
  LET array == IF e.args[1].op = "self" THEN c.name ELSE e.args[1].name IN
  Accessed(array, [k \in DOMAIN Tail(e.args) |-> VisitIndex(c, e.args[k + 1])],
           Relation(c, Tail(e.args)), ResultType(c.types[array], Len(e.args) - 1))
visit_func_app(c, e) ==
  IF e.args[1].op # "external" THEN Failed("Unexpected object of function application.")
  ELSE [e EXCEPT !.args = [k \in DOMAIN @ |-> IF k = 1 THEN @[k] ELSE visit(c, @[k])]]
visit(c, e) ==
  CASE e.op \in {"ref", "var"} -> visit_ref(c, e)
    [] e.op = "app" -> visit_array_app(c, e)
    [] e.op = "call" -> visit_func_app(c, e)
    [] OTHER -> [e EXCEPT !.args = [k \in DOMAIN @ |-> visit(c, @[k])]]
VisitIndex(c, e) ==
  CASE build(c, e, 1).e.op = "unknown" -> visit(c, e)
    [] e.op = "var" -> Iter(Dim(c, e.name))
    [] OTHER -> [e EXCEPT !.args = [k \in DOMAIN @ |-> VisitIndex(c, @[k])]]

(* make_stmt.  A call with an array as its result writes the dimensions    *)
(* that are left, an element is written at all iterators.                  *)
Destination(size, box, e) ==
  CASE e.op = "call" /\ IsArray(e.type) -> Iterators(Min({Len(box), Len(size) - Len(e.type.size)}))
    [] size = <<>> -> <<>>
    [] OTHER -> Iterators(Len(box))
make_stmt(c, holds, e) ==
  LET size == c.types[c.name].size
      box == IF c.vars = <<>> THEN <<1>> ELSE SubSeq(ArrayBox(size), 1, Len(c.vars))
  IN  Statement(c.name, box, to_affine_set(c, holds), visit(c, e), Destination(size, box, e))

(* make_statements: one for each case                                      *)
Context(s, types, name) ==
  LET e == s.ids[name].expr IN
  [name |-> name, types |-> types,
   vars |-> IF e.op = "array" THEN e.vars ELSE <<>>,
   ranges |-> IF e.op = "array" THEN Ranges(e) ELSE <<>>]
make_statements(c, e) ==
  CASE e.op # "array" -> <<make_stmt(c, BoolC(TRUE), e)>>
    [] Body(e).op = "cases" ->
         [k \in 1..(Len(Body(e).args) \div 2) |->
            make_stmt(c, Body(e).args[2 * k - 1], Body(e).args[2 * k])]
    [] OTHER -> <<make_stmt(c, BoolC(TRUE), Body(e))>>

(* Every element is written by one of the statements, and by one only.     *)
CoverageFault(stmts) ==
  CASE Len(stmts) = 1 /\ stmts[1].holds.op = "true" -> "none"
    [] \E k, j \in DOMAIN stmts : k # j /\ Instances(stmts[k]) \cap Instances(stmts[j]) # {} ->
         NotDisjoint
    [] UNION {Instances(stmts[k]) : k \in DOMAIN stmts} # Points(stmts[1].box) -> NotCovered
    [] OTHER -> "none"

(* make_input, make_output: a call for each element if I/O is atomic,      *)
(* otherwise for each row of a stream, otherwise for the whole array.      *)
(* Whether the calls of one statement are to be made in order is left to   *)
(* ClockedIO.                                                              *)
IsStream(size) == size # <<>> /\ size[1] = -1
make_io(name, size, atomic, e) ==
  LET box == IF atomic THEN ArrayBox(size) ELSE IF IsStream(size) THEN <<-1>> ELSE <<1>>
  IN  Statement(name, box, BoolC(TRUE), e,
                IF atomic \/ IsStream(size) THEN Iterators(Len(box)) ELSE <<>>)

(* make_time_array: time[0] = 0, time[t] = time[t - 1] + 1                 *)
Before == Prim("subtract", <<Iter(1), IntC(1)>>)
Later(holds) ==
  Statement(TimeArray, <<-1>>, holds,
            Prim("add", <<Read(TimeArray, <<Before>>, <<Before>>, Scalar("int")), IntC(1)>>), <<Iter(1)>>)
AtStart == Statement(TimeArray, <<1>>, BoolC(TRUE), IntC(0), <<IntC(0)>>)

(* Mutated: the statement for later times begins at the start.             *)
TimeFromStart == <<AtStart, Later(Prim("geq", <<Iter(1), IntC(0)>>))>>

TimeStatements == <<AtStart, Later(Prim("less", <<IntC(0), Iter(1)>>))>>

UsesTime(stmts) == \E k \in DOMAIN stmts : \E r \in ReadsOf(stmts[k]) : r.array = TimeArray

(* process: inputs, then what is computed, then time if it is needed       *)
StatementFault(stmts) ==
  LET faults == UNION {Faults(stmts[k].holds) \cup Faults(stmts[k].expr) : k \in DOMAIN stmts}
  IN  IF faults = {} THEN CoverageFault(stmts) ELSE CHOOSE m \in faults : TRUE
WithTime(stmts) == stmts \o (IF UsesTime(stmts) THEN TimeStatements ELSE <<>>)
Assembled(s, types, inputs, outputs, parts) ==
  [s EXCEPT
     !.err = IF \E k \in DOMAIN parts : StatementFault(parts[k]) # "none"
             THEN StatementFault(parts[CHOOSE k \in DOMAIN parts : StatementFault(parts[k]) # "none"])
             ELSE @,
     !.ph = [types |-> (TimeArray :> type_for(<<-1>>, "int")) @@ types,
             stmts |-> WithTime(inputs \o FlattenSeq(parts)), outputs |-> outputs]]
Generated(s, types, ins, computed, outs, atomic) ==
  LET io(n) == make_io(n, types[n].size, atomic, s.ids[n].expr) IN
  IF \E n \in DOMAIN types : \E d \in 2..Len(types[n].size) : types[n].size[d] = -1
  THEN Stop(s, InfiniteDim)
  ELSE Assembled(s, types, [k \in DOMAIN ins |-> io(ins[k])], [k \in DOMAIN outs |-> io(outs[k])],
                 [k \in DOMAIN computed |->
                    make_statements(Context(s, types, computed[k]), s.ids[computed[k]].expr)])
GeneratePolyhedra(s, atomic) ==
  LET input(n) == s.ids[n].expr.op = "external" IN
  Generated(s, [n \in Range(s.global) |-> s.ids[n].expr.type],
            SelectSeq(s.global, input), SelectSeq(s.global, LAMBDA n : ~input(n)),
            SelectSeq(s.global, LAMBDA n : s.ids[n].out /\ ~input(n)), atomic)
=============================================================================
