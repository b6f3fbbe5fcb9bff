--------------------------- MODULE PolyhedralModel ---------------------------
(***************************************************************************)
(* The polyhedral model (common/ph_model.hpp) as the front end makes it,   *)
(* and what it means.                                                      *)
(*                                                                         *)
(* A statement has a box of iterators, a condition on them, an expression, *)
(* and the indices at which it writes to its array, the other dimensions   *)
(* being written as a whole.  Expressions are those of the functional      *)
(* model with iterators and reads in the place of variables and arrays.    *)
(* An array of size <<>> has a single dimension whose only index is 0.     *)
(***************************************************************************)
EXTENDS FunctionalModel

Iter(d)    == [op |-> "iter", dim |-> d, args |-> <<>>, type |-> Scalar("int")]
AnyInteger(p) == [op |-> "unknown", num |-> p, args |-> <<>>, type |-> Scalar("int")]
(* An access reads at an index, and has a relation for the scheduler: an   *)
(* affine expression for each of the indices, in which unknowns stand for  *)
(* what is not affine.                                                     *)
Read(array, index, relation, type) ==
  [op |-> "read", array |-> array, relation |-> relation, args |-> index, type |-> type]

Statement(name, box, holds, e, dest) ==
  [array |-> name, box |-> box, holds |-> holds, expr |-> e, dest |-> dest]

ArrayBox(size) == IF size = <<>> THEN <<1>> ELSE size

TimeArray == <<".time", 0>>

(* What is written at all iterators                                        *)
Iterators(n) == [d \in 1..n |-> Iter(d)]

-----------------------------------------------------------------------------
(* What the polyhedral model means.  Instances are looked at up to an      *)
(* index; that of a statement which reaches an element has the element's   *)
(* own indices.                                                            *)
MaxIndex == 5
WithinBox(box, i) == \A d \in DOMAIN box : i[d] >= 0 /\ (box[d] = -1 \/ i[d] < box[d])
Points(box) == {i \in [DOMAIN box -> 0..MaxIndex] : WithinBox(box, i)}

RECURSIVE Value(_, _, _, _), Element(_, _, _)

(* Conditions and destinations do not depend on any array.                 *)
OnIterators(e, i) == Value(<<>>, e, i, <<>>)
Holds(s, i) == s.holds.op = "true" \/ OnIterators(s.holds, i) = 1
Instances(s) == {i \in Points(s.box) : Holds(s, i)}
WritesTo(s, i, idx) == \A d \in DOMAIN s.dest : OnIterators(s.dest[d], i) = idx[d]
Reaching(s, idx) == [d \in DOMAIN s.box |-> IF d \in DOMAIN s.dest THEN idx[d] ELSE 0]
Reaches(s, idx) ==
  LET i == Reaching(s, idx) IN WithinBox(s.box, i) /\ Holds(s, i) /\ WritesTo(s, i, idx)

(* The element of an array at an index: the value of the statement that    *)
(* writes it.  Whole arrays come as arguments of calls only; one element   *)
(* represents them.                                                        *)
ElementIndex(size, idx) == IF size = <<>> THEN <<0>> ELSE SubSeq(idx, 1, Len(size))
Element(ph, array, idx) ==
  LET writers == {k \in DOMAIN ph.stmts : ph.stmts[k].array = array /\ Reaches(ph.stmts[k], idx)}
  IN  IF writers = {} THEN Undefined
      ELSE LET s == ph.stmts[CHOOSE k \in writers : TRUE]
           IN  Value(ph, s.expr, Reaching(s, idx), idx)
AllOf(ph, e, i) == [k \in DOMAIN e.args |-> Value(ph, e.args[k], i, <<>>)]
ReadElement(ph, array, idx) ==
  IF Undefined \in Range(idx) THEN Undefined
  ELSE Element(ph, array, ElementIndex(ph.types[array].size, idx \o <<1, 1, 1>>))
Value(ph, e, i, idx) ==
  CASE e.op = "int" -> e.val
    [] e.op = "true" -> 1
    [] e.op = "false" -> 0
    [] e.op = "iter" -> i[e.dim]
    [] e.op = "prim" -> Operate(e.kind, AllOf(ph, e, i), e.kind = "negate" /\ IsTruth(e.args[1]))
    [] e.op = "read" -> ReadElement(ph, e.array, AllOf(ph, e, i))
    [] e.op = "call" ->
         CallExternal(e.args[1].label,
                      AllOf(ph, [e EXCEPT !.args = Tail(@)], i)
                        \o SubSeq(idx, Len(idx) - Len(e.type.size) + 1, Len(idx)))
    [] e.op = "external" -> InputValue(e.label, IF IsArray(e.decl) THEN idx ELSE <<>>)

-----------------------------------------------------------------------------
(* The instances among these statements that access an element by their    *)
(* destinations (which outputs read from)                                  *)
AccessesTo(stmts, array, idx) ==
  UNION {{<<k, i>> : i \in {j \in Instances(stmts[k]) : WritesTo(stmts[k], j, idx)}} :
           k \in {m \in DOMAIN stmts : stmts[m].array = array}}

Elements(size) == {idx \in Points(ArrayBox(size)) : \A d \in DOMAIN idx : idx[d] <= 2}

(* Every element of the arrays is accessed exactly once.                   *)
EachOnce(ph, stmts, arrays) ==
  \A a \in arrays : \A idx \in Elements(ph.types[a].size) :
    Cardinality(AccessesTo(stmts, a, idx)) = 1

(* The value of an affine expression with unknowns.  Division rounds down  *)
(* here, while the program's own rounds towards 0.                         *)
Rounded(kind, v) ==
  CASE kind = "divide_integer" /\ v[2] > 0 -> v[1] \div v[2]
    [] kind = "modulo" /\ v[2] > 0 -> v[1] % v[2]
    [] OTHER -> Operate(kind, v, FALSE)
RECURSIVE Estimate(_, _, _)
Estimate(e, i, unknown) ==
  CASE e.op = "unknown" -> unknown[e.num]
    [] e.op = "prim" -> Rounded(e.kind, [k \in DOMAIN e.args |-> Estimate(e.args[k], i, unknown)])
    [] OTHER -> OnIterators(e, i)

(* What an access reads, if it reads anything, is in its relation for some *)
(* values of the unknowns.                                                 *)
MaxEstimate == 10
Unknowns(r) == {p.num : p \in {q \in UNION {Parts(r.relation[k]) : k \in DOMAIN r.relation} :
                                q.op = "unknown"}}
Covered(ph, r, i) ==
  LET at == AllOf(ph, r, i) IN
  \/ Undefined \in Range(at)
  \/ \E unknown \in [Unknowns(r) -> 0..MaxEstimate] :
       \A d \in DOMAIN at : Estimate(r.relation[d], i, unknown) = at[d]
ReadsOf(s) == {p \in Parts(s.expr) : p.op = "read"}
ReadsCovered(ph, s) ==
  \A r \in ReadsOf(s) : \A i \in {j \in Instances(s) : \A d \in DOMAIN j : j[d] <= 3} : Covered(ph, r, i)
=============================================================================
