------------------------------- MODULE Folding -------------------------------
(***************************************************************************)
(* Unused identifiers cleaned up (frontend/scope_cleanup.cpp), those that  *)
(* stand for simple expressions replaced by them (frontend/folding.cpp),   *)
(* and arithmetic on constants (frontend/prim_reduction.cpp).              *)
(***************************************************************************)
EXTENDS FuncReduction

WithoutNames(e, names) ==
  IF names = <<>> THEN e.args[1] ELSE [e EXCEPT !.names = names]

(* scope_cleanup's visitor: s.visited are the identifiers found in use.    *)
RECURSIVE CleanUp(_, _), UseDefinition(_, _)
UseDefinition(s, name) ==
  LET r == CleanUp([s EXCEPT !.visited = @ \cup {name}], s.ids[name].expr)
  IN  [r.s EXCEPT !.ids[name].expr = r.e]

CleanUp(s, e) ==
  CASE e.op = "ref" ->
         LET counted == [s EXCEPT !.ids[e.name].count = @ + 1]
         IN  [e |-> e, s |-> IF e.name \in s.visited THEN counted
                             ELSE UseDefinition(counted, e.name)]
    [] e.op = "scope" ->
         LET zero == [s EXCEPT !.ids = [n \in Range(e.names) |-> [s.ids[n] EXCEPT !.count = 0]] @@ @]
             r == MapArgs(CleanUp, zero, e)
         IN  [s |-> r.s, e |-> WithoutNames(r.e, SelectSeq(e.names, LAMBDA n : n \in r.s.visited))]
    [] OTHER -> MapArgs(CleanUp, s, e)

(* scope_cleanup::clean.  What is in use starts with the outputs.          *)
Clean(s) ==
  LET outputs == SelectSeq(s.global, LAMBDA n : s.ids[n].out)
      start == [s EXCEPT
        !.visited = Range(outputs),
        !.ids = [n \in Range(s.global) |->
                   [s.ids[n] EXCEPT !.count = IF s.ids[n].out THEN 1 ELSE 0]] @@ @]
      done == InTurn(LAMBDA s1, n : UseDefinition(s1, n), start, outputs)
  IN  [done EXCEPT !.global = SelectSeq(@, LAMBDA n : n \in done.visited),
                   !.ids = [n \in done.visited |-> @[n]],
                   !.visited = {}]
-----------------------------------------------------------------------------
(* reduce_primitive, on integers that are known.  The quotient is          *)
(* truncated towards 0.                                                    *)
Arithmetic == {"add", "subtract", "multiply", "divide_integer", "negate"}

reduce_primitive(e) ==
  LET known == \A k \in DOMAIN e.args : e.args[k].op = "int"
      v == [k \in DOMAIN e.args |-> e.args[k].val]
  IN  CASE e.kind \notin Arithmetic \/ ~known -> e
        [] e.kind = "divide_integer" -> IntC(Truncated(v[1], v[2]))
        [] OTHER -> IntC(Operate(e.kind, v, FALSE))

RECURSIVE IsFoldable(_)
IsFoldable(e) ==
  \/ e.op \in {"int", "true", "false", "inf", "ref", "var", "param", "self", "size"}
  \/ e.op = "app" /\ IsFoldable(e.args[1])

(* folding::visit.  A scope expression drops the identifiers that have no  *)
(* reference left, and then perhaps can be folded itself.                  *)
RECURSIVE Fold(_, _)
Fold(s, e) ==
  CASE e.op = "ref" ->
         LET visit(s1) == LET r == Fold([s1 EXCEPT !.visited = @ \cup {e.name}], s1.ids[e.name].expr)
                          IN  [r.s EXCEPT !.ids[e.name].expr = r.e]
             s2 == IF e.name \in s.visited THEN s ELSE visit(s)
             id == s2.ids[e.name]
         IN  IF ~id.rec /\ id.decl = NoType /\ IsFoldable(id.expr)
             THEN CopyOf([s2 EXCEPT !.ids[e.name].count = @ - 1], id.expr)
             ELSE [s |-> s2, e |-> e]
    [] e.op = "scope" ->
         LET r == MapArgs(Fold, s, e)
         IN  [s |-> r.s, e |-> WithoutNames(r.e, SelectSeq(e.names, LAMBDA n : r.s.ids[n].count > 0))]
    [] e.op = "prim" -> LET r == MapArgs(Fold, s, e) IN [s |-> r.s, e |-> reduce_primitive(r.e)]
    [] OTHER -> MapArgs(Fold, s, e)

(* folding::process.  An output that refers to itself is visited once more *)
(* through that reference in the code, on the same expression; what that   *)
(* changes is changed anyway.                                              *)
FoldOutput(s, name) ==
  LET r == Fold([s EXCEPT !.visited = {name}], s.ids[name].expr)
  IN  [r.s EXCEPT !.ids[name].expr = r.e, !.visited = {}]
=============================================================================
