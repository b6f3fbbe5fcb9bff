----------------------------- MODULE ArrayInflate -----------------------------
(***************************************************************************)
(* Local identifiers made global (frontend/array_inflate.cpp).  One that   *)
(* refers to a variable of the array it was local to becomes an array over *)
(* that variable, and so does every one that refers to it; references to   *)
(* them are applied to the variable.                                       *)
(***************************************************************************)
EXTENDS TypeCheck

(* lift_local_ids                                                          *)
RECURSIVE Lift(_, _)
LiftId(s, name) ==
  LET r == Lift(s, s.ids[name].expr) IN [r.s EXCEPT !.ids[name].expr = r.e]
Lift(s, e) ==
  IF e.op = "scope"
  THEN LET local(s1, n) == LiftId([s1 EXCEPT !.global = Append(@, n)], n)
       IN  Lift(InTurn(local, s, e.names), e.args[1])
  ELSE MapArgs(Lift, s, e)

LiftLocalIds(s) == InTurn(LiftId, s, s.global)

(* analyze_references and analyze_free_vars: the users of each identifier, *)
(* where each variable comes from, and where it is free.                   *)
Users(s, name) == {n \in Range(s.global) : name \in NamesIn(s.ids[n].expr)}

ArraysIn(e)  == {p \in Parts(e) : p.op = "array"}
BoundIn(e)   == UNION {Range(a.vars) : a \in ArraysIn(e)}
VarsIn(e)    == {p.name : p \in {q \in Parts(e) : q.op = "var"}}
FreeVars(e)  == VarsIn(e) \ BoundIn(e)

Source(s, var) == CHOOSE n \in Range(s.global) : var \in BoundIn(s.ids[n].expr)
FreeIn(s, var) == {n \in Range(s.global) : var \in FreeVars(s.ids[n].expr)}

(* close_under_references, stopping at the source of the variable          *)
RECURSIVE CloseUnderReferences(_, _, _)
CloseUnderReferences(s, names, source) ==
  LET more == UNION {Users(s, n) : n \in names \ {source}} \ names
  IN  IF more = {} THEN names ELSE CloseUnderReferences(s, names \cup more, source)

(* All inflations there are to do, found before the first is done          *)
Inflations(s) ==
  {[var |-> v, source |-> Source(s, v),
    involved |-> CloseUnderReferences(s, FreeIn(s, v) \cup {Source(s, v)}, Source(s, v))] :
     v \in UNION {FreeVars(s.ids[n].expr) : n \in Range(s.global)}}

(* Mutated: the new dimension comes last.                                  *)
InflatedBehind(type, sizes) == type_for(type.size \o sizes, type.elem)

inflate_type(type, sizes) == type_for(sizes \o type.size, type.elem)
array_size(range) == IF range.op = "int" THEN range.val ELSE -1

(* visit_ref: inflated identifiers are applied to the variable `by', which *)
(* takes the place of the free one.                                        *)
RECURSIVE ApplyInflated(_, _, _, _)
ApplyInflated(e, todo, by, size) ==
  CASE e.op = "ref" /\ e.name \in todo.involved \ {todo.source} ->
         Typed(App(Typed(e, inflate_type(e.type, <<size>>)), <<Typed(Var(by), Scalar("int"))>>),
               e.type)
    [] e.op = "var" /\ e.name = todo.var -> [e EXCEPT !.name = by]
    [] OTHER -> [e EXCEPT !.args = [k \in DOMAIN @ |-> ApplyInflated(@[k], todo, by, size)]]

RangeOf(s, todo) ==
  LET a == CHOOSE a \in ArraysIn(s.ids[todo.source].expr) : todo.var \in Range(a.vars)
  IN  a.args[CHOOSE d \in DOMAIN a.vars : a.vars[d] = todo.var]

(* inflate(id)                                                             *)
Inflate(s, todo, name) ==
  LET range == RangeOf(s, todo)
      size  == array_size(range)
      new   == NewNames(s, <<<<"this", 0>>, todo.var>>)
      expr  == s.ids[name].expr
      wrapped == Typed(Array(new.names[1], <<new.names[2]>>, FALSE, <<range>>, expr),
                       inflate_type(expr.type, <<size>>))
  IN  IF name = todo.source
      THEN [s EXCEPT !.ids[name].expr = ApplyInflated(expr, todo, todo.var, size)]
      ELSE [new.s EXCEPT !.ids[name].expr = ApplyInflated(wrapped, todo, new.names[2], size)]

InflateAll(s, todo) ==
  InTurn(LAMBDA s1, n : Inflate(s1, todo, n), s, SetToSeq(todo.involved))
=============================================================================
