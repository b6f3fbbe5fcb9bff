---------------------------- MODULE FuncReduction ----------------------------
(***************************************************************************)
(* Functions reduced away by applying them (frontend/func_copy.cpp,        *)
(* frontend/func_reduction.cpp).  The state s that visitors hand on has    *)
(* the table of identifiers, the numbers of names issued, the identifiers  *)
(* visited so far, and an error.                                           *)
(***************************************************************************)
EXTENDS FunctionalModel

Lookup(map, name) == IF name \in DOMAIN map THEN map[name] ELSE name
Renaming(old, new) == [n \in Range(old) |-> new[CHOOSE k \in DOMAIN old : old[k] = n]]

(* copier: everything that an expression binds is bound anew.  A self      *)
(* reference is one to the innermost array that is being copied, or stays  *)
(* as it is when there is none.                                            *)
RECURSIVE Copy(_, _, _, _)
CopyArgs(s, e, ctx, top) == MapArgs(LAMBDA s1, a : Copy(s1, a, ctx, top), s, e)
CopyArray(e, ctx, new) ==
  CopyArgs(new.s, [e EXCEPT !.tag = new.names[1], !.vars = Tail(new.names)],
           Renaming(e.vars, Tail(new.names)) @@ ctx, new.names[1])
CopyFunction(e, ctx, top, new) ==
  CopyArgs(new.s, [e EXCEPT !.vars = new.names], Renaming(e.vars, new.names) @@ ctx, top)
CopyScope(e, ctx, top, new) ==
  LET inner == Renaming(e.names, new.names) @@ ctx
      put(old, name, r) ==
        [r.s EXCEPT !.ids = (name :> [old EXCEPT !.expr = r.e, !.count = 0]) @@ @]
      copy(s, k) ==
        put(s.ids[e.names[k]], new.names[k], Copy(s, s.ids[e.names[k]].expr, inner, top))
  IN  CopyArgs(InTurn(copy, new.s, [k \in DOMAIN e.names |-> k]), [e EXCEPT !.names = new.names],
               inner, top)

Copy(s, e, ctx, top) ==
  CASE e.op \in {"ref", "var", "param"} ->
         [s |-> s, e |-> [e EXCEPT !.name = Lookup(ctx, @)]]
    [] e.op = "self" ->
         [s |-> s, e |-> [e EXCEPT !.name = IF top = None THEN @ ELSE top]]
    [] e.op = "array" -> CopyArray(e, ctx, NewNames(s, <<e.tag>> \o e.vars))
    [] e.op = "func" -> CopyFunction(e, ctx, top, NewNames(s, e.vars))
    [] e.op = "scope" -> CopyScope(e, ctx, top, NewNames(s, e.names))
    [] e.op = "patterns" ->
         CopyArgs(s, [e EXCEPT !.vars = [k \in DOMAIN @ |-> Lookup(ctx, @[k])]], ctx, top)
    [] OTHER -> CopyArgs(s, e, ctx, top)

(* Mutated: what is to be copied is shared.                                *)
Shared(s, e) == [s |-> s, e |-> e]

CopyOf(s, e) == Copy(s, e, <<>>, None)
-----------------------------------------------------------------------------
(* func_var_sub: references to the function's variables are replaced by    *)
(* what they are bound to, which are references.                           *)
RECURSIVE Substitute(_, _, _)
Substitute(s, e, bound) ==
  LET visit(s1, a) == Substitute(s1, a, bound) IN
  CASE e.op = "param" /\ e.name \in DOMAIN bound -> [s |-> s, e |-> bound[e.name]]
    [] e.op = "scope" ->
         LET local(s1, n) ==
               LET r == Substitute(s1, s1.ids[n].expr, bound)
               IN  [r.s EXCEPT !.ids[n].expr = r.e]
         IN  MapArgs(visit, InTurn(local, s, e.names), e)
    [] OTHER -> MapArgs(visit, s, e)

IsReference(e) == e.op \in {"ref", "var", "param"}

(* func_reduction::apply: an argument that is not a reference becomes a    *)
(* local identifier around the function's body; a function that is not     *)
(* applied to all its arguments remains one.                               *)
Apply(s, f, args) ==
  LET local == SelectSeq([k \in DOMAIN args |-> k], LAMBDA k : ~IsReference(args[k]))
      new == NewNames(s, [k \in DOMAIN local |-> f.vars[local[k]]])
      nameOf(k) == new.names[CHOOSE j \in DOMAIN local : local[j] = k]
      defined == [new.s EXCEPT !.ids =
        [n \in Range(new.names) |->
           Definition(args[local[CHOOSE j \in DOMAIN local : new.names[j] = n]], FALSE)] @@ @]
      bound == [v \in {f.vars[k] : k \in DOMAIN args} |->
                  LET k == CHOOSE j \in DOMAIN args : f.vars[j] = v
                  IN  IF IsReference(args[k]) THEN args[k] ELSE Ref(nameOf(k))]
      body == Substitute(defined, f.args[1], bound)
      expr == IF local = <<>> THEN body.e ELSE Let(new.names, body.e)
  IN  [s |-> body.s,
       e |-> IF Len(args) < Len(f.vars)
             THEN [f EXCEPT !.vars = SubSeq(@, Len(args) + 1, Len(@)), !.args = <<expr>>]
             ELSE expr]

(* try_expose_function: a function inside of scopes becomes a function     *)
(* whose body has the scopes.                                              *)
RECURSIVE Innermost(_), PutInside(_, _)
Innermost(e) == IF e.op = "scope" THEN Innermost(e.args[1]) ELSE e
PutInside(e, body) ==
  IF e.op = "scope" THEN [e EXCEPT !.args = <<PutInside(e.args[1], body)>>] ELSE body

(* Mutated: a function inside of a scope is not found.                     *)
AsItIs(e) == e

try_expose_function(e) ==
  LET f == Innermost(e)
  IN  IF f.op = "func" THEN [f EXCEPT !.args = <<PutInside(e, f.args[1])>>] ELSE e

Recursive     == "Recursive function not allowed."
TooManyArgs   == "Can not apply remaining arguments."

RECURSIVE Reduce(_, _), ReduceId(_, _), ApplyAll(_, _, _)

(* func_reduction::reduce                                                  *)
ReduceId(s, name) ==
  LET r == Reduce([s EXCEPT !.visited = @ \cup {name}], s.ids[name].expr)
  IN  [r.s EXCEPT !.ids[name].expr = try_expose_function(r.e)]

(* func_reduction::visit.  A function's body is not visited before it has  *)
(* been applied, and the arguments are not before they have been bound.    *)
Reduce(s, e) ==
  CASE s.err # "none" -> [s |-> s, e |-> e]
    [] e.op = "func" -> [s |-> s, e |-> e]
    [] e.op = "ref" ->
         LET s1 == IF e.name \in s.visited THEN s ELSE ReduceId(s, e.name)
             id == s1.ids[e.name]
         IN  CASE id.expr.op # "func" -> [s |-> s1, e |-> e]
               [] id.rec -> [s |-> Stop(s1, Recursive), e |-> e]
               [] OTHER -> CopyOf(s1, id.expr)
    [] e.op = "call" ->
         LET r == Reduce(s, e.args[1]) IN ApplyAll(r.s, r.e, Tail(e.args))
    [] e.op = "scope" ->
         MapArgs(Reduce, InTurn(LAMBDA s1, n : ReduceId(s1, n), s, e.names), e)
    [] OTHER -> MapArgs(Reduce, s, e)

(* The loop of visit_func_app, in which what an application has given may  *)
(* be a function again.  Arguments may remain for external functions, and  *)
(* for variables in functions that are yet to be applied.                  *)
ApplyAll(s, object, args) ==
  LET f == try_expose_function(object)
      n == Min({Len(f.vars), Len(args)})
      applied == Apply(s, f, SubSeq(args, 1, n))
      again == Reduce(applied.s, applied.e)
      external == f.op = "ref" /\ s.ids[f.name].expr.op = "external"
  IN  CASE args = <<>> -> [s |-> s, e |-> object]
        [] f.op = "func" -> ApplyAll(again.s, again.e, SubSeq(args, n + 1, Len(args)))
        [] f.op = "param" \/ external -> [s |-> s, e |-> Call(f, args)]
        [] OTHER -> [s |-> Stop(s, TooManyArgs), e |-> Call(f, args)]

(* compile_module has a func_reduction of its own for each output.         *)
ReduceOutput(s, name) == [ReduceId([s EXCEPT !.visited = {}], name) EXCEPT !.visited = {}]
=============================================================================
