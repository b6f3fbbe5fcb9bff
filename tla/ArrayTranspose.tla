---------------------------- MODULE ArrayTranspose ----------------------------
(***************************************************************************)
(* The infinite dimension of each array moved to the front                 *)
(* (frontend/array_transpose.cpp): first the variables of all arrays, then *)
(* the indices wherever they are read.  s.order has the new order of the   *)
(* dimensions of each array that has an infinite one.                      *)
(***************************************************************************)
EXTENDS ArrayReduction

TwoStreams    == "has more than 1 unbounded dimension."
NotAnArray    == "Array transposition: Unexpected expression type for id"
ImplicitDim   == "Can not reorder implicit array dimension."
ImplicitIndex == "Can not reorder implicit array arguments."

Streaming(size) == {d \in DOMAIN size : size[d] = -1}
Permuted(seq, order) == [k \in DOMAIN seq |-> seq[order[k]]]

(* transpose_order, for sizes with one infinite dimension                  *)
transpose_order(size) ==
  LET d == CHOOSE d \in Streaming(size) : TRUE
  IN  [k \in DOMAIN size |-> CASE k = 1 -> d [] k <= d -> k - 1 [] OTHER -> k]

transpose_array(s, name) ==
  LET e == s.ids[name].expr
      size == e.type.size
      order == transpose_order(size)
      new == type_for(Permuted(size, order), e.type.elem)
      moved == IF e.op = "array"
               THEN [e EXCEPT !.vars = Permuted(@, order),
                              !.args = Permuted(Ranges(e), order) \o <<Body(e)>>]
               ELSE e
  IN  CASE s.err # "none" \/ Streaming(size) = {} -> s
        [] Cardinality(Streaming(size)) > 1 -> Stop(s, TwoStreams)
        [] e.op \notin {"array", "external"} -> Stop(s, NotAnArray)
        [] e.op = "array" /\ \E k \in DOMAIN e.vars : order[k] > Len(e.vars) -> Stop(s, ImplicitDim)
        [] OTHER -> [s EXCEPT !.ids[name].expr = Typed(moved, new),
                              !.order = (name :> order) @@ @]

(* visit_array_app.  What is applied within the indices is not visited.    *)
RECURSIVE TransposeAccesses(_, _, _)
TransposeAccesses(s, e, name) ==
  LET object == e.args[1]
      array == IF object.op = "self" THEN name ELSE object.name
      args == Tail(e.args)
  IN  CASE e.op = "array" ->
             LET r == TransposeAccesses(s, Body(e), name)
             IN  [s |-> r.s, e |-> [e EXCEPT !.args = Ranges(e) \o <<r.e>>]]
        [] e.op # "app" -> MapArgs(LAMBDA s1, a : TransposeAccesses(s1, a, name), s, e)
        [] array \notin DOMAIN s.order -> [s |-> s, e |-> e]
        [] \E k \in DOMAIN args : s.order[array][k] > Len(args) -> [s |-> Stop(s, ImplicitIndex), e |-> e]
        [] OTHER -> [s |-> s, e |-> [e EXCEPT !.args = <<object>> \o Permuted(args, s.order[array])]]

transpose_access(s, name) ==
  LET r == TransposeAccesses(s, s.ids[name].expr, name) IN [r.s EXCEPT !.ids[name].expr = r.e]

Transpose(s) == InTurn(transpose_access, InTurn(transpose_array, s, s.global), s.global)
=============================================================================
