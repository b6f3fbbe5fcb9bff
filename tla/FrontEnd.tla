------------------------------- MODULE FrontEnd -------------------------------
(***************************************************************************)
(* The passes of compile_module (compiler/compiler.cpp) from source files  *)
(* to the polyhedral model, in their order: modules are parsed, the        *)
(* functional model generated, references analysed, functions reduced,     *)
(* definitions folded, types checked, local definitions made global,       *)
(* arrays reduced and transposed, statements and accesses generated.       *)
(* Outputs and free variables come out of unordered sets, so that they may *)
(* be taken in any order.                                                  *)
(*                                                                         *)
(* A program has either files, which are then to amount to the functional  *)
(* model that it has as well, or the functional model alone.               *)
(***************************************************************************)
EXTENDS PolyhedralGen, ReferenceAnalysis, Generator, ModuleParser

CONSTANT Programs    \* the programs there may be, in a sequence

VARIABLES program,   \* which one is being compiled
          stage,     \* the pass to come
          todo,      \* the outputs or inflations that are left for it
          model      \* all that the passes work on

vars == <<program, stage, todo, model, search, parser>>

(* References in the order in which they are visited: local definitions    *)
(* first                                                                   *)
RECURSIVE ReferencesIn(_)
ReferencesIn(e) ==
  CASE e.op = "ref" -> <<e.name>>
    [] e.op = "scope" -> e.names \o ReferencesIn(e.args[1])
    [] OTHER -> FlattenSeq([k \in DOMAIN e.args |-> ReferencesIn(e.args[k])])

Graph(ids) == [n \in DOMAIN ids |-> ReferencesIn(ids[n].expr)]
ModelOf(ids, global) ==
  [ids |-> ids, global |-> global, issued |-> <<>>, visited |-> {}, err |-> "none", pass |-> 0,
   tags |-> <<>>, busy |-> {}, ranges |-> <<>>, order |-> <<>>, domain |-> {<<>>},
   ph |-> [stmts |-> <<>>, types |-> <<>>, outputs |-> <<>>]]

Init ==
  /\ program \in DOMAIN Programs
  /\ todo = {}
  /\ ParserInit(Programs[program].project)
  /\ IF DOMAIN project.files = {}
     THEN /\ stage = "references"
          /\ model = ModelOf(Programs[program].ids, Programs[program].global)
     ELSE stage = "parsing" /\ model = ModelOf(<<>>, <<>>)
  /\ SearchInit(Graph(model.ids), model.global)

ParseModules ==
  /\ stage = "parsing" /\ ParserNext
  /\ stage' = IF exception' = "none" THEN stage ELSE "error"
  /\ model' = [model EXCEPT !.err = exception']
  /\ UNCHANGED <<program, todo, search>>

(* generator::generate, from modules in their order.  Elements are         *)
(* collected in either order.                                              *)
ModuleAt(k) ==
  LET mod == created[ordered[k]]
  IN  [name |-> mod.name, decls |-> SourceOf(mod).decls,
       imports |-> [a \in DOMAIN mod.imports |-> created[mod.imports[a]].name]]
StartAnalysis(s) ==
  /\ model' = [ModelOf(s.ids, s.global) EXCEPT !.err = s.err]
  /\ IF s.err = "none"
     THEN /\ stage' = "references"
          /\ refs' = Graph(s.ids) /\ order' = s.global
     ELSE stage' = "error" /\ UNCHANGED <<refs, order>>
  /\ UNCHANGED <<program, todo, path, done, marked, parser>>
GenerateFunctional(reversed) ==
  /\ stage = "parsing" /\ Parsed
  /\ StartAnalysis(Generate([k \in DOMAIN ordered |-> ModuleAt(k)], reversed))

Outputs == {n \in Range(model.global) : model.ids[n].out}

(* The pass `now' is through with result s, `then' has those to do.        *)
Pass(now, s, then, items) ==
  /\ stage = now
  /\ model' = s
  /\ IF s.err = "none" THEN stage' = then /\ todo' = items
     ELSE stage' = "error" /\ todo' = {}
  /\ UNCHANGED <<program, search, parser>>

(* One item of the pass `now' is through with result s.                    *)
Part(now, item, s) ==
  /\ item \in todo
  /\ Pass(now, s, now, todo \ {item})

AnalyseReferences ==
  /\ stage = "references" /\ SearchNext
  /\ UNCHANGED <<program, stage, todo, model, parser>>

MarkRecursive ==
  /\ Searched
  /\ Pass("references",
          [model EXCEPT !.ids = [n \in DOMAIN @ |-> [@[n] EXCEPT !.rec = n \in marked]],
                        !.err = IF Outputs = {} THEN "No output defined." ELSE @],
          "functions", Outputs)

CleanIfRight(s) == IF s.err = "none" THEN Clean(s) ELSE s

ReduceFunctions(o) == Part("functions", o, ReduceOutput(model, o))
CleanUpFunctions   == todo = {} /\ LET s == Clean(model) IN Pass("functions", s, "folding", Outputs)
FoldDefinitions(o) == Part("folding", o, FoldOutput(model, o))
CleanUpFolded      == todo = {} /\ Pass("folding", Clean(model), "types", {})
CheckAllTypes ==
  Pass("types", CleanIfRight(CheckTypes(model)), "lifting", {})
LiftDefinitions    == LET s == LiftLocalIds(model) IN Pass("lifting", s, "inflation", Inflations(s))
InflateFor(t)      == Part("inflation", t, InflateAll(model, t))
ReduceAllArrays ==
  todo = {} /\ Pass("inflation", CleanIfRight(ReduceArrays(model)), "transposition", {})
TransposeArrays    == Pass("transposition", Transpose(model), "generation", {})
GenerateModel(atomic) == Pass("generation", GeneratePolyhedra(model, atomic), "compiled", {})

(* Compiling comes to an end.                                              *)
End == stage \in {"compiled", "error"} /\ UNCHANGED vars

Next ==
  \/ ParseModules \/ AnalyseReferences \/ MarkRecursive
  \/ \E item \in todo : ReduceFunctions(item) \/ FoldDefinitions(item) \/ InflateFor(item)
  \/ CleanUpFunctions \/ CleanUpFolded \/ CheckAllTypes \/ LiftDefinitions
  \/ ReduceAllArrays \/ TransposeArrays \/ End
  \/ \E choice \in BOOLEAN : GenerateFunctional(choice) \/ GenerateModel(choice)

Spec == Init /\ [][Next]_vars
-----------------------------------------------------------------------------
(* The elements of an output that are compared: those within its size, as  *)
(* far as Extent goes in each dimension.                                   *)
Extent == 2

Box(size) ==
  {idx \in [DOMAIN size -> 0..Extent] : \A d \in DOMAIN size : size[d] = -1 \/ idx[d] < size[d]}

SizeIn(ids, name) == Size(ids, ids[name].expr, Nowhere, <<>>)
OutputsOf(p) == {n \in DOMAIN p.ids : p.ids[n].out}

Reduced == stage \in {"transposition", "generation", "compiled"}

(* The functional model as it is understood at this point: once arrays     *)
(* have been reduced, a self reference is to the identifier it is in.      *)
RECURSIVE ResolveSelf(_, _)
ResolveSelf(e, name) ==
  IF e.op = "self" THEN Typed(Ref(name), e.type)
  ELSE [e EXCEPT !.args = [k \in DOMAIN @ |-> ResolveSelf(@[k], name)]]
Understood ==
  IF Reduced THEN [n \in DOMAIN model.ids |-> [model.ids[n] EXCEPT !.expr = ResolveSelf(@, n)]]
  ELSE model.ids
Rearranged(seq, name) ==
  IF name \in DOMAIN model.order THEN Permuted(seq, model.order[name]) ELSE seq

MeaningNow(name, idx) ==
  IF stage = "compiled" /\ model.ids[name].expr.op # "external"
  THEN Element(model.ph, name, ElementIndex(model.ph.types[name].size, idx))
  ELSE Meaning(Understood, name, idx)

(* Whatever has been done to a program so far, in whatever order, every    *)
(* element of every output has the value that the program was written for. *)
MeaningKept ==
  LET p == Programs[program] IN
  p.fault = "none" /\ stage # "parsing" =>
    \A o \in OutputsOf(p) : \A idx \in Box(SizeIn(p.ids, o)) :
      Meaning(p.ids, o, idx) \in {Undefined, MeaningNow(o, Rearranged(idx, o))}

(* The statements that have been generated write each element of each      *)
(* array once, inputs and time included, and each element of an output is  *)
(* handed on once, whether element by element or in larger parts.          *)
ElementsOnce ==
  stage = "compiled" =>
    /\ EachOnce(model.ph, model.ph.stmts,
                {a \in DOMAIN model.ph.types : a = TimeArray => UsesTime(model.ph.stmts)})
    /\ EachOnce(model.ph, model.ph.outputs, Outputs)

(* Whatever element a statement reads, the scheduler and the allocator     *)
(* know of it: it is in the relation that the access has been given.       *)
AccessesCovered ==
  stage = "compiled" => \A k \in DOMAIN model.ph.stmts : ReadsCovered(model.ph, model.ph.stmts[k])

(* All names that the program binds: global and local definitions, arrays, *)
(* and variables                                                           *)
RECURSIVE Bindings(_, _)
Bindings(ids, e) ==
  LET own == CASE e.op = "array" -> <<e.tag>> \o e.vars
               [] e.op = "func" -> e.vars
               [] e.op = "scope" -> e.names \o FlattenSeq([k \in DOMAIN e.names |->
                                                             Bindings(ids, ids[e.names[k]].expr)])
               [] OTHER -> <<>>
  IN  own \o FlattenSeq([k \in DOMAIN e.args |-> Bindings(ids, e.args[k])])

AllBindings ==
  model.global \o FlattenSeq([k \in DOMAIN model.global |->
                                Bindings(model.ids, model.ids[model.global[k]].expr)])

(* No name in use without something that binds it                          *)
RECURSIVE Scoped(_, _, _)
Scoped(ids, e, bound) ==
  LET below(names) == \A k \in DOMAIN e.args : Scoped(ids, e.args[k], bound \cup names) IN
  CASE e.op \in {"ref", "var", "param", "self"} -> e.name \in bound
    [] e.op = "array" -> below({e.tag} \cup Range(e.vars))
    [] e.op = "func" -> below(Range(e.vars))
    [] e.op = "scope" ->
         /\ below(Range(e.names))
         /\ \A n \in Range(e.names) : Scoped(ids, ids[n].expr, bound \cup Range(e.names))
    [] OTHER -> below({})

(* Nothing is bound twice, and nothing is in use that is not bound: copies *)
(* share no definition and no variable with what they are copies of,       *)
(* cleaning up drops nothing that is needed, and no variable escapes from  *)
(* its array.  While variables are being inflated some of them are free.   *)
NamesInPlace ==
  stage # "error" =>
    /\ IsInjective(AllBindings)
    /\ stage # "inflation" =>
         \A n \in Range(model.global) : Scoped(Understood, Understood[n].expr, Range(model.global))

(* The sizes that the type checker has found, and that later passes put    *)
(* together, are those of the values.                                      *)
TypesRight ==
  (Reduced \/ stage \in {"lifting", "inflation"}) =>
    \A n \in Range(model.global) :
      (stage = "inflation" => todo = {}) =>
        model.ids[n].expr.type.size = SizeIn(Understood, n)

(* What polyhedral_gen can make statements of, the grammar at the head of  *)
(* array_reduction.cpp: scalar expressions, by cases or not, over all the  *)
(* variables of an array.  Only external functions have whole arrays as    *)
(* arguments and results.                                                  *)
RECURSIVE Simple(_)
Indexed(e) ==
  e.op = "app" /\ e.args[1].op \in {"ref", "self"} /\ \A k \in 2..Len(e.args) : Simple(e.args[k])
IsCall(e) ==
  /\ e.op = "call" /\ e.args[1].op = "external"
  /\ \A k \in 2..Len(e.args) : Simple(e.args[k]) \/ e.args[k].op = "ref" \/ Indexed(e.args[k])
Simple(e) ==
  \/ e.op \in {"int", "true", "false", "var"}
  \/ e.op = "ref" /\ ~IsArray(e.type)
  \/ e.op = "prim" /\ \A k \in DOMAIN e.args : Simple(e.args[k])
  \/ Indexed(e) /\ ~IsArray(e.type) /\ Len(e.args) - 1 = Len(e.args[1].type.size)
  \/ IsCall(e) /\ ~IsArray(e.type)

NormalForm ==
  Reduced =>
    \A n \in Range(model.global) :
      LET e == model.ids[n].expr IN
      \/ e.op = "external" \/ IsCall(e) \/ Simple(e)
      \/ /\ e.op = "array"
         /\ IF Len(e.vars) = Len(e.type.size)
            THEN Simple(Body(e)) \/ (Body(e).op = "cases" /\ \A k \in DOMAIN Body(e).args :
                                                                Simple(Body(e).args[k]))
            ELSE IsCall(Body(e))

(* A program comes to the end it should, in whatever order its parts are   *)
(* taken: it is compiled, or it is rejected for what is wrong with it. The *)
(* exception is a loop with a member that is not marked: the type checker  *)
(* may come to that one first.                                             *)
RightVerdict ==
  /\ stage = "error" =>
       \/ model.err = Programs[program].fault
       \/ model.err = Untyped /\ ~LoopMembersMarked
  /\ stage = "compiled" => Programs[program].fault = "none"
=============================================================================
