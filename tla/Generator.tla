------------------------------ MODULE Generator ------------------------------
(***************************************************************************)
(* From syntax trees to the functional model (functional_gen.cpp): names   *)
(* are resolved and identifiers, variables and arrays made.                *)
(*                                                                         *)
(* Trees are expressions of the functional model but for the kinds below.  *)
(* The state has the scopes from the outside in (m_context), each giving   *)
(* names what refers to them, the names of the definitions around          *)
(* (m_name_stack), the arrays around (m_array_stack) and what is known of  *)
(* each, the names of other modules that are final (m_final_ids), and how  *)
(* many variables and arrays have been made.                               *)
(***************************************************************************)
EXTENDS FunctionalModel

Tree(op, content, args) == [op |-> op, content |-> content, args |-> args, type |-> NoType]
Name(name)          == Tree("identifier", name, <<>>)
Qualified(mod, name) == Tree("qualified_id", <<mod, name>>, <<>>)
LocalScope(decls, value) == Tree("local_scope", decls, <<value>>)
BindingExpr(decl)   == Tree("binding", decl, <<>>)
Lambda(params, body) == Tree("lambda", params, <<body>>)
Compose(left, right) == Tree("func_compose", <<>>, <<left, right>>)
(* Patterns: an index is a name, or none and a fixed value; then domains   *)
(* and expressions in turn.                                                *)
AnyIndex(name)   == [name |-> name, value |-> -1]
FixedIndex(k)    == [name |-> "", value |-> k]
Pattern(indexes, domains) == [indexes |-> indexes, domains |-> domains]
ArrayDef(ranges, patterns) == Tree("array_def", patterns, ranges)

Declare(form, name, params, content, type) ==
  [form |-> form, name |-> name, params |-> params, content |-> content, type |-> type]
Define(name, e)          == Declare("binding", name, <<>>, e, NoType)
DefineFunc(name, params, e) == Declare("binding", name, params, e, NoType)
DefineElement(name, pattern) == Declare("element", name, <<>>, <<pattern>>, NoType)
DeclareType(name, type)  == Declare("type", name, <<>>, NoRange, type)
InputDecl(name, label, type) == Declare("input", name, <<>>, label, type)
OutputDecl(name)         == Declare("output", name, <<>>, NoRange, NoType)
OutputType(name, type)   == Declare("output_type", name, <<>>, NoRange, type)
OutputValue(name, e)     == Declare("output_value", name, <<>>, e, NoType)

InScope         == "Name already in scope."
UndefinedName   == "Undefined name."
AlreadyDefined  == "Name already defined."
AlreadyTyped    == "Name already has a type declaration."
AlreadyExternal == "Name has already been defined as input or external function."
SelfOutside     == "Array self reference without array."
IndexCount      == "Number of indexes does not match number of array dimensions."

-----------------------------------------------------------------------------
(* context: scopes within scopes                                           *)
EnterScope(s) == [s EXCEPT !.scopes = Append(@, <<>>)]
ExitScope(s)  == [s EXCEPT !.scopes = Front(@)]
BindName(s, name, what) ==
  IF name \in DOMAIN Last(s.scopes) THEN Stop(s, InScope)
  ELSE [s EXCEPT !.scopes[Len(s.scopes)] = @ @@ (name :> what)]
BindNames(s, names, things) ==
  InTurn(LAMBDA t, k : BindName(t, names[k], things[k]), s, [k \in DOMAIN names |-> k])

qualified_name(s, name) == FoldLeft(LAMBDA acc, n : acc \o n \o ".", "", s.names) \o name

(* A name is what the innermost scope says that has it.                    *)
Enclosing(s, name) == {d \in DOMAIN s.scopes : name \in DOMAIN s.scopes[d]}
LookUp(s, name) ==
  IF Enclosing(s, name) = {} THEN [s |-> Stop(s, UndefinedName), e |-> NoRange]
  ELSE [s |-> s, e |-> s.scopes[Max(Enclosing(s, name))][name]]

(* What is not the name of an import is taken for the name of a module.    *)
LookUpIn(s, mod, name) ==
  LET known == IF mod \in DOMAIN s.imports THEN s.imports[mod] ELSE mod
      id == <<known \o "." \o name, 0>>
  IN  IF id \in s.final THEN [s |-> s, e |-> Ref(id)]
      ELSE [s |-> Stop(s, UndefinedName), e |-> NoRange]

(* New variables and arrays, told apart by their numbers                   *)
MakeVars(s, bases) ==
  [s |-> [s EXCEPT !.made = @ + Len(bases)],
   vars |-> [k \in DOMAIN bases |-> <<bases[k], -(s.made + k)>>]]
NewTag(s) == <<"array", -(s.made + 1)>>
PushArray(s) ==
  [s EXCEPT !.made = @ + 1, !.arrays = Append(@, NewTag(s)),
            !.known = @ @@ (NewTag(s) :> [vars |-> <<>>, rec |-> FALSE])]
PopArray(s) == [s EXCEPT !.arrays = Front(@)]
SetVars(s, tag, n) ==
  LET new == MakeVars(s, [k \in 1..n |-> "v"]) IN [new.s EXCEPT !.known[tag].vars = new.vars]

(* Declarations of elements of one array are taken together, behind all    *)
(* others, in the order of a hash table: with two such arrays in a scope,  *)
(* which is the bound here, in the order of their names in the text or in  *)
(* the reverse one.                                                        *)
process_array_element_declarations(decls, reversed) ==
  LET isElement(d) == d.form = "element"
      elements == SelectSeq(decls, isElement)
      firsts == SelectSeq([k \in DOMAIN elements |-> k],
                  LAMBDA k : \A j \in 1..(k - 1) : elements[j].name # elements[k].name)
      patterns(name) == FlattenSeq([k \in DOMAIN elements |->
                          IF elements[k].name = name THEN elements[k].content ELSE <<>>])
      arrays == [k \in DOMAIN firsts |->
                   [elements[firsts[k]] EXCEPT !.content = patterns(elements[firsts[k]].name)]]
  IN  SelectSeq(decls, LAMBDA d : ~isElement(d)) \o (IF reversed THEN Reverse(arrays) ELSE arrays)

(* The identifier for a declaration, new but where one in the same scope   *)
(* has been declared already.  Its name tells it from all others, if it is *)
(* not that of another local scope of the same definition.                 *)
MakeId(s, name, id) ==
  [s |-> [BindName(s, name, Ref(id)) EXCEPT !.ids = (id :> Definition(NoRange, FALSE)) @@ @],
   id |-> id, new |-> TRUE]
make_id_for_declaration(s, decl) ==
  LET scope == Last(s.scopes) IN
  IF decl.name \in DOMAIN scope /\ scope[decl.name].op = "ref"
  THEN [s |-> s, id |-> scope[decl.name].name, new |-> FALSE]
  ELSE MakeId(s, decl.name, <<qualified_name(s, decl.name), 0>>)
-----------------------------------------------------------------------------
RECURSIVE do_expr(_, _), do_declarations(_, _), apply_declaration(_, _, _)

(* A list of trees, from left to right                                     *)
do_exprs(s, es) == MapArgs(do_expr, s, Node("list", es))

FuncOf(vars, r) == [s |-> ExitScope(r.s), e |-> Func(vars, r.e)]
make_func(s, params, body) ==
  LET new == MakeVars(s, [k \in DOMAIN params |-> qualified_name(s, params[k])])
      inside == BindNames(EnterScope(new.s), params, [k \in DOMAIN params |-> Param(new.vars[k])])
  IN  FuncOf(new.vars, IF inside.err = "none" THEN do_expr(inside, body) ELSE [s |-> inside, e |-> body])

Composed(var, r) ==
  [s |-> r.s, e |-> Func(<<var>>, Call(r.e.args[1], <<Call(r.e.args[2], <<Param(var)>>)>>))]
do_func_comp(s, e) ==
  LET new == MakeVars(s, <<qualified_name(s, "_x")>>) IN Composed(new.vars[1], do_exprs(new.s, e.args))

(* Primitive functions have precedence over all names in scope.            *)
m_prim_ops == {"min", "max"}
Applied(object, r) ==
  IF object.op = "identifier" /\ object.content \in m_prim_ops
  THEN [s |-> r.s, e |-> Prim(object.content, r.e.args)]
  ELSE LET f == IF r.s.err = "none" THEN do_expr(r.s, object) ELSE [s |-> r.s, e |-> object]
       IN  [s |-> f.s, e |-> Call(f.e, r.e.args)]
do_func_apply(s, e) == Applied(e.args[1], do_exprs(s, Tail(e.args)))

(* A pattern: variables are made by the first one where no range has been  *)
(* declared.                                                               *)
WithVars(s, n) ==
  LET tag == Last(s.arrays) IN
  CASE s.known[tag].vars = <<>> -> SetVars(s, tag, n)
    [] Len(s.known[tag].vars) # n -> Stop(s, IndexCount)
    [] OTHER -> s
BindIndexes(s, indexes) ==
  LET vars == s.known[Last(s.arrays)].vars
      named == SelectSeq([d \in DOMAIN indexes |-> d], LAMBDA d : indexes[d].value = -1)
  IN  IF s.err # "none" THEN EnterScope(s)
      ELSE BindNames(EnterScope(s), [k \in DOMAIN named |-> indexes[named[k]].name],
                     [k \in DOMAIN named |-> Var(vars[named[k]])])
Domains(acc, pattern, r) ==
  [s |-> ExitScope(r.s),
   fix |-> acc.fix \o [k \in 1..(Len(pattern.domains) \div 2) |->
                         [d \in DOMAIN pattern.indexes |-> pattern.indexes[d].value]],
   es |-> acc.es \o r.e.args]
do_array_pattern(acc, pattern) ==
  IF acc.s.err # "none" THEN acc
  ELSE Domains(acc, pattern,
               do_exprs(BindIndexes(WithVars(acc.s, Len(pattern.indexes)), pattern.indexes),
                        pattern.domains))

do_array_patterns(s, patterns) ==
  FoldLeft(do_array_pattern, [s |-> s, fix |-> <<>>, es |-> <<>>], patterns)

ArrayOf(tag, ranges, r) ==
  LET vars == r.s.known[tag].vars
  IN  [s |-> PopArray(r.s),
       e |-> Array(tag, vars, r.s.known[tag].rec,
                   IF ranges = <<>> THEN [d \in DOMAIN vars |-> NoRange] ELSE ranges,
                   Patterns(vars, r.fix, r.es))]
ArrayWith(tag, ranges, patterns) ==
  ArrayOf(tag, ranges.e.args, do_array_patterns(SetVars(ranges.s, tag, Len(ranges.e.args)), patterns))
do_array_def(s, ranges, patterns) == ArrayWith(NewTag(s), do_exprs(PushArray(s), ranges), patterns)

(* this: the generator and all passes know it, but the grammar has no rule *)
(* that makes one.                                                         *)
SelfReference(s) ==
  IF s.arrays = <<>> THEN [s |-> Stop(s, SelfOutside), e |-> NoRange]
  ELSE [s |-> [s EXCEPT !.known[Last(s.arrays)].rec = TRUE], e |-> Self(Last(s.arrays))]

LocalOf(names, r) == [s |-> ExitScope(r.s), e |-> Let(names, r.e)]
ScopeWith(d, value) ==
  LocalOf(d.new, IF d.s.err = "none" THEN do_expr(d.s, value) ELSE [s |-> d.s, e |-> value])
do_local_scope(s, e) == ScopeWith(do_declarations(EnterScope(s), e.content), e.args[1])

BindingOf(made, decl) ==
  [s |-> ExitScope(apply_declaration(made.s, made.id, decl)), e |-> Let(<<made.id>>, Ref(made.id))]
do_binding_expr(s, e) == BindingOf(make_id_for_declaration(EnterScope(s), e.content), e.content)

do_expr(s, e) ==
  CASE e.op = "identifier" -> LookUp(s, e.content)
    [] e.op = "qualified_id" -> LookUpIn(s, e.content[1], e.content[2])
    [] e.op = "array_self_ref" -> SelfReference(s)
    [] e.op = "binding" -> do_binding_expr(s, e)
    [] e.op = "local_scope" -> do_local_scope(s, e)
    [] e.op = "lambda" -> make_func(s, e.content, e.args[1])
    [] e.op = "func_compose" -> do_func_comp(s, e)
    [] e.op = "call" -> do_func_apply(s, e)
    [] e.op = "array_def" -> do_array_def(s, e.args, e.content)
    [] OTHER -> MapArgs(do_expr, s, e)
-----------------------------------------------------------------------------
MarkOutput(s, id) ==
  IF s.ids[id].expr.op = "external" THEN Stop(s, AlreadyExternal)
  ELSE [s EXCEPT !.ids[id].out = TRUE]

SetType(s, id, type) ==
  IF s.ids[id].decl # NoType THEN Stop(s, AlreadyTyped)
  ELSE [s EXCEPT !.ids[id].decl = type]

SetExternal(s, id, decl) ==
  CASE s.ids[id].expr # NoRange -> Stop(s, AlreadyDefined)
    [] s.ids[id].decl # NoType -> Stop(s, AlreadyTyped)
    [] OTHER -> [s EXCEPT !.ids[id].decl = decl.type,
                          !.ids[id].expr = External(decl.form = "input", decl.content,
                                                    Len(decl.params), decl.type)]

Defined(id, r) == [r.s EXCEPT !.ids[id].expr = r.e]
SetValue(s, id, decl) ==
  IF s.ids[id].expr # NoRange THEN Stop(s, AlreadyDefined)
  ELSE Defined(id, CASE decl.form = "element" ->
                          ArrayOf(NewTag(s), <<>>, do_array_patterns(PushArray(s), decl.content))
                     [] decl.params # <<>> -> make_func(s, decl.params, decl.content)
                     [] OTHER -> do_expr(s, decl.content))

Declared(s, id, decl) ==
  CASE s.err # "none" \/ decl.form = "output" -> s
    [] decl.form \in {"type", "output_type"} -> SetType(s, id, decl.type)
    [] decl.form \in {"input", "external"} -> SetExternal(s, id, decl)
    [] OTHER -> SetValue(s, id, decl)

apply_declaration(s, id, decl) ==
  LET inside == [s EXCEPT !.names = Append(@, decl.name)]
      isOutput == decl.form \in {"output", "output_type", "output_value"}
  IN  [Declared(IF isOutput THEN MarkOutput(inside, id) ELSE inside, id, decl)
         EXCEPT !.names = s.names]

(* do_mutually_recursive_declarations: all identifiers are made before any *)
(* declaration is gone into.                                               *)
MakeIds(s, decls) ==
  FoldLeft(LAMBDA acc, decl :
      IF acc.s.err # "none" THEN acc
      ELSE LET made == make_id_for_declaration(acc.s, decl)
           IN  [s |-> made.s, ids |-> Append(acc.ids, made.id),
                new |-> IF made.new THEN Append(acc.new, made.id) ELSE acc.new],
    [s |-> s, ids |-> <<>>, new |-> <<>>], decls)
DeclareAll(m, decls) ==
  [s |-> InTurn(LAMBDA t, k : apply_declaration(t, m.ids[k], decls[k]), m.s, [k \in DOMAIN decls |-> k]),
   new |-> m.new]
MakeAndApply(s, decls) == DeclareAll(MakeIds(s, decls), decls)
do_declarations(s, decls) == MakeAndApply(s, process_array_element_declarations(decls, s.reversed))

(* generate: modules in order, each [name, imports, decls]; the names of   *)
(* all but the last, the main one, begin with that of the module.          *)
ModuleDone(before, d) ==
  [d.s EXCEPT !.global = before.global \o d.new,
              !.final = @ \cup {d.new[k] : k \in DOMAIN d.new}, !.scopes = <<>>]
GenerateModule(s, mod, isMain) ==
  ModuleDone(s, do_declarations([s EXCEPT !.scopes = <<<<>>>>, !.imports = mod.imports,
                                          !.names = IF isMain THEN <<>> ELSE <<mod.name>>],
                                mod.decls))
Generate(modules, reversed) ==
  InTurn(LAMBDA s, k : GenerateModule(s, modules[k], k = Len(modules)),
         [ids |-> <<>>, global |-> <<>>, final |-> {}, scopes |-> <<>>, names |-> <<>>,
          arrays |-> <<>>, known |-> <<>>, made |-> 0, imports |-> <<>>,
          reversed |-> reversed, err |-> "none"],
         [k \in DOMAIN modules |-> k])
=============================================================================
