----------------------------- MODULE ModuleParser -----------------------------
(***************************************************************************)
(* The module parser (frontend/module_parser.cpp): a file is parsed as     *)
(* soon as a module is imported that has not been seen, from within its    *)
(* importer, and takes its place in the order of modules when all that it  *)
(* imports has been dealt with.  What a module is found by is the name in  *)
(* its file, not the name of the file.                                     *)
(*                                                                         *)
(* A project is [main |-> path, dirs |-> import directories, exts |->      *)
(* extensions, files |-> [path -> source]], a path being directory, name   *)
(* and extension.  A source is [name |-> declared name or "", imports |->  *)
(* <<[name, alias]>>, decls |-> declarations, valid |-> whether its syntax *)
(* is].                                                                    *)
(***************************************************************************)
EXTENDS Integers, Sequences, FiniteSetsExt

VARIABLES project,
          created,   \* the modules in the order in which their files were opened
          ordered,   \* m_ordered_modules
          frames,    \* the calls of parse in progress, each with the import
                     \* and the candidate for it that it has come to
          exception      \* the exception that has been thrown

parser == <<project, created, ordered, frames, exception>>

SyntaxError == "syntax error"
NotFound    == "Can not find imported module"

SourceOf(mod) == project.files[mod.file]

(* m_named_modules: the first module of a name keeps it.                   *)
WithName(name) == {k \in DOMAIN created : created[k].name = name}

ParserInit(p) ==
  /\ project = p
  /\ created = <<>> /\ ordered = <<>> /\ frames = <<>> /\ exception = "none"

(* parse: up to its imports                                                *)
NewModule(file) ==
  LET declared == project.files[file].name
  IN  [file |-> file, name |-> IF declared = "" THEN "m" ELSE declared, imports |-> <<>>]
NewFrame == [mod |-> Len(created) + 1, import |-> 1, next |-> 1]
Open(file) ==
  /\ IF project.files[file].valid
     THEN /\ created' = Append(created, NewModule(file))
          /\ frames' = Append(frames, NewFrame)
          /\ UNCHANGED exception
     ELSE exception' = SyntaxError /\ UNCHANGED <<created, frames>>
  /\ UNCHANGED <<project, ordered>>

ParseMain == created = <<>> /\ Open(project.main)

Depth == Len(frames)
Caller(d) == created[frames[d].mod]
MoreImports(d) == frames[d].import <= Len(SourceOf(Caller(d)).imports)
Import(d) == SourceOf(Caller(d)).imports[frames[d].import]

Importing == frames # <<>> /\ MoreImports(Depth)
Tried == frames[Depth].next
Searching == Importing /\ (Tried > 1 \/ WithName(Import(Depth).name) = {})

(* imported_mods.insert: the first import with an alias keeps it.          *)
WithAlias(imports, a, k) ==
  [x \in DOMAIN imports \cup {a} |-> IF x \in DOMAIN imports THEN imports[x] ELSE k]
BindAlias(d, k) ==
  created' = [created EXCEPT ![frames[d].mod].imports = WithAlias(@, Import(d).alias, k)]
NextImport(fs)    == [fs EXCEPT ![Len(fs)].import = @ + 1, ![Len(fs)].next = 1]
NextCandidate(fs) == [fs EXCEPT ![Len(fs)].next = @ + 1]

(* parse_import: a module of that name is there already, finished or not,  *)
AlreadyImported ==
  /\ Importing /\ ~Searching
  /\ BindAlias(Depth, Min(WithName(Import(Depth).name)))
  /\ frames' = NextImport(frames)
  /\ UNCHANGED <<project, ordered, exception>>

(* or it is looked for, first where the importer is.                       *)
Candidates ==
  LET dirs == <<Caller(Depth).file[1]>> \o project.dirs
      n == Len(project.exts)
  IN  [k \in 1..(Len(dirs) * n) |->
         <<dirs[1 + ((k - 1) \div n)], Import(Depth).name, project.exts[1 + ((k - 1) % n)]>>]
IsThere(k) == k \in DOMAIN Candidates /\ Candidates[k] \in DOMAIN project.files

CanNotOpen ==
  /\ Searching /\ Tried \in DOMAIN Candidates /\ ~IsThere(Tried)
  /\ frames' = NextCandidate(frames)
  /\ UNCHANGED <<project, created, ordered, exception>>

ParseCandidate == Searching /\ IsThere(Tried) /\ Open(Candidates[Tried])

CanNotFind ==
  /\ Searching /\ Tried \notin DOMAIN Candidates
  /\ exception' = NotFound
  /\ UNCHANGED <<project, created, ordered, frames>>

(* The end of parse: whoever asked for the module goes on with the next    *)
(* candidate if it has another name.                                       *)
(* Mutated: modules are put in front of those that they import.            *)
FinishInFront(k) == ordered' = <<k>> \o ordered
Finish(k) == ordered' = Append(ordered, k)

Finished ==
  /\ frames # <<>> /\ ~Importing
  /\ Finish(frames[Depth].mod)
  /\ UNCHANGED <<project, exception>>
Callers == SubSeq(frames, 1, Depth - 1)

EndMain == Depth = 1 /\ Finished /\ frames' = Callers /\ UNCHANGED created

EndImported ==
  /\ Depth > 1 /\ Finished /\ Caller(Depth).name = Import(Depth - 1).name
  /\ BindAlias(Depth - 1, frames[Depth].mod)
  /\ frames' = NextImport(Callers)

EndOther ==
  /\ Depth > 1 /\ Finished /\ Caller(Depth).name # Import(Depth - 1).name
  /\ frames' = NextCandidate(Callers)
  /\ UNCHANGED created

ParserNext ==
  /\ exception = "none"
  /\ \/ ParseMain \/ AlreadyImported \/ CanNotOpen \/ ParseCandidate \/ CanNotFind
     \/ EndMain \/ EndImported \/ EndOther

Parsed == created # <<>> /\ frames = <<>> /\ exception = "none"
-----------------------------------------------------------------------------
Imports(k) == {created[k].imports[a] : a \in DOMAIN created[k].imports}
LeadsTo(k, l) ==
  \A S \in SUBSET DOMAIN created :
    (k \in S /\ \A m \in S : Imports(m) \subseteq S) => l \in S

(* Every file that was opened has its place, once.                         *)
FilesInPlace ==
  Len(ordered) = Len(created) /\ {ordered[j] : j \in DOMAIN ordered} = DOMAIN created

(* So it is when parsing is over, and whatever is imported comes before    *)
(* its importer, so that its names are known when the generator gets there *)
(* (functional_gen.cpp:454) - unless it imports the importer in turn, at   *)
(* whatever remove.  That is said of imports that are bound: an importer   *)
(* may also wait for a file that turns out to have another name, or for an *)
(* import whose alias is taken.                                            *)
ImportsInOrder ==
  Parsed =>
    /\ FilesInPlace
    /\ \A j \in DOMAIN ordered : \A k \in Imports(ordered[j]) :
         (\E i \in 1..(j - 1) : ordered[i] = k) \/ LeadsTo(k, ordered[j])
=============================================================================
