-------------------------- MODULE ModuleParserProofs --------------------------
(***************************************************************************)
(* The order of modules, for every project: all files that were opened     *)
(* have their places, and what a module imports comes before it unless it  *)
(* imports the module in turn.                                             *)
(*                                                                         *)
(* Modules are parsed from within one another, so that each leads to those *)
(* that are being parsed inside of it, by imports that are bound or about  *)
(* to be.  What is imported while it is being parsed leads to its importer *)
(* therefore; what is not being parsed has its place already.              *)
(***************************************************************************)
EXTENDS ModuleParser, TLAPS, WellFoundedInduction, NaturalsInduction

(* What is required of a project at all                                    *)
Files(p) == DOMAIN p.files
AllImports(p) ==
  UNION {{p.files[f].imports[j] : j \in DOMAIN p.files[f].imports} : f \in Files(p)}
IsProject(p) ==
  /\ p.main \in Files(p)
  /\ \A f \in Files(p) : p.files[f].imports \in Seq(AllImports(p))

(* A file that is found when a module is looked for has that module.       *)
NameIn(p, f) == IF p.files[f].name = "" THEN "m" ELSE p.files[f].name
FoundUnderItsName(p) ==
  \A i \in AllImports(p) : \A f \in Files(p) : f[2] = i.name => NameIn(p, f) = i.name

(* No file uses an alias for two imports.                                  *)
AliasesDiffer(p) ==
  \A f \in Files(p) : \A i, j \in DOMAIN p.files[f].imports :
    p.files[f].imports[i].alias = p.files[f].imports[j].alias => i = j
-----------------------------------------------------------------------------
Aliases  == {i.alias : i \in AllImports(project)}
Bindings == UNION {[A -> Nat] : A \in SUBSET Aliases}
Names    == {NameIn(project, f) : f \in Files(project)}
Entries  == [file : Files(project), name : Names, imports : Bindings]
Frames   == [mod : Nat, import : Nat \ {0}, next : Nat]

Types ==
  /\ IsProject(project)
  /\ created \in Seq(Entries)
  /\ ordered \in Seq(Nat)
  /\ frames \in Seq(Frames)

Placed == {ordered[j] : j \in DOMAIN ordered}
Parsing == {frames[d].mod : d \in DOMAIN frames}

(* Each module that was opened has its place or is being parsed, once.     *)
Places ==
  /\ Placed \cup Parsing = DOMAIN created
  /\ Placed \cap Parsing = {}
  /\ \A i, j \in DOMAIN ordered : ordered[i] = ordered[j] => i = j
  /\ \A d, e \in DOMAIN frames : frames[d].mod = frames[e].mod => d = e
  /\ Len(created) = Len(ordered) + Len(frames)

(* Whoever waits for a module has come to an import.                       *)
Calls ==
  /\ \A d \in DOMAIN frames : d + 1 \in DOMAIN frames => MoreImports(d)
  /\ \A k \in DOMAIN created : /\ created[k].name = NameIn(project, created[k].file)
                               /\ Imports(k) \subseteq DOMAIN created

(* It is the import of that module, and its alias is still free.           *)
Expected ==
  \A d \in DOMAIN frames :
    /\ d + 1 \in DOMAIN frames => Caller(d + 1).name = Import(d).name
    /\ \A j \in DOMAIN SourceOf(Caller(d)).imports :
         j >= frames[d].import =>
           SourceOf(Caller(d)).imports[j].alias \notin DOMAIN Caller(d).imports

(* k imports l, or will have when parsing l is over.                       *)
Link(k, l) ==
  \/ k \in DOMAIN created /\ l \in Imports(k)
  \/ \E d \in DOMAIN frames :
       d + 1 \in DOMAIN frames /\ frames[d].mod = k /\ frames[d + 1].mod = l
ClosedUnderLinks(S) == \A k \in S : \A l \in DOMAIN created : Link(k, l) => l \in S
Leads(k, l) ==
  \A S \in SUBSET DOMAIN created : k \in S /\ ClosedUnderLinks(S) => l \in S

Before(k, m) ==
  \E i \in DOMAIN ordered :
    ordered[i] = k /\ \A j \in DOMAIN ordered : ordered[j] = m => i < j

Order == \A m \in DOMAIN created : \A k \in Imports(m) : Before(k, m) \/ Leads(k, m)

PInv == Types /\ Places /\ Calls
IInv == PInv /\ FoundUnderItsName(project) /\ AliasesDiffer(project) /\ Expected /\ Order
-----------------------------------------------------------------------------
LEMMA Sources ==
  ASSUME Types
  PROVE  /\ \A d \in DOMAIN frames : frames[d] \in Frames
         /\ \A k \in DOMAIN created :
              /\ created[k] \in Entries
              /\ created[k].imports \in Bindings
              /\ SourceOf(created[k]).imports \in Seq(AllImports(project))
<1>1. /\ created \in Seq(Entries) /\ frames \in Seq(Frames)
      /\ \A f \in Files(project) : project.files[f].imports \in Seq(AllImports(project))
  BY DEF Types, IsProject
<1>2. \A k \in DOMAIN created : created[k] \in Entries
  BY <1>1
<1> QED
  BY <1>1, <1>2 DEF Entries, SourceOf

(* The call that has come to an import                                     *)
LEMMA Waiting ==
  ASSUME Types, Places, NEW d \in DOMAIN frames
  PROVE  /\ frames[d].mod \in DOMAIN created
         /\ DOMAIN SourceOf(Caller(d)).imports = 1..Len(SourceOf(Caller(d)).imports)
         /\ MoreImports(d) => /\ frames[d].import \in DOMAIN SourceOf(Caller(d)).imports
                              /\ Import(d) \in AllImports(project)
                              /\ Import(d).alias \in Aliases
<1>1. frames[d].mod \in DOMAIN created
  BY DEF Places, Parsing
<1>2. frames[d] \in Frames /\ SourceOf(Caller(d)).imports \in Seq(AllImports(project))
  BY <1>1, Sources DEF Caller
<1>3. frames[d].import \in Nat \ {0}
  BY <1>2 DEF Frames
<1>4. MoreImports(d) => frames[d].import \in DOMAIN SourceOf(Caller(d)).imports
  BY <1>2, <1>3 DEF MoreImports
<1>5. MoreImports(d) => Import(d) \in AllImports(project)
  BY <1>2, <1>4 DEF Import
<1> QED
  BY <1>1, <1>2, <1>4, <1>5 DEF Aliases

LEMMA TopFrame ==
  ASSUME NEW fs \in Seq(Frames), fs # <<>>
  PROVE  /\ Len(fs) \in Nat \ {0} /\ Len(fs) \in DOMAIN fs /\ DOMAIN fs = 1..Len(fs)
         /\ \A d \in DOMAIN fs : fs[d] \in Frames
<1> QED
  OBVIOUS

(* Going on with the next import, or the next candidate                    *)
LEMMA NextOfTop ==
  ASSUME NEW fs \in Seq(Frames), fs # <<>>,
         NEW gs, gs = NextImport(fs) \/ gs = NextCandidate(fs)
  PROVE  /\ gs \in Seq(Frames) /\ Len(gs) = Len(fs) /\ DOMAIN gs = DOMAIN fs
         /\ \A d \in DOMAIN fs : gs[d].mod = fs[d].mod
         /\ \A d \in DOMAIN fs : d # Len(fs) => gs[d] = fs[d]
         /\ gs = NextImport(fs) => gs[Len(fs)].import = fs[Len(fs)].import + 1
         /\ gs = NextCandidate(fs) => gs[Len(fs)].import = fs[Len(fs)].import
<1> DEFINE n == Len(fs)
           f == fs[n]
           g == [mod |-> f.mod, import |-> f.import + 1, next |-> 1]
           h == [mod |-> f.mod, import |-> f.import, next |-> f.next + 1]
<1>1. n \in DOMAIN fs /\ f \in Frames
  BY TopFrame
<1>2. /\ g \in Frames /\ h \in Frames
      /\ f = [mod |-> f.mod, import |-> f.import, next |-> f.next]
  BY <1>1 DEF Frames
<1>3. NextImport(fs) = [fs EXCEPT ![n] = g]
  <2>1. NextImport(fs) = [[fs EXCEPT ![n].import = @ + 1] EXCEPT ![n].next = 1]
    BY DEF NextImport
  <2>2. [fs EXCEPT ![n].import = @ + 1] = [fs EXCEPT ![n] = [f EXCEPT !.import = f.import + 1]]
    BY <1>1
  <2>3. [f EXCEPT !.import = f.import + 1] = [mod |-> f.mod, import |-> f.import + 1, next |-> f.next]
    BY <1>2
  <2> QED BY <1>1, <2>1, <2>2, <2>3
<1>4. NextCandidate(fs) = [fs EXCEPT ![n] = h]
  <2>1. [f EXCEPT !.next = f.next + 1] = h
    BY <1>2
  <2> QED BY <1>1, <2>1 DEF NextCandidate
<1> HIDE DEF n, f
<1>5. n = Len(fs) /\ f = fs[n]
  BY DEF n, f
<1> QED
  BY <1>1, <1>2, <1>3, <1>4, <1>5

LEMMA CallersOfTop ==
  ASSUME Types, frames # <<>>
  PROVE  /\ Depth \in Nat \ {0} /\ Depth \in DOMAIN frames /\ DOMAIN frames = 1..Depth
         /\ Callers \in Seq(Frames) /\ Len(Callers) = Depth - 1
         /\ DOMAIN Callers = 1..(Depth - 1)
         /\ \A d \in 1..(Depth - 1) : Callers[d] = frames[d]
<1>1. frames \in Seq(Frames) /\ Depth \in Nat \ {0} /\ DOMAIN frames = 1..Depth
  BY DEF Types, Depth
<1> QED
  BY <1>1 DEF Callers, Depth

(* The map from aliases to modules with one more import in it              *)
LEMMA BindingAdded ==
  ASSUME NEW f \in Bindings, NEW a \in Aliases, NEW k \in Nat
  PROVE  /\ WithAlias(f, a, k) \in Bindings
         /\ DOMAIN WithAlias(f, a, k) = DOMAIN f \cup {a}
         /\ \A x \in DOMAIN f : WithAlias(f, a, k)[x] = f[x]
         /\ a \notin DOMAIN f => WithAlias(f, a, k)[a] = k
         /\ \A x \in DOMAIN WithAlias(f, a, k) :
              WithAlias(f, a, k)[x] = k \/ x \in DOMAIN f
<1>1. PICK A \in SUBSET Aliases : f \in [A -> Nat]
  BY DEF Bindings
<1>2. WithAlias(f, a, k) \in [A \cup {a} -> Nat] /\ A \cup {a} \in SUBSET Aliases
  BY <1>1 DEF WithAlias
<1>3. WithAlias(f, a, k) \in Bindings
  BY <1>2 DEF Bindings
<1> QED
  BY <1>3 DEF WithAlias

LEMMA SameProject ==
  ASSUME project' = project
  PROVE  /\ Entries' = Entries /\ Files(project)' = Files(project)
         /\ IsProject(project)' <=> IsProject(project)
         /\ FoundUnderItsName(project)' <=> FoundUnderItsName(project)
         /\ AliasesDiffer(project)' <=> AliasesDiffer(project)
<1>1. Files(project)' = Files(project) /\ AllImports(project)' = AllImports(project)
  BY DEF Files, AllImports
<1>2. \A f : NameIn(project, f)' = NameIn(project, f)
  BY DEF NameIn
<1>3. Names' = Names /\ Aliases' = Aliases /\ Bindings' = Bindings
  BY <1>1, <1>2 DEF Names, Aliases, Bindings
<1>4. Entries' = Entries
  BY <1>1, <1>3 DEF Entries
<1>5. IsProject(project)' <=> IsProject(project)
  BY <1>1 DEF IsProject
<1>6. FoundUnderItsName(project)' <=> FoundUnderItsName(project)
  BY <1>1, <1>2 DEF FoundUnderItsName
<1>7. AliasesDiffer(project)' <=> AliasesDiffer(project)
  BY <1>1 DEF AliasesDiffer
<1> QED
  BY <1>1, <1>4, <1>5, <1>6, <1>7

(* What binding an import changes                                          *)
ImportOf(d, m, a) == m = frames[d].mod /\ a = Import(d).alias

LEMMA Bound ==
  ASSUME Types, Places, NEW d \in DOMAIN frames, MoreImports(d),
         NEW k \in DOMAIN created, BindAlias(d, k), NEW m, NEW a, ImportOf(d, m, a)
  PROVE  /\ created' \in Seq(Entries) /\ Len(created') = Len(created)
         /\ DOMAIN created' = DOMAIN created
         /\ \A l \in DOMAIN created : /\ created'[l].file = created[l].file
                                      /\ created'[l].name = created[l].name
         /\ \A l \in DOMAIN created : l # m => created'[l] = created[l]
         /\ DOMAIN created'[m].imports = DOMAIN created[m].imports \cup {a}
         /\ Imports(m)' \subseteq Imports(m) \cup {k}
         /\ Imports(m) \subseteq Imports(m)'
         /\ a \notin DOMAIN created[m].imports => k \in Imports(m)'
<1> DEFINE c == created[m]
           b == WithAlias(c.imports, a, k)
           e == [file |-> c.file, name |-> c.name, imports |-> b]
<1>0. m = frames[d].mod /\ a = Import(d).alias
  BY DEF ImportOf
<1>1. created \in Seq(Entries) /\ m \in DOMAIN created /\ a \in Aliases /\ k \in Nat
  BY <1>0, Waiting DEF Types
<1>2. c \in Entries /\ c.imports \in Bindings
  BY <1>1, Sources
<1>3. /\ b \in Bindings
      /\ DOMAIN b = DOMAIN c.imports \cup {a}
      /\ \A x \in DOMAIN c.imports : b[x] = c.imports[x]
      /\ a \notin DOMAIN c.imports => b[a] = k
      /\ \A x \in DOMAIN b : b[x] = k \/ x \in DOMAIN c.imports
  <2> HIDE DEF c
  <2> QED BY <1>1, <1>2, BindingAdded
<1>4. e \in Entries /\ [c EXCEPT !.imports = b] = e
  <2> HIDE DEF b, c
  <2> QED BY <1>2, <1>3 DEF Entries
<1>5. created' = [created EXCEPT ![m] = e]
  <2>1. created' = [created EXCEPT ![m].imports = b]
    BY <1>0 DEF BindAlias
  <2> HIDE DEF b
  <2> QED BY <1>1, <1>4, <2>1
<1> HIDE DEF e
<1>6. /\ created' \in Seq(Entries) /\ Len(created') = Len(created)
      /\ DOMAIN created' = DOMAIN created
      /\ created'[m] = e
      /\ \A l \in DOMAIN created : l # m => created'[l] = created[l]
  BY <1>1, <1>4, <1>5
<1>7. e.file = c.file /\ e.name = c.name /\ e.imports = b
  BY DEF e
<1>8. Imports(m) = {c.imports[x] : x \in DOMAIN c.imports}
  BY DEF Imports
<1>9. Imports(m)' = {b[x] : x \in DOMAIN b}
  <2>1. Imports(m)' = {created'[m].imports[x] : x \in DOMAIN created'[m].imports}
    BY DEF Imports
  <2> HIDE DEF b
  <2> QED BY <1>6, <1>7, <2>1
<1> HIDE DEF b
<1>10. /\ Imports(m)' \subseteq Imports(m) \cup {k}
       /\ Imports(m) \subseteq Imports(m)'
       /\ a \notin DOMAIN c.imports => k \in Imports(m)'
  BY <1>3, <1>8, <1>9
<1> QED
  BY <1>3, <1>6, <1>7, <1>10

(* What opening a file changes                                             *)
LEMMA Opened ==
  ASSUME Types, NEW file \in Files(project), Open(file), exception = "none", exception' = "none"
  PROVE  LET n == Len(created) + 1
         IN  /\ project' = project /\ ordered' = ordered
             /\ n \in Nat /\ n \notin DOMAIN created
             /\ created' \in Seq(Entries) /\ Len(created') = n
             /\ DOMAIN created' = DOMAIN created \cup {n}
             /\ \A l \in DOMAIN created : created'[l] = created[l]
             /\ created'[n].file = file /\ created'[n].name = NameIn(project, file)
             /\ created'[n].imports = <<>>
             /\ frames' \in Seq(Frames) /\ Len(frames') = Depth + 1
             /\ DOMAIN frames' = DOMAIN frames \cup {Depth + 1}
             /\ \A d \in DOMAIN frames : frames'[d] = frames[d]
             /\ frames'[Depth + 1] = NewFrame /\ NewFrame.mod = n
<1> DEFINE n == Len(created) + 1
           e == NewModule(file)
           fs == NewFrame
<1>1. created \in Seq(Entries) /\ frames \in Seq(Frames)
  BY DEF Types
<1>2. /\ project' = project /\ ordered' = ordered
      /\ created' = Append(created, e) /\ frames' = Append(frames, fs)
  BY DEF Open, SyntaxError
<1>3. e.file = file /\ e.name = NameIn(project, file) /\ e.imports = <<>>
  BY DEF NewModule, NameIn
<1>4. e \in Entries
  <2>1. {} \in SUBSET Aliases /\ <<>> \in [{} -> Nat]
    OBVIOUS
  <2>2. <<>> \in Bindings
    BY <2>1 DEF Bindings
  <2>3. NameIn(project, file) \in Names
    BY DEF Names
  <2> QED BY <2>2, <2>3 DEF Entries, NewModule, NameIn
<1>5. n \in Nat /\ fs \in Frames /\ fs.mod = n
  BY <1>1 DEF NewFrame, Frames
<1> HIDE DEF e, fs
<1>6. /\ n \notin DOMAIN created /\ created' \in Seq(Entries) /\ Len(created') = n
      /\ DOMAIN created' = DOMAIN created \cup {n}
      /\ \A l \in DOMAIN created : created'[l] = created[l]
      /\ created'[n] = e
  BY <1>1, <1>2, <1>4
<1>7. /\ frames' \in Seq(Frames) /\ Len(frames') = Depth + 1
      /\ DOMAIN frames' = DOMAIN frames \cup {Depth + 1}
      /\ \A d \in DOMAIN frames : frames'[d] = frames[d]
      /\ frames'[Depth + 1] = fs
  BY <1>1, <1>2, <1>5 DEF Depth
<1> QED
  BY <1>2, <1>3, <1>5, <1>6, <1>7 DEF fs
-----------------------------------------------------------------------------
(* A module of a name that is there                                        *)
LEMMA NamedModule ==
  ASSUME Types, NEW name, WithName(name) # {}
  PROVE  Min(WithName(name)) \in WithName(name)
<1> DEFINE S == WithName(name)
<1>1. S \subseteq Nat /\ S # {}
  BY DEF WithName, Types
<1>2. PICK j \in S : \A k \in S : ~(<<k, j>> \in OpToRel(<, Nat))
  <2> HIDE DEF S
  <2> QED BY <1>1, NatLessThanWellFounded, WFMin
<1> HIDE DEF S
<1>3. \A k \in S : ~(k < j)
  BY <1>1, <1>2 DEF OpToRel
<1>4. \E i \in S : \A k \in S : i <= k
  BY <1>1, <1>3
<1>5. Min(S) \in S
  BY <1>4 DEF Min
<1> QED
  BY <1>5 DEF S

(* Steps that leave modules, places and calls as they are                  *)
LEMMA NothingNew ==
  ASSUME PInv, UNCHANGED <<project, created, ordered, frames>>
  PROVE  PInv'
<1>1. Types'
  BY SameProject DEF PInv, Types
<1>2. Places'
  BY DEF PInv, Places, Placed, Parsing
<1>3. Calls'
  <2>1. \A d : MoreImports(d)' <=> MoreImports(d)
    BY DEF MoreImports, SourceOf, Caller
  <2>2. \A k : Imports(k)' = Imports(k) /\ NameIn(project, created[k].file)' = NameIn(project, created[k].file)
    BY DEF Imports, NameIn
  <2> QED BY <2>1, <2>2 DEF PInv, Calls
<1> QED
  BY <1>1, <1>2, <1>3 DEF PInv

LEMMA PlacesOpen ==
  ASSUME PInv, NEW file \in Files(project), Open(file), exception = "none", exception' = "none",
         frames # <<>> => MoreImports(Depth)
  PROVE  PInv'
<1> DEFINE n == Len(created) + 1
           t == Depth + 1
<1>1. Types /\ Places /\ Calls
  BY DEF PInv
<1>2. /\ project' = project /\ ordered' = ordered
      /\ n \in Nat /\ n \notin DOMAIN created
      /\ created' \in Seq(Entries) /\ Len(created') = n
      /\ DOMAIN created' = DOMAIN created \cup {n}
      /\ \A l \in DOMAIN created : created'[l] = created[l]
      /\ created'[n].file = file /\ created'[n].name = NameIn(project, file)
      /\ created'[n].imports = <<>>
      /\ frames' \in Seq(Frames) /\ Len(frames') = t
      /\ DOMAIN frames' = DOMAIN frames \cup {t}
      /\ \A d \in DOMAIN frames : frames'[d] = frames[d]
      /\ frames'[t].mod = n
  BY <1>1, Opened
<1>3. /\ created \in Seq(Entries) /\ frames \in Seq(Frames) /\ ordered \in Seq(Nat)
      /\ DOMAIN frames = 1..Depth /\ Depth \in Nat /\ t \notin DOMAIN frames
  BY <1>1 DEF Types, Depth
<1> HIDE DEF n, t
<1>4. Types'
  BY <1>1, <1>2, SameProject DEF Types
<1>5. Parsing' = Parsing \cup {n} /\ Placed' = Placed
  BY <1>2 DEF Parsing, Placed
<1>6. Places'
  <2>1. Placed' \cup Parsing' = DOMAIN created' /\ Placed' \cap Parsing' = {}
    BY <1>1, <1>2, <1>5 DEF Places
  <2>2. \A d, e \in DOMAIN frames' : frames'[d].mod = frames'[e].mod => d = e
    <3>1. \A d \in DOMAIN frames : frames[d].mod # n
      BY <1>1, <1>2 DEF Places, Parsing
    <3> QED BY <1>1, <1>2, <3>1 DEF Places
  <2>3. Len(created') = Len(ordered') + Len(frames')
    BY <1>1, <1>2, <1>3 DEF Places, n, t, Depth
  <2> QED BY <1>1, <1>2, <2>1, <2>2, <2>3 DEF Places
<1>7. Calls'
  <2>1. ASSUME NEW d \in DOMAIN frames', d + 1 \in DOMAIN frames' PROVE MoreImports(d)'
    <3>1. d \in DOMAIN frames /\ (d + 1 \in DOMAIN frames \/ (d = Depth /\ frames # <<>>))
      BY <1>2, <1>3, <2>1 DEF t
    <3>2. MoreImports(d)
      BY <1>1, <3>1 DEF Calls
    <3>3. frames'[d] = frames[d] /\ created'[frames[d].mod] = created[frames[d].mod]
      BY <1>1, <1>2, <3>1 DEF Places, Parsing
    <3> QED BY <1>2, <3>2, <3>3 DEF MoreImports, SourceOf, Caller
  <2>2. ASSUME NEW k \in DOMAIN created'
        PROVE  /\ created'[k].name = NameIn(project', created'[k].file)
               /\ Imports(k)' \subseteq DOMAIN created'
    <3>1. CASE k = n
      BY <1>2, <3>1 DEF Imports
    <3>2. CASE k \in DOMAIN created
      BY <1>1, <1>2, <3>2 DEF Calls, Imports
    <3> QED BY <1>2, <3>1, <3>2
  <2> QED BY <2>1, <2>2 DEF Calls
<1> QED
  BY <1>4, <1>6, <1>7 DEF PInv

(* Steps of the call on top: it goes on, having bound an import or not     *)
LEMMA PlacesGoOn ==
  ASSUME PInv, frames # <<>>, UNCHANGED <<project, ordered>>,
         \/ frames' = NextCandidate(frames) /\ created' = created
         \/ /\ frames' = NextImport(frames)
            /\ MoreImports(Depth) /\ \E k \in DOMAIN created : BindAlias(Depth, k)
  PROVE  PInv'
<1>1. Types /\ Places /\ Calls
  BY DEF PInv
<1>2. /\ frames \in Seq(Frames) /\ DOMAIN frames = 1..Depth /\ Depth \in DOMAIN frames
      /\ created \in Seq(Entries) /\ Depth = Len(frames)
  BY <1>1, CallersOfTop DEF Types, Depth
<1>3. /\ frames' \in Seq(Frames) /\ Len(frames') = Len(frames) /\ DOMAIN frames' = DOMAIN frames
      /\ \A d \in DOMAIN frames : frames'[d].mod = frames[d].mod
      /\ \A d \in DOMAIN frames : d # Depth => frames'[d] = frames[d]
  BY <1>2, NextOfTop
<1>4. /\ created' \in Seq(Entries) /\ Len(created') = Len(created)
      /\ DOMAIN created' = DOMAIN created
      /\ \A l \in DOMAIN created : /\ created'[l].file = created[l].file
                                   /\ created'[l].name = created[l].name
                                   /\ Imports(l)' \subseteq DOMAIN created
  <2>1. CASE created' = created
    BY <1>1, <1>2, <2>1 DEF Calls, Imports
  <2>2. CASE MoreImports(Depth) /\ \E k \in DOMAIN created : BindAlias(Depth, k)
    <3>1. PICK k \in DOMAIN created : BindAlias(Depth, k)
      BY <2>2
    <3>2. PICK m, a : m = frames[Depth].mod /\ a = Import(Depth).alias
      OBVIOUS
    <3>3. /\ created' \in Seq(Entries) /\ Len(created') = Len(created)
          /\ DOMAIN created' = DOMAIN created
          /\ \A l \in DOMAIN created : /\ created'[l].file = created[l].file
                                       /\ created'[l].name = created[l].name
          /\ \A l \in DOMAIN created : l # m => created'[l] = created[l]
          /\ Imports(m)' \subseteq Imports(m) \cup {k}
      <4>1. Types /\ Places /\ Depth \in DOMAIN frames /\ MoreImports(Depth)
        BY <1>1, <1>2, <2>2
      <4>2. ImportOf(Depth, m, a)
        BY <3>2 DEF ImportOf
      <4> QED BY ONLY <3>1, <4>1, <4>2, k \in DOMAIN created, Bound
    <3>4. \A l \in DOMAIN created : l # m => Imports(l)' = Imports(l)
      BY <3>3 DEF Imports
    <3> QED BY <1>1, <3>1, <3>3, <3>4 DEF Calls
  <2> QED BY <2>1, <2>2
<1>5. Types'
  BY <1>1, <1>3, <1>4, SameProject DEF Types
<1>6. Places'
  <2>1. Parsing' = Parsing /\ Placed' = Placed
    BY <1>3 DEF Parsing, Placed
  <2> QED BY <1>1, <1>3, <1>4, <2>1 DEF Places
<1>7. Calls'
  <2>1. ASSUME NEW d \in DOMAIN frames, d + 1 \in DOMAIN frames PROVE MoreImports(d)'
    <3>1. MoreImports(d) /\ d # Depth
      BY <1>1, <1>2, <2>1 DEF Calls
    <3>2. frames'[d] = frames[d] /\ created'[frames[d].mod].file = created[frames[d].mod].file
      BY <1>1, <1>3, <1>4, <3>1 DEF Places, Parsing
    <3> QED BY <3>1, <3>2 DEF MoreImports, SourceOf, Caller
  <2> QED BY <1>1, <1>3, <1>4, <2>1 DEF Calls, NameIn
<1> QED
  BY <1>5, <1>6, <1>7 DEF PInv

(* The end of the call on top, after which its caller goes on              *)
LEMMA PlacesEnd ==
  ASSUME PInv, frames # <<>>, project' = project, Finish(frames[Depth].mod),
         \/ /\ frames' = Callers /\ created' = created /\ Depth = 1
         \/ /\ frames' = NextCandidate(Callers) /\ created' = created /\ Depth > 1
         \/ /\ frames' = NextImport(Callers) /\ Depth > 1
            /\ BindAlias(Depth - 1, frames[Depth].mod)
  PROVE  PInv'
<1>0. PICK n, t : n = Depth - 1 /\ t = frames[Depth].mod
  OBVIOUS
<1>1. Types /\ Places /\ Calls
  BY DEF PInv
<1>2. /\ frames \in Seq(Frames) /\ DOMAIN frames = 1..Depth /\ Depth \in DOMAIN frames
      /\ created \in Seq(Entries) /\ ordered \in Seq(Nat) /\ Depth = Len(frames)
      /\ n \in Nat /\ 1..n = DOMAIN frames \ {Depth} /\ n + 1 = Depth
      /\ t \in DOMAIN created /\ t \in Nat
  <2>1. /\ frames \in Seq(Frames) /\ DOMAIN frames = 1..Depth /\ Depth \in DOMAIN frames
        /\ created \in Seq(Entries) /\ ordered \in Seq(Nat) /\ Depth = Len(frames)
        /\ Depth \in Nat \ {0}
    BY <1>1, CallersOfTop DEF Types, Depth
  <2>2. t \in DOMAIN created
    BY <1>0, <1>1, <2>1, Waiting
  <2>3. t \in Nat
    BY <2>1, <2>2
  <2> QED BY <1>0, <2>1, <2>2, <2>3
<1>3. /\ Callers \in Seq(Frames) /\ Len(Callers) = n /\ DOMAIN Callers = 1..n
      /\ \A d \in 1..n : Callers[d] = frames[d]
  BY <1>0, <1>1, CallersOfTop
<1>4. /\ frames' \in Seq(Frames) /\ Len(frames') = n /\ DOMAIN frames' = 1..n
      /\ \A d \in 1..n : frames'[d].mod = frames[d].mod
      /\ \A d \in 1..n : d # n => frames'[d] = frames[d]
  <2>1. CASE frames' = Callers
    BY <1>3, <2>1
  <2>2. CASE Depth > 1 /\ (frames' = NextImport(Callers) \/ frames' = NextCandidate(Callers))
    <3>1. Callers # <<>>
      BY <1>2, <1>3, <2>2
    <3> QED BY <1>3, <2>2, <3>1, NextOfTop
  <2> QED BY <2>1, <2>2
<1>5. /\ created' \in Seq(Entries) /\ Len(created') = Len(created)
      /\ DOMAIN created' = DOMAIN created
      /\ \A l \in DOMAIN created : /\ created'[l].file = created[l].file
                                   /\ created'[l].name = created[l].name
                                   /\ Imports(l)' \subseteq DOMAIN created
  <2>1. CASE created' = created
    BY <1>1, <1>2, <2>1 DEF Calls, Imports
  <2>2. CASE Depth > 1 /\ BindAlias(n, t)
    <3>1. n \in DOMAIN frames /\ MoreImports(n)
      <4>1. Depth > 1
        BY <2>2
      <4>2. n \in 1..n
        BY ONLY <1>2, <4>1
      <4>3. n \in DOMAIN frames /\ n + 1 \in DOMAIN frames
        BY <1>2, <4>2, Zenon
      <4> QED BY <1>1, <4>3, Zenon DEF Calls
    <3>2. PICK m, a : m = frames[n].mod /\ a = Import(n).alias
      OBVIOUS
    <3>3. t \in DOMAIN created /\ BindAlias(n, t)
      BY <1>2, <2>2
    <3>4. /\ created' \in Seq(Entries) /\ Len(created') = Len(created)
          /\ DOMAIN created' = DOMAIN created
          /\ \A l \in DOMAIN created : /\ created'[l].file = created[l].file
                                       /\ created'[l].name = created[l].name
          /\ \A l \in DOMAIN created : l # m => created'[l] = created[l]
          /\ Imports(m)' \subseteq Imports(m) \cup {t}
      <4>1. ImportOf(n, m, a)
        BY <3>2 DEF ImportOf
      <4> QED BY ONLY <1>1, <3>1, <3>3, <4>1, Bound
    <3>5. m \in DOMAIN created /\ \A l \in DOMAIN created : Imports(l) \subseteq DOMAIN created
      BY <1>1, <3>1, <3>2 DEF Calls, Places, Parsing
    <3>6. ASSUME NEW l \in DOMAIN created PROVE Imports(l)' \subseteq DOMAIN created
      <4>1. CASE l = m
        BY ONLY <1>2, <3>4, <3>5, <4>1
      <4>2. CASE l # m
        <5>1. Imports(l)' = Imports(l)
          BY <3>4, <4>2 DEF Imports
        <5> QED BY <3>5, <5>1, Zenon
      <4> QED BY <4>1, <4>2
    <3> QED BY ONLY <3>4, <3>6
  <2> QED BY <1>0, <2>1, <2>2
<1>6. /\ ordered' = Append(ordered, t) /\ ordered' \in Seq(Nat)
      /\ Len(ordered') = Len(ordered) + 1
      /\ DOMAIN ordered' = DOMAIN ordered \cup {Len(ordered) + 1}
      /\ ordered'[Len(ordered) + 1] = t /\ \A i \in DOMAIN ordered : ordered'[i] = ordered[i]
  BY <1>0, <1>2 DEF Finish
<1>7. Types'
  BY <1>1, <1>4, <1>5, <1>6, SameProject DEF Types
<1>8. t \in Parsing /\ Parsing' = Parsing \ {t} /\ Placed' = Placed \cup {t}
  <2>1. t = frames[Depth].mod /\ \A d \in 1..n : frames[d].mod # t
    BY <1>0, <1>1, <1>2 DEF Places
  <2>2. Parsing' = {frames[d].mod : d \in 1..n}
    BY <1>4 DEF Parsing
  <2>3. Parsing = {frames[d].mod : d \in 1..n} \cup {t}
    BY <1>2, <2>1 DEF Parsing
  <2> QED BY <1>6, <2>1, <2>2, <2>3 DEF Placed
<1>9. Places'
  <2>1. \A i \in DOMAIN ordered : ordered[i] # t
    BY <1>1, <1>8 DEF Places, Placed
  <2>2. \A i, j \in DOMAIN ordered' : ordered'[i] = ordered'[j] => i = j
    BY <1>1, <1>6, <2>1 DEF Places
  <2>3. \A d, e \in DOMAIN frames' : frames'[d].mod = frames'[e].mod => d = e
    BY <1>1, <1>2, <1>4 DEF Places
  <2>4. Len(created') = Len(ordered') + Len(frames')
    <3>1. Len(created) = Len(ordered) + Depth
      BY <1>1, <1>2 DEF Places
    <3>2. Len(ordered) \in Nat /\ Depth \in Nat
      BY <1>2
    <3>3. Len(created') = Len(created) /\ Len(ordered') = Len(ordered) + 1 /\ Len(frames') = Depth - 1
      BY <1>0, <1>4, <1>5, <1>6
    <3> QED BY ONLY <3>1, <3>2, <3>3
  <2>5. Placed' \cup Parsing' = DOMAIN created' /\ Placed' \cap Parsing' = {}
    BY <1>1, <1>5, <1>8 DEF Places
  <2> QED BY <2>2, <2>3, <2>4, <2>5 DEF Places
<1>10. Calls'
  <2>1. ASSUME NEW d \in 1..n, d + 1 \in 1..n PROVE MoreImports(d)'
    <3>1. d \in DOMAIN frames /\ d + 1 \in DOMAIN frames /\ d # n
      BY <1>2, <2>1
    <3>2. MoreImports(d)
      BY <1>1, <3>1 DEF Calls
    <3>3. frames'[d] = frames[d] /\ created'[frames[d].mod].file = created[frames[d].mod].file
      BY <1>1, <1>4, <1>5, <3>1 DEF Places, Parsing
    <3> QED BY <3>2, <3>3 DEF MoreImports, SourceOf, Caller
  <2> QED BY <1>1, <1>4, <1>5, <2>1 DEF Calls, NameIn
<1> QED
  BY <1>7, <1>9, <1>10 DEF PInv

LEMMA PlacesInit ==
  ASSUME NEW p, IsProject(p), ParserInit(p)
  PROVE  PInv
<1>1. project = p /\ created = <<>> /\ ordered = <<>> /\ frames = <<>>
  BY DEF ParserInit
<1>2. Types
  BY <1>1 DEF Types, IsProject, Files, AllImports
<1>3. Places
  BY <1>1 DEF Places, Placed, Parsing
<1>4. Calls
  BY <1>1 DEF Calls
<1> QED
  BY <1>2, <1>3, <1>4 DEF PInv

(* The candidate that is opened, and for which import                      *)
LEMMA CandidateFacts ==
  ASSUME ParseCandidate
  PROVE  /\ frames # <<>> /\ MoreImports(Depth)
         /\ Candidates[Tried] \in Files(project)
         /\ Candidates[Tried][2] = Import(Depth).name
<1>1. frames # <<>> /\ MoreImports(Depth) /\ IsThere(Tried)
  BY DEF ParseCandidate, Searching, Importing
<1>2. Tried \in DOMAIN Candidates /\ Candidates[Tried] \in Files(project)
  BY <1>1 DEF IsThere, Files
<1>3. Candidates[Tried][2] = Import(Depth).name
  BY <1>2 DEF Candidates
<1> QED
  BY <1>1, <1>2, <1>3

LEMMA PlacesStep == PInv /\ [ParserNext]_parser => PInv'
<1> SUFFICES ASSUME PInv, [ParserNext]_parser PROVE PInv'
  OBVIOUS
<1>1. CASE UNCHANGED <<project, created, ordered, frames>>
  BY <1>1, NothingNew
<1>2. CASE ParserNext /\ ParseMain
  <2>1. exception = "none" /\ created = <<>> /\ Open(project.main)
    BY <1>2 DEF ParserNext, ParseMain
  <2>2. project.main \in Files(project)
    BY DEF PInv, Types, IsProject
  <2>3. frames = <<>>
    <3>1. frames \in Seq(Frames) /\ ordered \in Seq(Nat) /\ 0 = Len(ordered) + Len(frames)
      BY <2>1 DEF PInv, Types, Places
    <3> QED BY <3>1
  <2>4. exception' = "none" \/ UNCHANGED <<project, created, ordered, frames>>
    BY <2>1 DEF Open
  <2> QED BY <1>1, <2>1, <2>2, <2>3, <2>4, PlacesOpen
<1>3. CASE ParserNext /\ ParseCandidate
  <2>1. exception = "none" /\ Open(Candidates[Tried])
    BY <1>3 DEF ParserNext, ParseCandidate
  <2>2. exception' = "none" \/ UNCHANGED <<project, created, ordered, frames>>
    BY <2>1 DEF Open
  <2> QED BY <1>1, <1>3, <2>1, <2>2, CandidateFacts, PlacesOpen
<1>4. CASE AlreadyImported
  <2>1. /\ frames # <<>> /\ MoreImports(Depth) /\ WithName(Import(Depth).name) # {}
        /\ BindAlias(Depth, Min(WithName(Import(Depth).name)))
        /\ frames' = NextImport(frames) /\ UNCHANGED <<project, ordered>>
    BY <1>4 DEF AlreadyImported, Importing, Searching
  <2>2. Min(WithName(Import(Depth).name)) \in DOMAIN created
    BY <2>1, NamedModule DEF PInv, WithName
  <2> QED BY <2>1, <2>2, PlacesGoOn
<1>5. CASE CanNotOpen
  BY <1>5, PlacesGoOn DEF CanNotOpen, Searching, Importing
<1>6. CASE CanNotFind
  BY <1>1, <1>6 DEF CanNotFind
<1>7. CASE EndMain \/ EndImported \/ EndOther
  <2>1. Depth = 1 \/ Depth > 1
    BY <1>7 DEF EndMain, EndImported, EndOther
  <2> QED BY <1>7, <2>1, PlacesEnd DEF EndMain, EndImported, EndOther, Finished
<1> QED
  BY <1>1, <1>2, <1>3, <1>4, <1>5, <1>6, <1>7 DEF ParserNext, parser

(* In every project, whatever its files are called and import: when the    *)
(* parser is done, all files that it opened are in the order of modules,   *)
(* each once.                                                              *)
THEOREM EveryFileHasItsPlace ==
  ASSUME NEW CONSTANT p, IsProject(p)
  PROVE  ParserInit(p) /\ [][ParserNext]_parser => [](Parsed => FilesInPlace)
<1>1. ParserInit(p) => PInv
  BY PlacesInit
<1>2. PInv => (Parsed => FilesInPlace)
  <2> SUFFICES ASSUME PInv, Parsed PROVE FilesInPlace
    OBVIOUS
  <2>1. Len(frames) = 0 /\ Parsing = {}
    BY DEF Parsed, Parsing
  <2>2. Len(ordered) \in Nat
    BY DEF PInv, Types
  <2> QED BY <2>1, <2>2 DEF PInv, Places, Placed, FilesInPlace
<1> QED
  BY <1>1, <1>2, PlacesStep, PTL
-----------------------------------------------------------------------------
(* What leads to what goes on to do so.                                    *)
LEMMA LeadsStays ==
  ASSUME DOMAIN created \subseteq DOMAIN created',
         \A k, l \in DOMAIN created : Link(k, l) => Link(k, l)',
         NEW k \in DOMAIN created, NEW l \in DOMAIN created, Leads(k, l)
  PROVE  Leads(k, l)'
<1> SUFFICES ASSUME NEW S \in SUBSET DOMAIN created', k \in S, ClosedUnderLinks(S)'
             PROVE  l \in S
  BY DEF Leads
<1> DEFINE T == S \cap DOMAIN created
<1>1. T \in SUBSET DOMAIN created /\ k \in T
  OBVIOUS
<1>2. ASSUME NEW m \in T, NEW n \in DOMAIN created, Link(m, n)
      PROVE  n \in T
  <2>1. Link(m, n)' /\ n \in DOMAIN created'
    BY <1>2
  <2> QED BY <2>1 DEF ClosedUnderLinks
<1>3. ClosedUnderLinks(T)
  BY <1>2 DEF ClosedUnderLinks
<1> QED
  BY <1>1, <1>3 DEF Leads

LEMMA LinkLeads ==
  ASSUME NEW k \in DOMAIN created, NEW l \in DOMAIN created, Link(k, l)
  PROVE  Leads(k, l)
BY DEF Leads, ClosedUnderLinks

(* Those that are being parsed lead to those inside of them.               *)
LEMMA StackLeads ==
  ASSUME PInv, NEW a \in DOMAIN frames, NEW b \in DOMAIN frames, a <= b
  PROVE  Leads(frames[a].mod, frames[b].mod)
<1> SUFFICES ASSUME NEW S \in SUBSET DOMAIN created, frames[a].mod \in S, ClosedUnderLinks(S)
             PROVE  frames[b].mod \in S
  BY DEF Leads
<1> DEFINE T == {d \in DOMAIN frames : d >= a /\ frames[d].mod \notin S}
<1>1. frames \in Seq(Frames) /\ \A d \in DOMAIN frames : frames[d].mod \in DOMAIN created
  BY DEF PInv, Types, Places, Parsing
<1>2. SUFFICES ASSUME T # {} PROVE FALSE
  OBVIOUS
<1>3. T \subseteq Nat
  BY <1>1
<1>4. PICK d \in T : \A e \in T : ~(<<e, d>> \in OpToRel(<, Nat))
  <2> HIDE DEF T
  <2> QED BY <1>2, <1>3, NatLessThanWellFounded, WFMin
<1>5. \A e \in T : ~(e < d)
  BY <1>3, <1>4 DEF OpToRel
<1>6. d # a
  OBVIOUS
<1>7. PICK e : e = d - 1
  OBVIOUS
<1>8. e \in DOMAIN frames /\ e + 1 = d /\ e >= a /\ e \notin T /\ d \in DOMAIN frames
  BY <1>1, <1>5, <1>6, <1>7
<1>9. frames[e].mod \in S /\ frames[d].mod \in DOMAIN created
  BY <1>1, <1>8
<1>10. Link(frames[e].mod, frames[d].mod)
  BY <1>8 DEF Link
<1>11. frames[d].mod \in S
  BY <1>9, <1>10 DEF ClosedUnderLinks
<1> QED
  BY <1>11

(* What has been in order stays in order, when links and places are only   *)
(* added.                                                                  *)
LEMMA OrderStays ==
  ASSUME PInv, Order, DOMAIN created \subseteq DOMAIN created',
         \A k, l \in DOMAIN created : Link(k, l) => Link(k, l)',
         ordered' = ordered \/ \E t : ordered' = Append(ordered, t),
         NEW m \in DOMAIN created, NEW k \in Imports(m)
  PROVE  Before(k, m)' \/ Leads(k, m)'
<1>1. k \in DOMAIN created
  BY DEF PInv, Calls
<1>2. CASE Leads(k, m)
  BY <1>1, <1>2, LeadsStays
<1>3. CASE Before(k, m)
  <2>1. ordered \in Seq(Nat)
    BY DEF PInv, Types
  <2>2. PICK i \in DOMAIN ordered :
          ordered[i] = k /\ \A j \in DOMAIN ordered : ordered[j] = m => i < j
    BY <1>3 DEF Before
  <2>3. CASE ordered' = ordered
    BY <2>2, <2>3 DEF Before
  <2>4. ASSUME NEW t, ordered' = Append(ordered, t) PROVE Before(k, m)'
    <3>1. /\ DOMAIN ordered' = DOMAIN ordered \cup {Len(ordered) + 1}
          /\ \A j \in DOMAIN ordered : ordered'[j] = ordered[j]
          /\ i < Len(ordered) + 1
      BY <2>1, <2>4
    <3> QED BY <2>2, <3>1 DEF Before
  <2> QED BY <2>3, <2>4
<1> QED
  BY <1>2, <1>3 DEF Order
-----------------------------------------------------------------------------
(* Binding the import that call d has come to, and going on with the next  *)
LEMMA ExpectedBound ==
  ASSUME IInv, NEW d \in DOMAIN frames, MoreImports(d), NEW k \in DOMAIN created,
         BindAlias(d, k), project' = project,
         DOMAIN frames' \subseteq DOMAIN frames, frames' \in Seq(Frames),
         \A e \in DOMAIN frames' : frames'[e].mod = frames[e].mod,
         \A e \in DOMAIN frames' : e # d => frames'[e] = frames[e],
         d \in DOMAIN frames' => /\ frames'[d].import = frames[d].import + 1
                                /\ d + 1 \notin DOMAIN frames'
  PROVE  Expected'
<1>1. Types /\ Places /\ Expected
  BY DEF IInv, PInv
<1>2. PICK m, a : m = frames[d].mod /\ a = Import(d).alias
  OBVIOUS
<1>3. /\ DOMAIN created' = DOMAIN created
      /\ \A l \in DOMAIN created : /\ created'[l].file = created[l].file
                                   /\ created'[l].name = created[l].name
      /\ \A l \in DOMAIN created : l # m => created'[l] = created[l]
      /\ DOMAIN created'[m].imports = DOMAIN created[m].imports \cup {a}
  <2>1. /\ d \in DOMAIN frames /\ MoreImports(d)
        /\ k \in DOMAIN created /\ BindAlias(d, k)
    OBVIOUS
  <2>2. ImportOf(d, m, a)
    BY <1>2 DEF ImportOf
  <2>3. /\ DOMAIN created' = DOMAIN created
        /\ \A l \in DOMAIN created : /\ created'[l].file = created[l].file
                                     /\ created'[l].name = created[l].name
        /\ \A l \in DOMAIN created : l # m => created'[l] = created[l]
    BY ONLY <1>1, <2>1, <2>2, Bound
  <2>4. DOMAIN created'[m].imports = DOMAIN created[m].imports \cup {a}
    BY ONLY <1>1, <2>1, <2>2, Bound
  <2> QED BY ONLY <2>3, <2>4
<1>4. \A e \in DOMAIN frames : frames[e].mod \in DOMAIN created /\ (e # d => frames[e].mod # m)
  BY <1>1, <1>2 DEF Places, Parsing
<1>5. \A e \in DOMAIN frames' :
        /\ Caller(e)'.name = Caller(e).name
        /\ SourceOf(Caller(e))' = SourceOf(Caller(e))
  BY <1>3, <1>4 DEF SourceOf, Caller
<1>6. ASSUME NEW e \in DOMAIN frames', e # d
      PROVE  /\ Import(e)' = Import(e) /\ Caller(e)' = Caller(e)
             /\ frames'[e].import = frames[e].import
  BY <1>3, <1>4, <1>5, <1>6 DEF Import, Caller
<1>7. ASSUME NEW e \in DOMAIN frames', e + 1 \in DOMAIN frames'
      PROVE  Caller(e + 1)'.name = Import(e)'.name
  <2>1. e # d /\ e + 1 \in DOMAIN frames /\ Caller(e + 1).name = Import(e).name
    BY <1>1, <1>7 DEF Expected
  <2> QED BY <1>5, <1>6, <1>7, <2>1
<1>8. ASSUME NEW e \in DOMAIN frames', NEW j \in DOMAIN SourceOf(Caller(e))'.imports,
             j >= frames'[e].import
      PROVE  SourceOf(Caller(e))'.imports[j].alias \notin DOMAIN Caller(e)'.imports
  <2>1. j \in DOMAIN SourceOf(Caller(e)).imports
    BY <1>5
  <2>2. CASE e # d
    BY <1>1, <1>5, <1>6, <1>8, <2>1, <2>2 DEF Expected
  <2>3. CASE e = d
    <3>1. /\ frames[d].import \in DOMAIN SourceOf(Caller(d)).imports
          /\ DOMAIN SourceOf(Caller(d)).imports = 1..Len(SourceOf(Caller(d)).imports)
      BY <1>1, Waiting
    <3>2. j >= frames[d].import /\ j # frames[d].import
      BY <1>8, <2>1, <2>3, <3>1
    <3>3. SourceOf(Caller(d)).imports[j].alias \notin DOMAIN Caller(d).imports
      BY <1>1, <2>1, <2>3, <3>2 DEF Expected
    <3>4. SourceOf(Caller(d)).imports[j].alias # a
      <4>1. Caller(d).file \in Files(project)
        BY <1>1, <1>2, <1>4, Sources DEF Entries, Caller
      <4> QED BY <1>2, <2>1, <2>3, <3>1, <3>2, <4>1 DEF IInv, AliasesDiffer, SourceOf, Import
    <3>5. DOMAIN Caller(d)'.imports = DOMAIN Caller(d).imports \cup {a}
      BY <1>2, <1>3, <2>3 DEF Caller
    <3> QED BY <1>5, <2>3, <3>3, <3>4, <3>5
  <2> QED BY <2>2, <2>3
<1> QED
  BY <1>7, <1>8 DEF Expected

LEMMA OrderOpen ==
  ASSUME IInv, PInv', NEW file \in Files(project), Open(file),
         exception = "none", exception' = "none",
         frames # <<>> => file[2] = Import(Depth).name /\ MoreImports(Depth)
  PROVE  Expected' /\ Order'
<1>1. Types /\ Places /\ Calls /\ Expected /\ Order
  BY DEF IInv, PInv
<1>2. PICK n, t : n = Len(created) + 1 /\ t = Depth + 1
  OBVIOUS
<1>3. /\ project' = project /\ ordered' = ordered
      /\ n \notin DOMAIN created /\ DOMAIN created' = DOMAIN created \cup {n}
      /\ \A l \in DOMAIN created : created'[l] = created[l]
      /\ created'[n].name = NameIn(project, file)
      /\ created'[n].imports = <<>>
      /\ DOMAIN frames' = DOMAIN frames \cup {t}
      /\ \A d \in DOMAIN frames : frames'[d] = frames[d]
      /\ frames'[t].mod = n
  BY <1>1, <1>2, Opened
<1>4. /\ DOMAIN frames = 1..Depth /\ Depth \in Nat
      /\ \A d \in DOMAIN frames : frames[d].mod \in DOMAIN created
  BY <1>1 DEF Types, Depth, Places, Parsing
<1>5. \A d \in DOMAIN frames : /\ Caller(d)' = Caller(d)
                               /\ SourceOf(Caller(d))' = SourceOf(Caller(d))
                               /\ Import(d)' = Import(d)
  <2> SUFFICES ASSUME NEW d \in DOMAIN frames
               PROVE  /\ Caller(d)' = Caller(d)
                      /\ SourceOf(Caller(d))' = SourceOf(Caller(d))
                      /\ Import(d)' = Import(d)
    OBVIOUS
  <2>1. frames'[d] = frames[d] /\ created'[frames[d].mod] = created[frames[d].mod]
    BY <1>3, <1>4
  <2>2. Caller(d)' = Caller(d)
    BY <2>1 DEF Caller
  <2>3. SourceOf(Caller(d))' = SourceOf(Caller(d))
    BY <1>3, <2>2 DEF SourceOf
  <2> QED BY <2>1, <2>2, <2>3 DEF Import
<1>6. Expected'
  <2>1. ASSUME NEW d \in DOMAIN frames', d + 1 \in DOMAIN frames'
        PROVE  Caller(d + 1)'.name = Import(d)'.name
    <3>1. CASE d + 1 \in DOMAIN frames
      <4>1. d \in DOMAIN frames
        BY <1>2, <1>3, <1>4, <3>1
      <4> QED BY <1>1, <1>5, <3>1, <4>1 DEF Expected
    <3>2. CASE d + 1 \notin DOMAIN frames
      <4>1. d = Depth /\ d \in DOMAIN frames /\ frames # <<>> /\ d + 1 = t
        BY <1>2, <1>3, <1>4, <2>1, <3>2
      <4>2. Caller(t)'.name = NameIn(project, file)
        BY <1>3 DEF Caller
      <4>3. Import(Depth) \in AllImports(project)
        BY <1>1, <4>1, Waiting
      <4>4. NameIn(project, file) = Import(Depth).name
        BY <4>1, <4>3 DEF IInv, FoundUnderItsName
      <4> QED BY <1>5, <4>1, <4>2, <4>4
    <3> QED BY <3>1, <3>2
  <2>2. ASSUME NEW d \in DOMAIN frames', NEW j \in DOMAIN SourceOf(Caller(d))'.imports,
               j >= frames'[d].import
        PROVE  SourceOf(Caller(d))'.imports[j].alias \notin DOMAIN Caller(d)'.imports
    <3>1. CASE d = t
      BY <1>3, <3>1 DEF Caller
    <3>2. CASE d \in DOMAIN frames
      BY <1>1, <1>3, <1>5, <2>2, <3>2 DEF Expected
    <3> QED BY <1>3, <3>1, <3>2
  <2> QED BY <2>1, <2>2 DEF Expected
<1>7. \A l \in DOMAIN created : Imports(l)' = Imports(l)
  BY <1>3 DEF Imports
<1>8. Imports(n)' = {}
  BY <1>3 DEF Imports
<1>9. ASSUME NEW k \in DOMAIN created, NEW l \in DOMAIN created, Link(k, l)
      PROVE  Link(k, l)'
  <2>1. CASE l \in Imports(k)
    BY <1>3, <1>7, <2>1 DEF Link
  <2>2. CASE l \notin Imports(k)
    <3>1. PICK d \in DOMAIN frames :
            d + 1 \in DOMAIN frames /\ frames[d].mod = k /\ frames[d + 1].mod = l
      BY <1>9, <2>2 DEF Link
    <3> QED BY <1>3, <3>1 DEF Link
  <2> QED BY <2>1, <2>2
<1>10. Order'
  <2> SUFFICES ASSUME NEW m \in DOMAIN created', NEW k \in Imports(m)'
               PROVE  Before(k, m)' \/ Leads(k, m)'
    BY DEF Order
  <2>1. m \in DOMAIN created /\ k \in Imports(m)
    BY <1>3, <1>7, <1>8
  <2>2. PInv
    BY DEF IInv
  <2> QED BY <1>1, <1>3, <1>9, <2>1, <2>2, OrderStays
<1> QED
  BY <1>6, <1>10

LEMMA LinksGrow ==
  ASSUME DOMAIN created' = DOMAIN created,
         \A l \in DOMAIN created : Imports(l) \subseteq Imports(l)',
         \A e \in DOMAIN frames : e + 1 \in DOMAIN frames =>
           \/ /\ e \in DOMAIN frames' /\ frames'[e].mod = frames[e].mod
              /\ e + 1 \in DOMAIN frames' /\ frames'[e + 1].mod = frames[e + 1].mod
           \/ \E x : x = frames[e].mod /\ frames[e + 1].mod \in Imports(x)',
         NEW a \in DOMAIN created, NEW b \in DOMAIN created, Link(a, b)
  PROVE  Link(a, b)'
<1>1. CASE b \in Imports(a)
  BY <1>1 DEF Link
<1>2. CASE b \notin Imports(a)
  <2>1. PICK d \in DOMAIN frames :
          d + 1 \in DOMAIN frames /\ frames[d].mod = a /\ frames[d + 1].mod = b
    BY <1>2 DEF Link
  <2>2. CASE b \in Imports(a)'
    BY <2>2 DEF Link
  <2>3. CASE /\ d \in DOMAIN frames' /\ frames'[d].mod = a
             /\ d + 1 \in DOMAIN frames' /\ frames'[d + 1].mod = b
    BY <2>3 DEF Link
  <2>4. \/ /\ d \in DOMAIN frames' /\ frames'[d].mod = frames[d].mod
           /\ d + 1 \in DOMAIN frames' /\ frames'[d + 1].mod = frames[d + 1].mod
        \/ \E x : x = frames[d].mod /\ frames[d + 1].mod \in Imports(x)'
    BY <2>1, Zenon
  <2> QED BY <2>1, <2>2, <2>3, <2>4
<1> QED
  BY <1>1, <1>2

(* A module that is bound has its place, or is being parsed and leads to   *)
(* the one that imports it.                                                *)
LEMMA OrderBound ==
  ASSUME IInv, PInv', NEW d \in DOMAIN frames, MoreImports(d), NEW k \in DOMAIN created,
         BindAlias(d, k), ordered' = ordered \/ \E t : ordered' = Append(ordered, t),
         \A a, b \in DOMAIN created : Link(a, b) => Link(a, b)',
         NEW m, m = frames[d].mod, Before(k, m)' \/ Leads(k, m)'
  PROVE  Order'
<1>1. PInv /\ Order /\ Types /\ Places
  BY DEF IInv, PInv
<1>2. PICK a : a = Import(d).alias
  OBVIOUS
<1>3. /\ DOMAIN created' = DOMAIN created
      /\ \A l \in DOMAIN created : l # m => created'[l] = created[l]
      /\ Imports(m)' \subseteq Imports(m) \cup {k}
  <2>1. /\ d \in DOMAIN frames /\ MoreImports(d)
        /\ k \in DOMAIN created /\ BindAlias(d, k)
    OBVIOUS
  <2>2. ImportOf(d, m, a)
    BY <1>2 DEF ImportOf
  <2> QED BY ONLY <1>1, <2>1, <2>2, Bound
<1>4. \A l \in DOMAIN created : l # m => Imports(l)' = Imports(l)
  BY <1>3 DEF Imports
<1> SUFFICES ASSUME NEW l \in DOMAIN created', NEW i \in Imports(l)'
             PROVE  Before(i, l)' \/ Leads(i, l)'
  BY DEF Order
<1>5. l \in DOMAIN created /\ (i \in Imports(l) \/ (l = m /\ i = k))
  BY <1>3, <1>4
<1>6. CASE i \in Imports(l)
  BY <1>1, <1>3, <1>5, <1>6, OrderStays
<1> QED
  BY <1>5, <1>6

LEMMA OrderAlready ==
  ASSUME IInv, PInv', AlreadyImported
  PROVE  Expected' /\ Order'
<1>1. PInv /\ Types /\ Places /\ Calls
  BY DEF IInv, PInv
<1>2. /\ frames # <<>> /\ MoreImports(Depth) /\ WithName(Import(Depth).name) # {}
      /\ frames' = NextImport(frames) /\ UNCHANGED <<project, ordered>>
  BY DEF AlreadyImported, Importing, Searching
<1>3. PICK k : k \in DOMAIN created /\ BindAlias(Depth, k)
  <2>1. Min(WithName(Import(Depth).name)) \in DOMAIN created
    BY <1>1, <1>2, NamedModule DEF WithName
  <2> QED BY <2>1 DEF AlreadyImported
<1>4. PICK d : d = Depth
  OBVIOUS
<1>5. /\ frames \in Seq(Frames) /\ DOMAIN frames = 1..d /\ d \in DOMAIN frames
      /\ d = Len(frames) /\ d + 1 \notin DOMAIN frames
  BY <1>1, <1>2, <1>4, CallersOfTop DEF Types, Depth
<1>6. /\ frames' \in Seq(Frames) /\ DOMAIN frames' = DOMAIN frames
      /\ \A e \in DOMAIN frames : frames'[e].mod = frames[e].mod
      /\ \A e \in DOMAIN frames : e # d => frames'[e] = frames[e]
      /\ frames'[d].import = frames[d].import + 1
  BY <1>2, <1>5, NextOfTop
<1>7. MoreImports(d) /\ BindAlias(d, k)
  BY <1>2, <1>3, <1>4
<1>8. Expected'
  <2>1. IInv /\ project' = project
    BY <1>2
  <2> QED BY ONLY <1>3, <1>5, <1>6, <1>7, <2>1, ExpectedBound
<1>9. PICK m, a : m = frames[d].mod /\ a = Import(d).alias
  OBVIOUS
<1>10. /\ DOMAIN created' = DOMAIN created
       /\ \A l \in DOMAIN created : l # m => created'[l] = created[l]
       /\ Imports(m) \subseteq Imports(m)'
  <2>1. ImportOf(d, m, a)
    BY <1>9 DEF ImportOf
  <2> QED BY ONLY <1>1, <1>3, <1>5, <1>7, <2>1, Bound
<1>11. \A l \in DOMAIN created : Imports(l) \subseteq Imports(l)'
  BY <1>10 DEF Imports
<1>12. \A x, y \in DOMAIN created : Link(x, y) => Link(x, y)'
  BY <1>6, <1>10, <1>11, LinksGrow
<1>13. m \in DOMAIN created /\ m \in Parsing /\ m \notin Placed
  BY <1>1, <1>5, <1>9 DEF Places, Parsing
<1>14. Before(k, m)' \/ Leads(k, m)'
  <2>1. CASE k \in Placed
    <3>1. PICK i \in DOMAIN ordered : ordered[i] = k
      BY <2>1 DEF Placed
    <3>2. \A j \in DOMAIN ordered : ordered[j] # m
      BY <1>13 DEF Placed
    <3> QED BY <1>2, <3>1, <3>2 DEF Before
  <2>2. CASE k \in Parsing
    <3>1. PICK e \in DOMAIN frames : frames[e].mod = k
      BY <2>2 DEF Parsing
    <3>2. e <= d
      BY <1>5
    <3>3. Leads(k, m)
      BY <1>1, <1>5, <1>9, <3>1, <3>2, StackLeads
    <3> QED BY <1>3, <1>10, <1>12, <1>13, <3>3, LeadsStays
  <2> QED BY <1>1, <1>3, <2>1, <2>2 DEF Places
<1>15. Order'
  <2>1. IInv /\ PInv' /\ ordered' = ordered
    BY <1>2
  <2> QED BY ONLY <1>3, <1>5, <1>7, <1>9, <1>12, <1>14, <2>1, OrderBound
<1> QED
  BY <1>8, <1>15

LEMMA OrderEnd ==
  ASSUME IInv, PInv', EndImported
  PROVE  Expected' /\ Order'
<1>1. PInv /\ Types /\ Places /\ Calls
  BY DEF IInv, PInv
<1>2. PICK d, t : d = Depth - 1 /\ t = frames[Depth].mod
  OBVIOUS
<1>3. /\ Depth > 1 /\ frames # <<>> /\ project' = project
      /\ ordered' = Append(ordered, t)
      /\ BindAlias(d, t) /\ frames' = NextImport(Callers)
  BY <1>2 DEF EndImported, Finished, Finish
<1>4. /\ DOMAIN frames = 1..(d + 1) /\ d \in Nat \ {0} /\ d + 1 = Depth
      /\ Callers \in Seq(Frames) /\ Len(Callers) = d /\ DOMAIN Callers = 1..d
      /\ \A e \in 1..d : Callers[e] = frames[e]
  BY <1>1, <1>2, <1>3, CallersOfTop
<1>5. /\ d \in DOMAIN frames /\ d + 1 \in DOMAIN frames /\ MoreImports(d)
      /\ t = frames[d + 1].mod /\ t \in DOMAIN created
      /\ 1..d \subseteq DOMAIN frames
  BY <1>1, <1>2, <1>4 DEF Calls, Places, Parsing
<1>6. /\ frames' \in Seq(Frames) /\ DOMAIN frames' = 1..d
      /\ \A e \in 1..d : frames'[e].mod = frames[e].mod
      /\ \A e \in 1..d : e # d => frames'[e] = frames[e]
      /\ frames'[d].import = frames[d].import + 1
  <2>1. /\ Callers # <<>> /\ d \in 1..d
    BY <1>4
  <2> QED BY <1>3, <1>4, <2>1, NextOfTop
<1>7. Expected'
  <2>1. d + 1 \notin DOMAIN frames' /\ DOMAIN frames' \subseteq DOMAIN frames
    BY <1>4, <1>5, <1>6
  <2>2. /\ \A e \in DOMAIN frames' : frames'[e].mod = frames[e].mod
        /\ \A e \in DOMAIN frames' : e # d => frames'[e] = frames[e]
        /\ IInv /\ project' = project
    BY <1>3, <1>6
  <2> QED BY ONLY <1>3, <1>5, <1>6, <2>1, <2>2, ExpectedBound
<1>8. PICK m, a : m = frames[d].mod /\ a = Import(d).alias
  OBVIOUS
<1>9. /\ DOMAIN created' = DOMAIN created
      /\ \A l \in DOMAIN created : l # m => created'[l] = created[l]
      /\ Imports(m) \subseteq Imports(m)'
      /\ a \notin DOMAIN created[m].imports => t \in Imports(m)'
  <2>1. ImportOf(d, m, a)
    BY <1>8 DEF ImportOf
  <2> QED BY ONLY <1>1, <1>3, <1>5, <2>1, Bound
<1>10. \A l \in DOMAIN created : Imports(l) \subseteq Imports(l)'
  BY <1>9 DEF Imports
<1>11. t \in Imports(m)'
  <2>1. frames[d].import \in DOMAIN SourceOf(Caller(d)).imports
    BY <1>1, <1>5, Waiting
  <2>2. frames[d].import >= frames[d].import
    <3>1. frames[d] \in Frames
      BY <1>1, <1>5, Sources
    <3> QED BY <3>1 DEF Frames
  <2>3. a \notin DOMAIN created[m].imports
    BY <1>5, <1>8, <2>1, <2>2 DEF IInv, Expected, Import, Caller
  <2> QED BY <1>9, <2>3
<1>12. m \in DOMAIN created /\ m # t /\ m \in Parsing /\ m \notin Placed
  <2>1. d # d + 1
    BY <1>4
  <2> QED BY <1>1, <1>5, <1>8, <2>1 DEF Places, Parsing
<1>13. \A x, y \in DOMAIN created : Link(x, y) => Link(x, y)'
  <2>1. ASSUME NEW e \in DOMAIN frames, e + 1 \in DOMAIN frames
        PROVE  \/ /\ e \in DOMAIN frames' /\ frames'[e].mod = frames[e].mod
                  /\ e + 1 \in DOMAIN frames' /\ frames'[e + 1].mod = frames[e + 1].mod
               \/ \E x : x = frames[e].mod /\ frames[e + 1].mod \in Imports(x)'
    <3>1. CASE e = d
      BY <1>5, <1>8, <1>11, <3>1
    <3>2. CASE e # d
      <4>1. e \in 1..d /\ e + 1 \in 1..d
        BY <1>4, <2>1, <3>2
      <4> QED BY <1>6, <4>1
    <3> QED BY <3>1, <3>2
  <2> QED BY <1>9, <1>10, <2>1, LinksGrow
<1>14. Before(t, m)'
  <2>1. ordered \in Seq(Nat)
    BY <1>1 DEF Types
  <2>2. /\ DOMAIN ordered' = DOMAIN ordered \cup {Len(ordered) + 1}
        /\ ordered'[Len(ordered) + 1] = t
        /\ \A j \in DOMAIN ordered : ordered'[j] = ordered[j]
    BY <1>3, <2>1
  <2>3. \A j \in DOMAIN ordered' : ordered'[j] # m
    BY <1>12, <2>2 DEF Placed
  <2> QED BY <2>2, <2>3 DEF Before
<1>15. Order'
  <2>1. IInv /\ PInv' /\ \E x : ordered' = Append(ordered, x)
    BY <1>3
  <2> QED BY ONLY <1>3, <1>5, <1>8, <1>13, <1>14, <2>1, OrderBound
<1> QED
  BY <1>7, <1>15

(* Steps after which nothing is parsed any more, or all is as it was but   *)
(* for the candidates                                                      *)
LEMMA OrderSame ==
  ASSUME IInv, UNCHANGED <<project, created>>,
         \/ frames' = <<>> /\ Len(frames) = 1 /\ \E t : ordered' = Append(ordered, t)
         \/ frames' = frames /\ ordered' = ordered
         \/ frames # <<>> /\ frames' = NextCandidate(frames) /\ ordered' = ordered
  PROVE  Expected' /\ Order'
<1>1. PInv /\ Types /\ Expected /\ Order /\ frames \in Seq(Frames)
  BY DEF IInv, PInv, Types
<1>2. frames # <<>> => Len(frames) \in DOMAIN frames
  BY <1>1
<1>3. \/ frames' = <<>> /\ DOMAIN frames = {1}
      \/ /\ DOMAIN frames' = DOMAIN frames
         /\ \A d \in DOMAIN frames : /\ frames'[d].mod = frames[d].mod
                                      /\ frames'[d].import = frames[d].import
  BY <1>1, <1>2, NextOfTop
<1>4. Expected'
  <2>1. CASE frames' = <<>>
    BY <2>1 DEF Expected
  <2>2. CASE /\ DOMAIN frames' = DOMAIN frames
             /\ \A d \in DOMAIN frames : /\ frames'[d].mod = frames[d].mod
                                          /\ frames'[d].import = frames[d].import
    <3>1. \A d \in DOMAIN frames : /\ Caller(d)' = Caller(d)
                                   /\ SourceOf(Caller(d))' = SourceOf(Caller(d))
                                   /\ Import(d)' = Import(d)
      BY <2>2 DEF Caller, SourceOf, Import
    <3> QED BY <1>1, <2>2, <3>1 DEF Expected
  <2> QED BY <1>3, <2>1, <2>2
<1>5. \A l : Imports(l)' = Imports(l)
  BY DEF Imports
<1>6. ASSUME NEW k \in DOMAIN created, NEW l \in DOMAIN created, Link(k, l)
      PROVE  Link(k, l)'
  <2>1. CASE l \in Imports(k)
    BY <1>5, <2>1 DEF Link
  <2>2. CASE l \notin Imports(k)
    <3>1. PICK d \in DOMAIN frames :
            d + 1 \in DOMAIN frames /\ frames[d].mod = k /\ frames[d + 1].mod = l
      BY <1>6, <2>2 DEF Link
    <3>2. ~(DOMAIN frames = {1})
      BY <3>1
    <3>3. /\ d \in DOMAIN frames' /\ d + 1 \in DOMAIN frames'
          /\ frames'[d].mod = k /\ frames'[d + 1].mod = l
      BY <1>3, <3>1, <3>2
    <3> QED BY <3>3 DEF Link
  <2> QED BY <2>1, <2>2
<1>7. Order'
  <2> SUFFICES ASSUME NEW m \in DOMAIN created, NEW k \in Imports(m)
               PROVE  Before(k, m)' \/ Leads(k, m)'
    BY <1>5 DEF Order
  <2>1. ordered' = ordered \/ \E t : ordered' = Append(ordered, t)
    OBVIOUS
  <2> QED BY <1>1, <1>6, <2>1, OrderStays
<1> QED
  BY <1>4, <1>7

LEMMA OrderStep == IInv /\ [ParserNext]_parser => IInv'
<1> SUFFICES ASSUME IInv, [ParserNext]_parser PROVE IInv'
  OBVIOUS
<1>1. PInv /\ PInv' /\ project' = project
  <2>1. project' = project
    BY DEF ParserNext, parser, ParseMain, ParseCandidate, Open, AlreadyImported, CanNotOpen,
           CanNotFind, EndMain, EndImported, EndOther, Finished
  <2> QED BY <2>1, PlacesStep DEF IInv
<1>2. FoundUnderItsName(project)' /\ AliasesDiffer(project)'
  BY <1>1, SameProject DEF IInv
<1>3. CASE UNCHANGED <<project, created, ordered, frames>>
  BY <1>1, <1>2, <1>3, OrderSame DEF IInv
<1>4. CASE ParserNext /\ ParseMain
  <2>1. exception = "none" /\ created = <<>> /\ Open(project.main)
    BY <1>4 DEF ParserNext, ParseMain
  <2>2. project.main \in Files(project)
    BY <1>1 DEF PInv, Types, IsProject
  <2>3. frames = <<>>
    <3>1. frames \in Seq(Frames) /\ ordered \in Seq(Nat) /\ 0 = Len(ordered) + Len(frames)
      BY <1>1, <2>1 DEF PInv, Types, Places
    <3> QED BY <3>1
  <2>4. exception' = "none" \/ UNCHANGED <<project, created, ordered, frames>>
    BY <2>1 DEF Open
  <2>5. exception' = "none" => Expected' /\ Order'
    BY <1>1, <2>1, <2>2, <2>3, OrderOpen
  <2> QED BY <1>1, <1>2, <1>3, <2>4, <2>5 DEF IInv
<1>5. CASE ParserNext /\ ParseCandidate
  <2>1. exception = "none" /\ Open(Candidates[Tried])
    BY <1>5 DEF ParserNext, ParseCandidate
  <2>2. exception' = "none" \/ UNCHANGED <<project, created, ordered, frames>>
    BY <2>1 DEF Open
  <2>3. exception' = "none" => Expected' /\ Order'
    BY <1>1, <1>5, <2>1, CandidateFacts, OrderOpen
  <2> QED BY <1>1, <1>2, <1>3, <2>2, <2>3 DEF IInv
<1>6. CASE AlreadyImported
  BY <1>1, <1>2, <1>6, OrderAlready DEF IInv
<1>7. CASE CanNotOpen
  <2>1. /\ UNCHANGED <<project, created, ordered>>
        /\ frames # <<>> /\ frames' = NextCandidate(frames)
    BY <1>7 DEF CanNotOpen, Searching, Importing
  <2>2. Expected' /\ Order'
    BY <2>1, OrderSame
  <2> QED BY <1>1, <1>2, <2>2 DEF IInv
<1>8. CASE CanNotFind
  BY <1>3, <1>8 DEF CanNotFind
<1>9. CASE EndMain
  <2>1. /\ UNCHANGED <<project, created>> /\ Len(frames) = 1
        /\ frames' = <<>> /\ \E t : ordered' = Append(ordered, t)
    <3>1. /\ UNCHANGED <<project, created>> /\ Depth = 1 /\ frames # <<>>
          /\ frames' = Callers /\ ordered' = Append(ordered, frames[Depth].mod)
      BY <1>9 DEF EndMain, Finished, Finish
    <3>2. Callers \in Seq(Frames) /\ Len(Callers) = 0
      BY <1>1, <3>1, CallersOfTop DEF PInv
    <3> QED BY <3>1, <3>2 DEF Depth
  <2>2. Expected' /\ Order'
    BY <2>1, OrderSame
  <2> QED BY <1>1, <1>2, <2>2 DEF IInv
<1>10. CASE EndImported
  BY <1>1, <1>2, <1>10, OrderEnd DEF IInv
<1>11. CASE EndOther
  <2>1. PICK d : d = Depth - 1
    OBVIOUS
  <2>2. d \in DOMAIN frames /\ d + 1 \in DOMAIN frames /\ d + 1 = Depth
    <3>1. Depth > 1 /\ frames # <<>>
      BY <1>11 DEF EndOther, Finished
    <3>2. Depth \in Nat \ {0} /\ DOMAIN frames = 1..Depth
      BY <1>1, <3>1, CallersOfTop DEF PInv
    <3> QED BY <2>1, <3>1, <3>2
  <2>3. Caller(d + 1).name = Import(d).name
    BY <2>2 DEF IInv, Expected
  <2> QED BY <1>11, <2>1, <2>2, <2>3 DEF EndOther
<1> QED
  BY <1>3, <1>4, <1>5, <1>6, <1>7, <1>8, <1>9, <1>10, <1>11 DEF ParserNext, parser

(* In every project whose files have the names under which they are found  *)
(* and use no alias twice: when the parser is done, what a module imports  *)
(* comes before it, unless it imports the module in turn.                  *)
THEOREM ModulesInOrder ==
  ASSUME NEW CONSTANT p, IsProject(p), FoundUnderItsName(p), AliasesDiffer(p)
  PROVE  ParserInit(p) /\ [][ParserNext]_parser => []ImportsInOrder
<1>1. ParserInit(p) => IInv
  <2> SUFFICES ASSUME ParserInit(p) PROVE IInv
    OBVIOUS
  <2>1. project = p /\ created = <<>> /\ frames = <<>>
    BY DEF ParserInit
  <2>2. FoundUnderItsName(project) /\ AliasesDiffer(project)
    BY <2>1
  <2>3. PInv
    BY PlacesInit
  <2> QED BY <2>1, <2>2, <2>3 DEF IInv, Expected, Order
<1>2. IInv => ImportsInOrder
  <2> SUFFICES ASSUME IInv, Parsed PROVE ImportsInOrder
    BY DEF ImportsInOrder
  <2>1. PInv /\ Order /\ frames = <<>> /\ ordered \in Seq(Nat)
    BY DEF IInv, PInv, Types, Parsed
  <2>2. FilesInPlace
    <3>1. Len(frames) = 0 /\ Parsing = {}
      BY <2>1 DEF Parsing
    <3> QED BY <2>1, <3>1 DEF PInv, Places, Placed, FilesInPlace
  <2>3. ASSUME NEW j \in DOMAIN ordered, NEW k \in Imports(ordered[j])
        PROVE  (\E i \in 1..(j - 1) : ordered[i] = k) \/ LeadsTo(k, ordered[j])
    <3>1. ordered[j] \in DOMAIN created
      BY <2>2 DEF FilesInPlace
    <3>2. CASE Before(k, ordered[j])
      <4>1. PICK i \in DOMAIN ordered : ordered[i] = k /\ i < j
        BY <3>2 DEF Before
      <4>2. i \in 1..(j - 1)
        BY <2>1, <4>1
      <4> QED BY <4>1, <4>2
    <3>3. CASE Leads(k, ordered[j])
      <4> SUFFICES ASSUME NEW S \in SUBSET DOMAIN created, k \in S,
                          \A m \in S : Imports(m) \subseteq S
                   PROVE  ordered[j] \in S
        BY DEF LeadsTo
      <4>1. ClosedUnderLinks(S)
        BY <2>1 DEF ClosedUnderLinks, Link
      <4> QED BY <3>3, <4>1 DEF Leads
    <3> QED BY <2>1, <3>1, <3>2, <3>3 DEF Order
  <2> QED BY <2>2, <2>3 DEF ImportsInOrder
<1> QED
  BY <1>1, <1>2, OrderStep, PTL
=============================================================================
