--------------------------- MODULE AffineProgram ----------------------------
(***************************************************************************)
(* The polyhedral model of a program (common/ph_model.hpp) as the back end *)
(* sees it once the language has been reduced away: statements with an     *)
(* iteration domain, a place in the schedule and affine array accesses.    *)
(*                                                                         *)
(* Iteration spaces and arrays are one-dimensional: inner dimensions are   *)
(* collapsed, so that an array element stands for a row.  A domain is a    *)
(* set of arithmetic progressions; isl's sets of this shape are its unions *)
(* of basic sets with one ray each.  A statement instance is <<s, i>>.     *)
(***************************************************************************)
EXTENDS Integers, Sequences, FiniteSets, FiniteSetsExt

Infinite == -1      (* the last member of an unbounded progression         *)

(* What polyhedral_gen makes: statements and accesses of whole numbers     *)
Access == [array : Nat, mul : Int, off : Int]
IsStatement(s) ==
  s \in [band : Nat, rate : Nat, start : Int, io : BOOLEAN, domain : {s.domain},
         reads : Seq(Access), writes : Seq(Access)]
IsProgram(p) ==
  /\ p \in [arrays : {p.arrays}, stmts : {p.stmts}]
  /\ DOMAIN p.stmts = 1..Len(p.stmts) /\ Len(p.stmts) \in Nat
  /\ \A n \in DOMAIN p.stmts : IsStatement(p.stmts[n])

CONSTANT Horizon    (* times and indices below it are looked at            *)
ASSUME HorizonAssumption == Horizon \in Nat \ {0}

InProgression(i, g) ==
  /\ i >= g.first
  /\ (i - g.first) % g.stride = 0
  /\ g.last = Infinite \/ i <= g.last

InDomain(i, s) == \E g \in s.domain : InProgression(i, g)

IsInfinite(s) == \E g \in s.domain : g.last = Infinite

Time(s, i)  == s.rate * i + s.start
Index(a, i) == a.mul * i + a.off

Reads(s)      == {s.reads[n] : n \in DOMAIN s.reads}
Writes(s)     == {s.writes[n] : n \in DOMAIN s.writes}

(* What isl's schedules look like: each instance of a statement has a time *)
(* of its own, from 0 on.  Accesses go forward in their arrays.  With no   *)
(* start before -Horizon, `Instances' looks at enough indices.             *)
Progression == [first : Nat, stride : Nat \ {0}, last : Nat \cup {Infinite}]
IsScheduled(p) ==
  \A n \in DOMAIN p.stmts :
    LET s == p.stmts[n] IN
    /\ s.rate > 0 /\ s.start >= -Horizon
    /\ IsFiniteSet(s.domain)
    /\ \A g \in s.domain : g \in Progression /\ Time(s, g.first) >= 0
    /\ \A a \in Reads(s) \cup Writes(s) : a.mul >= 0

Statements(p) == DOMAIN p.stmts
Arrays(p)     == DOMAIN p.arrays

(* The instances of p scheduled before the horizon, and their order: that  *)
(* of the bands, of the times within a band, of the statements at a time.  *)
Instances(p) ==
  UNION {{<<n, i>> : i \in {j \in 0..(2 * Horizon) :
                              /\ InDomain(j, p.stmts[n])
                              /\ Time(p.stmts[n], j) < Horizon}} :
           n \in Statements(p)}

Key(p, e) ==
  (2 * Horizon * p.stmts[e[1]].band + Time(p.stmts[e[1]], e[2])) * Len(p.stmts)
    + e[1] - 1

(* The first member of statement s's domain from i on, if there is one     *)
End == -1
FirstFrom(s, i) ==
  LET ahead == {j \in i..(2 * Horizon) : InDomain(j, s)}
  IN  IF ahead = {} THEN End ELSE Min(ahead)

(* Does access a, made by an instance of progression g, reach element x?   *)
Reaches(a, g, x) ==
  IF a.mul = 0
  THEN x = a.off
  ELSE (x - a.off) % a.mul = 0 /\ InProgression((x - a.off) \div a.mul, g)

(* Read accesses, each with a progression it is made for                   *)
ReadAccesses(p) ==
  UNION {Reads(p.stmts[n]) \X p.stmts[n].domain : n \in Statements(p)}

IsRead(p, array, x) ==
  \E r \in ReadAccesses(p) : r[1].array = array /\ Reaches(r[1], r[2], x)

(* Every element written is read by someone.                               *)
NoUnrelatedWrites(p) ==
  \A e \in Instances(p) : \A a \in Writes(p.stmts[e[1]]) :
    IsRead(p, a.array, Index(a, e[2]))

(* The order and the accesses of instances respect the flow of data: what  *)
(* is read has been written before.  isl's schedules promise that.         *)
RespectsDataFlow(p) ==
  \A r \in Instances(p) : \A a \in Reads(p.stmts[r[1]]) :
    \E w \in Instances(p) : \E b \in Writes(p.stmts[w[1]]) :
      /\ b.array = a.array
      /\ Index(b, w[2]) = Index(a, r[2])
      /\ Key(p, w) < Key(p, r)

-----------------------------------------------------------------------------
(* The greatest common divisor and least common multiple of scheduling.cpp *)
gcd[ab \in Nat \X Nat] ==
  IF ab[1] = 0 THEN ab[2] ELSE gcd[<<ab[2] % ab[1], ab[1]>>]
lcm(a, b) == LET div == gcd[<<a, b>>]
             IN  IF div = 0 THEN 0 ELSE (a \div div) * b

(* Mutated: goes from one useful member to the next by array elements      *)
UsefulByElement(g, w, a, h) ==
  LET hits == {i \in g.first..(g.first + Horizon) :
                 InProgression(i, g) /\ Reaches(a, h, Index(w, i))}
      skip == Max({1, lcm(w.mul, a.mul * h.stride)})
  IN  IF hits = {} THEN {}
      ELSE {[first |-> Min(hits), stride |-> g.stride * skip, last |-> g.last]}

(* The members of g that write, through w, what a of progression h reads   *)
UsefulPart(g, w, a, h) ==
  LET hits == {i \in g.first..(g.first + Horizon) :
                 InProgression(i, g) /\ Reaches(a, h, Index(w, i))}
      step == a.mul * h.stride
      \* how far to go from one member to the next
      skip == IF step = 0 \/ w.mul = 0 THEN g.stride
              ELSE lcm(g.stride, step \div gcd[<<w.mul, step>>])
      endless == g.last = Infinite /\ h.last = Infinite /\ step > 0
  IN  IF hits = {} THEN {}
      ELSE {[first |-> Min(hits), stride |-> skip,
             last |-> IF endless \/ w.mul = 0 THEN g.last ELSE Max(hits)]}

(* "Drop statement instances which write elements which are never read":   *)
(* one pass, which looks at the reads of the program as it was before, and *)
(* leaves inputs and outputs alone.                                        *)
UsefulDomain(p, s) ==
  UNION {UsefulPart(c[1], c[2], c[3][1], c[3][2]) :
           c \in {d \in s.domain \X Writes(s) \X ReadAccesses(p) :
                   d[2].array = d[3][1].array}}

(* Mutated: drops nothing                                                  *)
KeepAll(p) == p

DropUnread(p) ==
  LET restricted(s) == IF s.io THEN s
                       ELSE [s EXCEPT !.domain = UsefulDomain(p, s)]
  IN  [p EXCEPT !.stmts = [n \in Statements(p) |-> restricted(p.stmts[n])]]
=============================================================================
