-------------------------- MODULE StorageContract ---------------------------
(***************************************************************************)
(* What the generated class needs of the code and buffers it is made of,   *)
(* to find its elements where it has put them: a contract between the      *)
(* compiler, which CompileAndRun checks and CompilerProofs proves to keep  *)
(* it, and Kernel, for which KernelProofs shows what follows from it.      *)
(***************************************************************************)
EXTENDS CallSequence

-----------------------------------------------------------------------------
(* Fits: buffers have room for all that is accessed, in any phase that     *)
(* they will have, which is at most that before a shift.                   *)
Unmoved(c)   == [a \in Arrays(c.prog) |-> 0]
LastPhase(c) ==
  [a \in Arrays(c.prog) |->
     IF c.buffers[a].has_phase
     THEN (c.buffers[a].shift.period_count - 1) * c.advance[a] ELSE 0]

HasRoom(c, x, i, phase) ==
  /\ x.array \in Arrays(c.prog)
  /\ i \in Nat
  /\ LET b == c.buffers[x.array]
     IN  b.cells = 1 \/ b.wraps \/ i + phase[x.array] < b.cells

RoomFor(c, body, phase) ==
  /\ body \in Seq(Statements(c.prog) \X Nat)
  /\ \A n \in DOMAIN body :
       LET s == c.prog.stmts[body[n][1]]
       IN  \A x \in Reads(s) \cup Writes(s) : HasRoom(c, x, Index(x, body[n][2]), phase)

Fits(c) ==
  /\ RoomFor(c, c.prelude, Unmoved(c))
  /\ RoomFor(c, c.period, LastPhase(c))

-----------------------------------------------------------------------------
(* The keys of instances grow, within a call and from call to call.        *)
Ordered(c) ==
  \A m \in Calls :
    /\ \A n \in DOMAIN CodeOf(c, m) :
         n + 1 \in DOMAIN CodeOf(c, m) => KeyAt(c, m, n) < KeyAt(c, m, n + 1)
    /\ m + 1 \in Calls /\ CodeOf(c, m) # <<>> /\ c.period # <<>> =>
         KeyAt(c, m, Len(CodeOf(c, m))) < StartOf(c, m + 1)

(* A period later every access is `advance' further on in its array, which *)
(* is a multiple of the size of a buffer that wraps without a phase.       *)
Steady(c) ==
  /\ \A n \in DOMAIN c.period :
       LET s == c.prog.stmts[c.period[n][1]]
       IN  /\ s.rate # 0
           /\ \A x \in Reads(s) \cup Writes(s) :
                x.mul * (c.period_size \div s.rate) = c.advance[x.array]
  /\ \A a \in Arrays(c.prog) :
       LET b == c.buffers[a]
       IN  b.wraps /\ ~b.has_phase => c.advance[a] % b.cells = 0

(* <<element, key, call, position>> of each write of the code, and         *)
(* <<element, key>> of each read of the program before the horizon         *)
WritesOf(c, a) ==
  UNION {UNION {LET e == CodeOf(c, m)[n]
                    s == c.prog.stmts[e[1]]
                IN  {<<Index(w, InCall(c, e, m)[2]), KeyAt(c, m, n), m, n>> :
                       w \in {x \in Writes(s) : x.array = a}} :
                  n \in DOMAIN CodeOf(c, m)} : m \in Calls}
ReadsOf(c, a) ==
  UNION {{<<Index(x, e[2]), Key(c.prog, e)>> :
            x \in {y \in Reads(c.prog.stmts[e[1]]) : y.array = a}} :
           e \in Instances(c.prog)}

(* An element that is still to be read is within reach of all those        *)
(* written meanwhile.                                                      *)
KeptApart(c, a) ==
  LET b == c.buffers[a]
  IN  b.wraps \/ b.cells = 1 =>
        \A v \in WritesOf(c, a) : \A r \in {x \in ReadsOf(c, a) : x[1] = v[1]} :
          \A w \in WritesOf(c, a) :
            v[2] <= w[2] /\ w[2] < r[2] =>
              v[1] - w[1] < b.cells /\ w[1] - v[1] < b.cells

(* What is in a buffer that neither wraps nor has a phase is not read in   *)
(* the next period, unless it is at the same place there; what is on the   *)
(* stack is not read in the next call.                                     *)
KeptPerPeriod(c, a) ==
  LET b == c.buffers[a]
  IN  ~b.wraps /\ b.cells # 1 /\ ~b.has_phase /\ c.advance[a] # 0 =>
        \A v \in WritesOf(c, a) : \A r \in {x \in ReadsOf(c, a) : x[1] = v[1]} :
          \A m \in 1..MaxPeriods : v[3] <= m => r[2] < StartOf(c, m + 1)

KeptPerCall(c, a) ==
  c.buffers[a].on_stack =>
    \A v \in WritesOf(c, a) : \A r \in {x \in ReadsOf(c, a) : x[1] = v[1]} :
      \A m \in 1..MaxPeriods : v[3] < m => r[2] < StartOf(c, m)

(* What is still to be read lies in the part that is moved by a shift.     *)
KeptByShift(c, a) ==
  LET b    == c.buffers[a]
      dest == b.shift.source - b.shift.period_count * c.advance[a]
  IN  b.has_phase /\ b.shift.size > 0 =>
        /\ dest >= 0 /\ b.cells # 1
        /\ \A v \in WritesOf(c, a) : \A r \in {x \in ReadsOf(c, a) : x[1] = v[1]} :
             \A m \in 1..MaxPeriods :
               v[3] <= m /\ r[2] >= StartOf(c, m + 1) =>
                 /\ dest <= v[1] - m * c.advance[a]
                 /\ v[1] - m * c.advance[a] < dest + b.shift.size

(* Flows: what an instance before the horizon reads has been written by an *)
(* earlier one of the code.                                                *)
Flows(c) ==
  LET writes == [a \in Arrays(c.prog) |-> WritesOf(c, a)]
      all    == Instances(c.prog)
  IN  \A m \in 0..MaxPeriods : \A n \in DOMAIN CodeOf(c, m) :
        LET e == InCall(c, CodeOf(c, m)[n], m)
        IN  e \in all =>
              \A x \in Reads(c.prog.stmts[e[1]]) :
                \E w \in writes[x.array] :
                  /\ w[1] = Index(x, e[2])
                  /\ w[3] < m \/ (w[3] = m /\ w[4] < n)

(* Whole: the calls execute all that the program consists of and nothing   *)
(* else.  What they execute before the horizon belongs to the program, and *)
(* no member of a domain comes before the first of them, between one and   *)
(* the next, or after the last.                                            *)
Members(p) ==
  UNION {{<<n, i>> : i \in {j \in 0..(2 * Horizon) : InDomain(j, p.stmts[n])}} :
           n \in Statements(p)}

Whole(c) ==
  LET all     == Instances(c.prog)
      keys    == {Key(c.prog, e) : e \in Members(c.prog)}
      last(m) == Len(CodeOf(c, m))
      between(low, high) == \E x \in keys : low < x /\ x < high
  IN  /\ \A n \in Statements(c.prog) : c.prog.stmts[n].rate > 0
      /\ \A m \in 0..MaxPeriods : m = 0 \/ BeforeHorizon(c, m - 1) =>
           \A n \in DOMAIN CodeOf(c, m) :
             /\ InCall(c, CodeOf(c, m)[n], m) \in all
             /\ n # last(m) => ~between(KeyAt(c, m, n), KeyAt(c, m, n + 1))
             /\ n = last(m) /\ c.period # <<>> => ~between(KeyAt(c, m, n), StartOf(c, m + 1))
             /\ n = last(m) /\ c.period = <<>> => \A x \in keys : x <= KeyAt(c, m, n)
      /\ c.prelude # <<>> => \A x \in keys : x >= KeyAt(c, 0, 1)
      /\ c.prelude = <<>> /\ c.period # <<>> => \A x \in keys : x >= StartOf(c, 1)
      /\ c.prelude = <<>> /\ c.period = <<>> => keys = {}

(* Keeps: elements stay where they are as long as they are needed.         *)
Keeps(c) ==
  /\ IsProgram(c.prog)
  /\ Ordered(c)
  /\ Steady(c)
  /\ \A a \in Arrays(c.prog) :
       /\ \A x \in WritesOf(c, a) \cup ReadsOf(c, a) : x[1] \in Nat
       /\ KeptApart(c, a)
       /\ c.period # <<>> =>
            KeptPerPeriod(c, a) /\ KeptPerCall(c, a) /\ KeptByShift(c, a)

KeepsContract(c) == WellFormed(c) /\ Fits(c) /\ Keeps(c) /\ Flows(c) /\ Whole(c)
=============================================================================
