------------------------------- MODULE Kernel -------------------------------
(***************************************************************************)
(* The generated class: prelude() and period() as cpp/cpp_target.cpp and   *)
(* cpp/cpp_from_polyhedral.cpp put them together, working on buffers that  *)
(* hold a moving part of each array.                                       *)
(*                                                                         *)
(* A cell holds the index of the array element stored there last: elements *)
(* are written once, so an element's index stands for its value.           *)
(***************************************************************************)
EXTENDS CallSequence

VARIABLES
  pc,       (* "none" before construction, then "created", in "prelude" or *)
            (* "period", or "idle" between calls                           *)
  step,     (* instances executed in the call                              *)
  k,        (* calls of period() that have returned                        *)
  ph,       (* <array>_ph, the phase of each buffer                        *)
  mem,      (* the cells of each buffer                                    *)
  seen      (* the instance executed last, and the elements that it read   *)

kernelVars == <<code, pc, step, k, ph, mem, seen>>

Garbage == -1
NoneYet == <<>>

KArrays == Arrays(code.prog)
Cells(a) == 0..(code.buffers[a].cells - 1)
Blank(a) == [c \in Cells(a) |-> Garbage]

(* Buffers on the stack are declared afresh in each call.                  *)
Entered == [a \in KArrays |-> IF code.buffers[a].on_stack THEN Blank(a) ELSE mem[a]]

KernelInit ==
  /\ WellFormed(code)
  /\ pc = "none"
  /\ step = 0 /\ k = 0
  /\ ph = <<>> /\ mem = <<>>
  /\ seen = NoneYet

(* state_type_def: phases are initialised, the buffers are not             *)
Construct ==
  /\ pc = "none"
  /\ pc' = "created"
  /\ ph' = [a \in KArrays |-> 0]
  /\ mem' = [a \in KArrays |-> Blank(a)]
  /\ UNCHANGED <<code, step, k, seen>>

-----------------------------------------------------------------------------
Body == IF pc = "prelude" THEN code.prelude ELSE code.period

(* generate_buffer_access: the cell for index i of the source program.     *)
(* Only period() adds the phase.                                           *)
Cell(a, i) ==
  LET b == code.buffers[a]
      j == IF pc = "period" /\ b.has_phase THEN i + ph[a] ELSE i
  IN  IF b.cells = 1 THEN 0
      ELSE IF b.wraps THEN j % b.cells
      ELSE j

Load(a, c) == IF c \in Cells(a) THEN mem[a][c] ELSE Garbage

(* Period k repeats the instances of the first period with all iterators   *)
(* moved on; this is the instance that e is then.                          *)
Moved(e, n) == <<e[1], e[2] + n * (code.period_size \div code.prog.stmts[e[1]].rate)>>
Current(e)  == IF pc = "period" THEN Moved(e, k) ELSE e

(* One statement instance: all its reads, then its write                   *)
Fetched(e) ==
  LET reads == code.prog.stmts[e[1]].reads
  IN  [n \in DOMAIN reads |->
         Load(reads[n].array, Cell(reads[n].array, Index(reads[n], e[2])))]

Stored(e) ==
  LET at(a, c) == {w \in Writes(code.prog.stmts[e[1]]) :
                     w.array = a /\ Cell(a, Index(w, e[2])) = c}
  IN  [a \in KArrays |->
        [c \in Cells(a) |->
          IF at(a, c) = {} THEN mem[a][c]
          ELSE Index(CHOOSE w \in at(a, c) : TRUE, Current(e)[2])]]

ExecuteInstance ==
  /\ pc \in {"prelude", "period"}
  /\ step < Len(Body)
  /\ LET e == Body[step + 1]
     IN  /\ mem' = Stored(e)
         /\ seen' = [stmt |-> e[1], index |-> Current(e)[2], read |-> Fetched(e)]
  /\ step' = step + 1
  /\ UNCHANGED <<code, pc, k, ph>>

CallPrelude ==
  /\ pc = "created"
  /\ pc' = "prelude"
  /\ step' = 0
  /\ mem' = Entered
  /\ UNCHANGED <<code, k, ph, seen>>

ReturnFromPrelude ==
  /\ pc = "prelude"
  /\ step = Len(code.prelude)
  /\ pc' = "idle"
  /\ step' = 0
  /\ UNCHANGED <<code, k, ph, mem, seen>>

(* Bounds: no more than MaxPeriods periods, and all before the horizon     *)
CallPeriod ==
  /\ pc = "idle"
  /\ Len(code.period) > 0
  /\ k < MaxPeriods /\ BeforeHorizon(code, k)
  /\ pc' = "period"
  /\ step' = 0
  /\ mem' = Entered
  /\ UNCHANGED <<code, k, ph, seen>>

-----------------------------------------------------------------------------
(* advance_buffers, at the end of period()                                 *)
Shifts(a) == code.buffers[a].has_phase /\ code.buffers[a].shift.size > 0
MaxPhase(a) == code.buffers[a].shift.period_count * code.advance[a]
TimeToShift(a) == ph[a] + code.advance[a] >= MaxPhase(a)

(* Mutated: the phase goes back instead of on; it never wraps              *)
PhaseBack(a) ==
  IF code.buffers[a].has_phase THEN ph[a] - code.advance[a] ELSE ph[a]

PhaseUnwrapped(a) ==
  IF code.buffers[a].has_phase THEN ph[a] + code.advance[a] ELSE ph[a]

AdvancedPhase(a) ==
  IF ~code.buffers[a].has_phase THEN ph[a]
  ELSE IF Shifts(a)
  THEN IF TimeToShift(a) THEN 0 ELSE ph[a] + code.advance[a]
  ELSE (ph[a] + code.advance[a]) % code.buffers[a].cells

(* Mutated: moves the data one cell short                                  *)
ShiftedShort(a) ==
  LET shift == code.buffers[a].shift
      dest  == shift.source - MaxPhase(a)
  IN  [c \in Cells(a) |->
         IF dest < c /\ c < dest + shift.size
         THEN Load(a, c - dest + shift.source)
         ELSE mem[a][c]]

ShiftedData(a) ==
  LET shift == code.buffers[a].shift
      dest  == shift.source - MaxPhase(a)
  IN  [c \in Cells(a) |->
         IF dest <= c /\ c < dest + shift.size
         THEN Load(a, c - dest + shift.source)
         ELSE mem[a][c]]

AdvanceBuffers ==
  /\ pc = "period"
  /\ step = Len(code.period)
  /\ ph' = [a \in KArrays |-> AdvancedPhase(a)]
  /\ mem' = [a \in KArrays |->
               IF Shifts(a) /\ TimeToShift(a) THEN ShiftedData(a) ELSE mem[a]]
  /\ k' = k + 1
  /\ pc' = "idle"
  /\ step' = 0
  /\ UNCHANGED <<code, seen>>

KernelNext ==
  \/ Construct
  \/ CallPrelude
  \/ ExecuteInstance
  \/ ReturnFromPrelude
  \/ CallPeriod
  \/ AdvanceBuffers

KernelSpec == KernelInit /\ [][KernelNext]_kernelVars
-----------------------------------------------------------------------------
(* The types: phases are not negative and each buffer keeps its cells.     *)
KernelTypeOK ==
  /\ pc \in {"none", "created", "prelude", "idle", "period"}
  /\ step \in Nat
  /\ k \in 0..MaxPeriods
  /\ pc # "none" =>
       /\ ph \in [KArrays -> Nat]
       /\ DOMAIN mem = KArrays
       /\ \A a \in KArrays : DOMAIN mem[a] = Cells(a)

(* The phase of a buffer accounts for all the periods gone by: modulo the  *)
(* size of a buffer that wraps, and since the data were last shifted in    *)
(* one that does not.                                                      *)
PhaseTracksTime ==
  pc # "none" => \A a \in KArrays : code.buffers[a].has_phase =>
    IF Shifts(a)
    THEN \E n \in 0..(code.buffers[a].shift.period_count - 1) :
           ph[a] = n * code.advance[a]
    ELSE /\ ph[a] < code.buffers[a].cells
         /\ \E q \in 0..(k * code.advance[a]) :
              k * code.advance[a] = q * code.buffers[a].cells + ph[a]

(* No access of the call under way is outside its buffer.                  *)
AccessesInBounds ==
  pc \in {"prelude", "period"} /\ step < Len(Body) =>
    LET e == Body[step + 1]
        s == code.prog.stmts[e[1]]
    IN  \A x \in Reads(s) \cup Writes(s) : Cell(x.array, Index(x, e[2])) \in Cells(x.array)

(* The instance that comes next, whenever that is; none, if the program    *)
(* is over.                                                                *)
Upcoming ==
  IF pc \in {"none", "created", "prelude"} /\ step < Len(code.prelude)
  THEN {code.prelude[step + 1]}
  ELSE IF pc = "period" /\ step < Len(code.period)
  THEN {Moved(code.period[step + 1], k)}
  ELSE IF code.period = <<>> THEN {}
  ELSE {Moved(code.period[1], IF pc = "period" THEN k + 1 ELSE k)}

(* Elements of array a that instances yet to come will read                *)
Needed(a) ==
  LET p == code.prog
      toCome == {e \in Instances(p) : \E u \in Upcoming : Key(p, e) >= Key(p, u)}
  IN  UNION {{Index(x, e[2]) : x \in {y \in Reads(p.stmts[e[1]]) : y.array = a}} :
               e \in toCome}

Held(a) == {mem[a][c] : c \in Cells(a)}

(* Whatever happens, be it a write that wraps around to a cell in use or   *)
(* the end of a call that had the buffer on the stack: an element that is  *)
(* still to be read does not get lost.                                     *)
NothingNeededIsLost ==
  [][pc # "none" => \A a \in KArrays : Held(a) \cap Needed(a)' \subseteq Held(a)']_kernelVars

(* For each statement its next instance from now on, as in ArrayProgram    *)
NextOfEach ==
  LET upcoming == Upcoming
      isAhead(e) == \E u \in upcoming : Key(code.prog, e) >= Key(code.prog, u)
  IN  [n \in Statements(code.prog) |->
         LET ahead == {i \in 0..(2 * Horizon) :
                         InDomain(i, code.prog.stmts[n]) /\ isAhead(<<n, i>>)}
         IN  IF ahead = {} THEN End ELSE Min(ahead)]
=============================================================================
