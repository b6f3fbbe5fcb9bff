---------------------------- MODULE KernelProofs ----------------------------
(***************************************************************************)
(* Proofs about the generated class, for every program, every layout of    *)
(* its buffers that is well-formed, and any number of periods: first of    *)
(* the class alone, whatever its code, then of one whose code keeps the    *)
(* contract, and at the end of the class behind the compiler.              *)
(***************************************************************************)
EXTENDS CompileAndRun, CompilerProofs

(* Division with remainder, as the phase of a wrapping buffer needs it     *)
LEMMA DivMod ==
  ASSUME NEW x \in Nat, NEW n \in Nat \ {0}
  PROVE  /\ x % n \in 0..(n - 1)
         /\ x \div n \in Nat
         /\ x = (x \div n) * n + (x % n)
<1> QED BY SMT

LEMMA DividedBy ==
  ASSUME NEW x \in Nat, NEW n \in Nat \ {0}, x % n = 0
  PROVE  \E d \in Nat : x = d * n
<1>1. x = (x \div n) * n + (x % n) /\ x \div n \in Nat
  BY DivMod
<1>2. PICK d \in Nat : d = x \div n
  BY <1>1
<1>3. d * n \in Nat
  BY ONLY d \in Nat, n \in Nat \ {0}
<1>4. PICK y \in Nat : y = d * n
  BY <1>3, Zenon
<1>5. x = y + 0
  BY <1>1, <1>2, <1>4, Zenon
<1>6. x = y
  BY ONLY y \in Nat, <1>5
<1> QED BY <1>4, <1>6, Zenon

(* A quotient is no larger than what it divides.                           *)
LEMMA QuotientBound ==
  ASSUME NEW x \in Nat, NEW n \in Nat \ {0}, NEW q \in Nat, NEW r \in Nat,
         x = q * n + r
  PROVE  q \in 0..x
<1> QED BY SMT

-----------------------------------------------------------------------------
(* What is inductive: with the types, that the code is well-formed, that   *)
(* no period precedes construction and that one under way is not one too   *)
(* many.                                                                   *)
TInv ==
  /\ KernelTypeOK
  /\ WellFormed(code)
  /\ pc = "none" => k = 0
  /\ pc = "period" => k < MaxPeriods

LEMMA TypeInit == KernelInit => TInv
BY KernelAssumption DEF KernelInit, KernelTypeOK, TInv

(* The phase that a buffer moves on to is a natural number.                *)
LEMMA AdvancedPhaseType ==
  ASSUME TInv, pc # "none", NEW a \in KArrays
  PROVE  AdvancedPhase(a) \in Nat
<1> DEFINE b == code.buffers[a]
<1>1. b \in Buffer /\ code.advance[a] \in Nat /\ ph[a] \in Nat
  BY DEF TInv, KernelTypeOK, WellFormed, KArrays
<1>2. b.cells \in Nat \ {0}
  BY <1>1 DEF Buffer
<1>3. ph[a] + code.advance[a] \in Nat
  BY <1>1
<1>4. (ph[a] + code.advance[a]) % b.cells \in Nat
  BY <1>2, <1>3, DivMod
<1> QED BY <1>1, <1>3, <1>4 DEF AdvancedPhase

LEMMA TypeStep == TInv /\ [KernelNext]_kernelVars => TInv'
<1> SUFFICES ASSUME TInv, [KernelNext]_kernelVars PROVE TInv'
  OBVIOUS
<1> USE KernelAssumption DEF TInv
<1>0. code' = code /\ WellFormed(code)'
  BY DEF KernelNext, Construct, CallPrelude, ExecuteInstance, ReturnFromPrelude,
         CallPeriod, AdvanceBuffers, kernelVars, WellFormed
<1>1. CASE Construct
  BY <1>0, <1>1 DEF Construct, KernelTypeOK, KArrays, Cells, Blank
<1>2. CASE CallPrelude
  <2>1. DOMAIN mem' = KArrays /\ \A a \in KArrays : DOMAIN mem'[a] = Cells(a)
    BY <1>2 DEF CallPrelude, Entered, Blank, KernelTypeOK
  <2> QED BY <1>0, <1>2, <2>1 DEF CallPrelude, KernelTypeOK, KArrays, Cells
<1>3. CASE ExecuteInstance
  <2>1. mem' = Stored(Body[step + 1])
    BY <1>3 DEF ExecuteInstance
  <2>2. DOMAIN mem' = KArrays /\ \A a \in KArrays : DOMAIN mem'[a] = Cells(a)
    BY <2>1 DEF Stored
  <2> QED BY <1>0, <1>3, <2>2 DEF ExecuteInstance, KernelTypeOK, KArrays, Cells
<1>4. CASE ReturnFromPrelude
  BY <1>0, <1>4 DEF ReturnFromPrelude, KernelTypeOK, KArrays, Cells
<1>5. CASE CallPeriod
  <2>1. DOMAIN mem' = KArrays /\ \A a \in KArrays : DOMAIN mem'[a] = Cells(a)
    BY <1>5 DEF CallPeriod, Entered, Blank, KernelTypeOK
  <2> QED BY <1>0, <1>5, <2>1 DEF CallPeriod, KernelTypeOK, KArrays, Cells
<1>6. CASE AdvanceBuffers
  <2>1. pc # "none" /\ pc' = "idle" /\ step' = 0 /\ k' \in 0..MaxPeriods
    BY <1>6 DEF AdvanceBuffers, KernelTypeOK
  <2>2. ph' \in [KArrays -> Nat]
    BY <1>6, <2>1, AdvancedPhaseType DEF AdvanceBuffers
  <2>3. DOMAIN mem' = KArrays /\ \A a \in KArrays : DOMAIN mem'[a] = Cells(a)
    BY <1>6, <2>1 DEF AdvanceBuffers, ShiftedData, KernelTypeOK
  <2> QED BY <1>0, <2>1, <2>2, <2>3 DEF KernelTypeOK, KArrays, Cells
<1>7. CASE UNCHANGED kernelVars
  BY <1>0, <1>7 DEF kernelVars, KernelTypeOK, KArrays, Cells
<1> QED BY <1>1, <1>2, <1>3, <1>4, <1>5, <1>6, <1>7 DEF KernelNext

(* Every buffer has, at any time, exactly its cells, and phases never      *)
(* become negative.                                                        *)
THEOREM TypeCorrect == KernelSpec => []KernelTypeOK
<1>1. TInv => KernelTypeOK
  BY DEF TInv
<1> QED BY <1>1, TypeInit, TypeStep, PTL DEF KernelSpec

-----------------------------------------------------------------------------
(* The phase of one buffer, and why advance_buffers keeps it right         *)
ShiftPhaseOK(a) ==
  \E n \in 0..(code.buffers[a].shift.period_count - 1) : ph[a] = n * code.advance[a]
WrapPhaseOK(a) ==
  /\ ph[a] < code.buffers[a].cells
  /\ \E q \in 0..(k * code.advance[a]) :
       k * code.advance[a] = q * code.buffers[a].cells + ph[a]

LEMMA PhaseParts ==
  PhaseTracksTime <=>
    (pc # "none" => \A a \in KArrays : code.buffers[a].has_phase =>
                      IF Shifts(a) THEN ShiftPhaseOK(a) ELSE WrapPhaseOK(a))
BY DEF PhaseTracksTime, ShiftPhaseOK, WrapPhaseOK

(* A buffer that is shifted: the phase grows by a period's advance until   *)
(* as many periods have gone by as the buffer has room for.                *)
LEMMA ShiftPhaseStep ==
  ASSUME NEW n \in Nat, NEW count \in Nat \ {0}, NEW advance \in Nat,
         n \in 0..(count - 1)
  PROVE  \/ n * advance + advance >= count * advance
         \/ /\ n + 1 \in 0..(count - 1)
            /\ n * advance + advance = (n + 1) * advance
<1>1. CASE n + 1 \in 0..(count - 1)
  BY <1>1, SMT
<1>2. CASE n + 1 = count
  BY <1>2, SMT
<1> QED BY <1>1, <1>2

(* A buffer that wraps: what is gone by is a multiple of its size and the  *)
(* phase, and that is so again after one more period.                      *)
LEMMA AddQuotients ==
  ASSUME NEW q \in Nat, NEW d \in Nat, NEW cells \in Nat, NEW m \in Nat
  PROVE  q * cells + (d * cells + m) = (q + d) * cells + m
<1> QED BY SMT

WrapsTo(total, cells, phase) ==
  /\ phase < cells
  /\ \E r \in 0..total : total = r * cells + phase

LEMMA WrapPhaseStep ==
  ASSUME NEW cells \in Nat \ {0}, NEW phase \in Nat, NEW advance \in Nat,
         NEW q \in Nat
  PROVE  WrapsTo((q * cells + phase) + advance, cells, (phase + advance) % cells)
<1> DEFINE x == phase + advance
           sum == (q * cells + phase) + advance
<1>1. PICK d \in Nat, m \in 0..(cells - 1) :
        d = x \div cells /\ m = x % cells /\ x = d * cells + m
  BY DivMod
<1>2. q * cells \in Nat /\ d * cells \in Nat
  BY <1>1
<1>3. sum = q * cells + (d * cells + m)
  BY <1>1, <1>2
<1>4. m \in Nat /\ q + d \in Nat /\ sum \in Nat
  BY <1>1, <1>2
<1>5. sum = (q + d) * cells + m
  BY <1>1, <1>3, <1>4, AddQuotients
<1>6. q + d \in 0..sum
  <2> HIDE DEF sum
  <2> QED BY <1>4, <1>5, QuotientBound
<1>7. x % cells < cells /\ sum = (q + d) * cells + (x % cells)
  BY <1>1, <1>5
<1> HIDE DEF x, sum
<1>8. \E r \in 0..sum : sum = r * cells + (x % cells)
  BY ONLY <1>6, <1>7
<1> QED BY ONLY <1>7, <1>8 DEF x, sum, WrapsTo

LEMMA NextMultiple ==
  ASSUME NEW n \in Nat, NEW advance \in Nat
  PROVE  (n + 1) * advance = n * advance + advance
<1> QED BY SMT

LEMMA AdvancedPhaseRight ==
  ASSUME TInv, PhaseTracksTime, AdvanceBuffers, NEW a \in KArrays,
         code.buffers[a].has_phase
  PROVE  IF Shifts(a) THEN ShiftPhaseOK(a)' ELSE WrapPhaseOK(a)'
<1> DEFINE b == code.buffers[a]
<1>1. b \in Buffer /\ code.advance[a] \in Nat /\ ph[a] \in Nat
  BY DEF TInv, KernelTypeOK, WellFormed, KArrays, AdvanceBuffers
<1>2. b.cells \in Nat \ {0} /\ b.shift.period_count \in Nat \ {0}
  BY <1>1 DEF Buffer
<1>3. code' = code /\ ph'[a] = AdvancedPhase(a) /\ k' = k + 1 /\ k \in Nat
  BY DEF AdvanceBuffers, TInv, KernelTypeOK
<1>4. IF Shifts(a) THEN ShiftPhaseOK(a) ELSE WrapPhaseOK(a)
  BY PhaseParts DEF AdvanceBuffers
<1>5. CASE Shifts(a)
  <2>1. PICK n \in 0..(b.shift.period_count - 1) : ph[a] = n * code.advance[a]
    BY <1>4, <1>5 DEF ShiftPhaseOK
  <2>2. CASE TimeToShift(a)
    <3>1. ph'[a] = 0
      BY <1>3, <1>5, <2>2 DEF AdvancedPhase, Shifts
    <3>2. 0 \in 0..(b.shift.period_count - 1) /\ 0 * code.advance[a] = 0
      BY <1>1, <1>2
    <3> QED BY <1>3, <1>5, <3>1, <3>2 DEF ShiftPhaseOK
  <2>3. CASE ~TimeToShift(a)
    <3>1. ph'[a] = n * code.advance[a] + code.advance[a]
      BY <1>3, <1>5, <2>1, <2>3 DEF AdvancedPhase, Shifts
    <3>2. /\ n + 1 \in 0..(b.shift.period_count - 1)
          /\ n * code.advance[a] + code.advance[a] = (n + 1) * code.advance[a]
      BY <1>1, <1>2, <2>1, <2>3, ShiftPhaseStep DEF TimeToShift, MaxPhase
    <3> QED BY <1>3, <1>5, <3>1, <3>2 DEF ShiftPhaseOK
  <2> QED BY <2>2, <2>3
<1>6. CASE ~Shifts(a)
  <2> DEFINE gone == k * code.advance[a]
             x == ph[a] + code.advance[a]
  <2>1. PICK q \in 0..gone : gone = q * b.cells + ph[a]
    BY <1>4, <1>6 DEF WrapPhaseOK
  <2>2. gone \in Nat /\ q \in Nat /\ x \in Nat
    BY <1>1, <1>3
  <2>3. ph'[a] = x % b.cells
    BY <1>3, <1>6 DEF AdvancedPhase, Shifts
  <2>4. WrapsTo(gone + code.advance[a], b.cells, x % b.cells)
    <3> DEFINE cells == b.cells
               advance == code.advance[a]
               phase == ph[a]
    <3>1. cells \in Nat \ {0} /\ advance \in Nat /\ phase \in Nat
      BY <1>1, <1>2
    <3>2. gone = q * cells + phase /\ x = phase + advance
      BY <2>1
    <3> HIDE DEF gone, x, cells, advance, phase
    <3>3. WrapsTo((q * cells + phase) + advance, cells, (phase + advance) % cells)
      BY ONLY <2>2, <3>1, WrapPhaseStep
    <3> QED BY ONLY <3>2, <3>3 DEF cells, advance
  <2>5. k' * code.advance[a] = gone + code.advance[a]
    BY <1>1, <1>3, NextMultiple
  <2> QED BY <1>3, <1>6, <2>3, <2>4, <2>5 DEF WrapPhaseOK, WrapsTo
<1> QED BY <1>5, <1>6

LEMMA PhaseStep == TInv /\ PhaseTracksTime /\ [KernelNext]_kernelVars => PhaseTracksTime'
<1> SUFFICES ASSUME TInv, PhaseTracksTime, [KernelNext]_kernelVars PROVE PhaseTracksTime'
  OBVIOUS
<1>0. code' = code
  BY DEF KernelNext, Construct, CallPrelude, ExecuteInstance, ReturnFromPrelude,
         CallPeriod, AdvanceBuffers, kernelVars
<1>1. CASE Construct
  <2> SUFFICES ASSUME NEW a \in KArrays, code.buffers[a].has_phase
               PROVE  IF Shifts(a) THEN ShiftPhaseOK(a)' ELSE WrapPhaseOK(a)'
    BY <1>0 DEF PhaseTracksTime, ShiftPhaseOK, WrapPhaseOK, Shifts, KArrays
  <2> DEFINE b == code.buffers[a]
  <2>1. ph'[a] = 0 /\ k' = 0
    BY <1>1 DEF Construct, TInv
  <2>2. b \in Buffer /\ code.advance[a] \in Nat
    BY DEF TInv, WellFormed, KArrays
  <2>3. b.cells \in Nat \ {0} /\ b.shift.period_count \in Nat \ {0}
    BY <2>2 DEF Buffer
  <2>4. ShiftPhaseOK(a)'
    <3>1. 0 \in 0..(b.shift.period_count - 1) /\ 0 = 0 * code.advance[a]
      BY <2>2, <2>3
    <3> QED BY <1>0, <2>1, <3>1 DEF ShiftPhaseOK
  <2>5. WrapPhaseOK(a)'
    <3>1. /\ 0 < b.cells
          /\ 0 \in 0..(0 * code.advance[a])
          /\ 0 * code.advance[a] = 0 * b.cells + 0
      BY <2>2, <2>3
    <3> QED BY <1>0, <2>1, <3>1 DEF WrapPhaseOK
  <2> QED BY <2>4, <2>5
<1>2. CASE CallPrelude \/ ExecuteInstance \/ ReturnFromPrelude \/ CallPeriod
           \/ UNCHANGED kernelVars
  <2>1. k' = k /\ ph' = ph /\ (pc' # "none" => pc # "none")
    BY <1>2 DEF CallPrelude, ExecuteInstance, ReturnFromPrelude, CallPeriod, kernelVars
  <2> QED BY <1>0, <2>1 DEF PhaseTracksTime, Shifts, KArrays
<1>3. CASE AdvanceBuffers
  <2>1. pc # "none"
    BY <1>3 DEF AdvanceBuffers
  <2>2. \A a \in KArrays : code.buffers[a].has_phase =>
          IF Shifts(a) THEN ShiftPhaseOK(a)' ELSE WrapPhaseOK(a)'
    BY <1>3, AdvancedPhaseRight
  <2> QED BY <1>0, <2>1, <2>2
          DEF PhaseTracksTime, ShiftPhaseOK, WrapPhaseOK, Shifts, KArrays
<1> QED BY <1>1, <1>2, <1>3 DEF KernelNext

(* The phase of a buffer accounts for every period gone by, however many   *)
(* there are: it is never off by what advance_buffers drops when it wraps  *)
(* or shifts.                                                              *)
THEOREM PhaseIsRight == KernelSpec => []PhaseTracksTime
<1>1. KernelInit => PhaseTracksTime
  BY DEF KernelInit, PhaseTracksTime
<1> QED BY <1>1, TypeInit, TypeStep, PhaseStep, PTL DEF KernelSpec

-----------------------------------------------------------------------------
(* Any phase that a buffer has without wrapping is one of those before the *)
(* data are shifted.                                                       *)
LEMMA PhaseBound ==
  ASSUME TInv, PhaseTracksTime, pc # "none", NEW a \in KArrays,
         code.buffers[a].has_phase, ~code.buffers[a].wraps
  PROVE  ph[a] \in Nat /\ ph[a] <= LastPhase(code)[a]
<1> DEFINE b == code.buffers[a]
           count == b.shift.period_count
           advance == code.advance[a]
<1>1. b \in Buffer /\ advance \in Nat /\ ph[a] \in Nat /\ Shifts(a)
  <2>1. b \in Buffer /\ advance \in Nat /\ ph[a] \in Nat /\ b.shift.size # 0
    BY DEF TInv, KernelTypeOK, WellFormed, KArrays
  <2> QED BY <2>1 DEF Shifts, Buffer
<1>2. count \in Nat \ {0}
  BY <1>1 DEF Buffer
<1>3. PICK n \in 0..(count - 1) : ph[a] = n * advance
  BY <1>1 DEF PhaseTracksTime
<1>4. LastPhase(code)[a] = (count - 1) * advance
  BY DEF LastPhase, KArrays
<1> HIDE DEF count, advance
<1>5. n * advance <= (count - 1) * advance
  BY <1>1, <1>2, <1>3, SMT
<1> QED BY <1>1, <1>3, <1>4, <1>5

(* An access with room in every phase is inside its buffer in this one.    *)
LEMMA CellInBounds ==
  ASSUME TInv, PhaseTracksTime, NEW x, NEW i,
         \/ pc = "prelude" /\ HasRoom(code, x, i, Unmoved(code))
         \/ pc = "period" /\ HasRoom(code, x, i, LastPhase(code))
  PROVE  Cell(x.array, i) \in Cells(x.array)
<1> DEFINE a == x.array
           b == code.buffers[a]
           moves == pc = "period" /\ b.has_phase
           j == IF moves THEN i + ph[a] ELSE i
<1>1. a \in KArrays /\ i \in Nat /\ pc # "none"
  BY DEF HasRoom, KArrays
<1>2. b \in Buffer /\ ph[a] \in Nat
  BY <1>1 DEF TInv, KernelTypeOK, WellFormed, KArrays
<1>3. b.cells \in Nat \ {0}
  BY <1>2 DEF Buffer
<1>4. Cell(a, i) = IF b.cells = 1 THEN 0 ELSE IF b.wraps THEN j % b.cells ELSE j
  BY DEF Cell
<1>5. j \in Nat
  BY <1>1, <1>2
<1>6. CASE b.cells = 1
  BY <1>4, <1>6 DEF Cells
<1>7. CASE b.cells # 1 /\ b.wraps
  <2> HIDE DEF j
  <2>1. j % b.cells \in 0..(b.cells - 1)
    BY <1>3, <1>5, DivMod
  <2> QED BY <1>4, <1>7, <2>1 DEF Cells
<1>8. CASE b.cells # 1 /\ ~b.wraps
  <2>1. j < b.cells
    <3>1. CASE moves
      <4>1. ph[a] <= LastPhase(code)[a]
        BY <1>1, <1>8, <3>1, PhaseBound
      <4>2. i + LastPhase(code)[a] < b.cells
        BY <1>8, <3>1 DEF HasRoom
      <4>3. LastPhase(code)[a] \in Int
        <5>1. code.advance[a] \in Nat /\ b.shift.period_count \in Nat
          BY <1>1, <1>2 DEF TInv, WellFormed, KArrays, Buffer
        <5> QED BY <1>1, <5>1 DEF LastPhase, KArrays
      <4> QED BY <1>1, <1>2, <1>3, <3>1, <4>1, <4>2, <4>3
    <3>2. CASE ~moves
      <4>1. i + 0 < b.cells
        BY <1>1, <1>8, <3>2 DEF HasRoom, Unmoved, LastPhase, KArrays
      <4> QED BY <1>1, <3>2, <4>1
    <3> QED BY <3>1, <3>2
  <2> HIDE DEF j
  <2> QED BY <1>3, <1>4, <1>5, <1>8, <2>1 DEF Cells
<1> QED BY <1>6, <1>7, <1>8

LEMMA AccessesAreInBounds == TInv /\ PhaseTracksTime /\ Fits(code) => AccessesInBounds
<1> SUFFICES ASSUME TInv, PhaseTracksTime, Fits(code),
                    pc \in {"prelude", "period"}, step < Len(Body),
                    NEW x \in Reads(code.prog.stmts[Body[step + 1][1]])
                                \cup Writes(code.prog.stmts[Body[step + 1][1]])
             PROVE  Cell(x.array, Index(x, Body[step + 1][2])) \in Cells(x.array)
  BY DEF AccessesInBounds
<1>1. step \in Nat
  BY DEF TInv, KernelTypeOK
<1>2. CASE pc = "prelude"
  <2>1. Body = code.prelude /\ RoomFor(code, Body, Unmoved(code))
    BY <1>2 DEF Body, Fits
  <2>2. step + 1 \in DOMAIN Body
    <3>1. Body \in Seq(Statements(code.prog) \X Nat)
      BY <2>1 DEF RoomFor
    <3> QED BY <1>1, <3>1
  <2>3. HasRoom(code, x, Index(x, Body[step + 1][2]), Unmoved(code))
    BY <2>1, <2>2 DEF RoomFor
  <2> QED BY <1>2, <2>3, CellInBounds
<1>3. CASE pc = "period"
  <2>1. Body = code.period /\ RoomFor(code, Body, LastPhase(code))
    BY <1>3 DEF Body, Fits
  <2>2. step + 1 \in DOMAIN Body
    <3>1. Body \in Seq(Statements(code.prog) \X Nat)
      BY <2>1 DEF RoomFor
    <3> QED BY <1>1, <3>1
  <2>3. HasRoom(code, x, Index(x, Body[step + 1][2]), LastPhase(code))
    BY <2>1, <2>2 DEF RoomFor
  <2> QED BY <1>3, <2>3, CellInBounds
<1> QED BY <1>2, <1>3

LEMMA CodeStays == Fits(code) /\ [KernelNext]_kernelVars => Fits(code)'
<1> SUFFICES ASSUME [KernelNext]_kernelVars PROVE code' = code
  BY DEF Fits, RoomFor, HasRoom, Unmoved, LastPhase
<1> QED BY DEF KernelNext, Construct, CallPrelude, ExecuteInstance, ReturnFromPrelude,
               CallPeriod, AdvanceBuffers, kernelVars

(* However many periods there are, no read or write of the class is        *)
(* outside its buffer, if the buffers had room for the accesses of the     *)
(* prelude and, in the last phase before a shift, of the first period:     *)
(* what CodeIsWellFormed says of the compiler's code.                      *)
THEOREM EveryAccessInBounds == KernelSpec /\ Fits(code) => []AccessesInBounds
<1>1. KernelInit => PhaseTracksTime
  BY DEF KernelInit, PhaseTracksTime
<1> QED BY <1>1, TypeInit, TypeStep, PhaseStep, CodeStays, AccessesAreInBounds, PTL
        DEF KernelSpec

-----------------------------------------------------------------------------
(* Remainders: the same for what differs by a multiple, and different for  *)
(* what differs by less than one                                           *)
LEMMA LessThanOnce ==
  ASSUME NEW a \in Int, NEW b \in Int, NEW n \in Nat \ {0},
         a * n - b * n < n
  PROVE  a <= b
<1> SUFFICES ASSUME a >= b + 1 PROVE FALSE
  OBVIOUS
<1>1. a * n >= (b + 1) * n
  BY SMT
<1>2. (b + 1) * n = b * n + n
  BY SMT
<1>3. a * n \in Int /\ b * n \in Int
  OBVIOUS
<1> QED BY <1>1, <1>2, <1>3

LEMMA RemainderUnique ==
  ASSUME NEW x \in Nat, NEW n \in Nat \ {0}, NEW q \in Nat, NEW r \in 0..(n - 1),
         x = q * n + r
  PROVE  x % n = r
<1>1. PICK d \in Nat, m \in 0..(n - 1) : m = x % n /\ x = d * n + m
  BY DivMod
<1>2. q * n \in Int /\ d * n \in Int
  BY <1>1
<1>3. q * n - d * n < n /\ d * n - q * n < n
  BY <1>1, <1>2
<1>4. q = d
  BY <1>1, <1>3, LessThanOnce
<1> QED BY <1>1, <1>2, <1>4

LEMMA SameRemainder ==
  ASSUME NEW x \in Nat, NEW n \in Nat \ {0}, NEW q \in Nat
  PROVE  (q * n + x) % n = x % n
<1>1. PICK d \in Nat, m \in 0..(n - 1) : m = x % n /\ x = d * n + m
  BY DivMod
<1>2. PICK y \in Nat : y = q * n + x
  OBVIOUS
<1>3. PICK s \in Nat : s = q + d /\ y = s * n + m
  <2>1. y = (q + d) * n + m
    BY <1>1, <1>2, AddQuotients
  <2> QED BY <2>1
<1>4. y % n = m
  BY <1>1, <1>3, RemainderUnique
<1> QED BY <1>1, <1>2, <1>4

LEMMA CloseAndCongruent ==
  ASSUME NEW x \in Nat, NEW y \in Nat, NEW n \in Nat \ {0},
         x % n = y % n, x - y < n, y - x < n
  PROVE  x = y
<1>1. PICK d \in Nat, m \in 0..(n - 1) : m = x % n /\ x = d * n + m
  BY DivMod
<1>2. PICK e \in Nat, l \in 0..(n - 1) : l = y % n /\ y = e * n + l
  BY DivMod
<1>3. m = l /\ d * n \in Int /\ e * n \in Int
  BY <1>1, <1>2
<1>4. d * n - e * n < n /\ e * n - d * n < n
  BY <1>1, <1>2, <1>3
<1>5. d = e
  BY <1>1, <1>2, <1>4, LessThanOnce
<1> QED BY <1>1, <1>2, <1>3, <1>5

-----------------------------------------------------------------------------
(* What is known at any time, if the code and its buffers keep the         *)
(* contract: with all of the above, that everything starts from zero.      *)
Early ==
  /\ pc \in {"none", "created", "idle"} => step = 0
  /\ pc \in {"none", "created", "prelude"} => k = 0
  /\ pc \in {"created", "prelude"} => \A a \in KArrays : ph[a] = 0

Consistent == TInv /\ PhaseTracksTime /\ Early /\ Fits(code) /\ Keeps(code)

LEMMA EarlyStep == TInv /\ Early /\ [KernelNext]_kernelVars => Early'
<1> SUFFICES ASSUME TInv, Early, [KernelNext]_kernelVars PROVE Early'
  OBVIOUS
<1>1. code' = code
  BY DEF KernelNext, Construct, CallPrelude, ExecuteInstance, ReturnFromPrelude,
         CallPeriod, AdvanceBuffers, kernelVars
<1>2. KArrays' = KArrays
  BY <1>1 DEF KArrays
<1>3. CASE Construct
  BY <1>2, <1>3 DEF Construct, Early
<1>4. CASE CallPrelude
  BY <1>2, <1>4 DEF CallPrelude, Early
<1>5. CASE ExecuteInstance
  BY <1>2, <1>5 DEF ExecuteInstance, Early
<1>6. CASE ReturnFromPrelude
  BY <1>2, <1>6 DEF ReturnFromPrelude, Early
<1>7. CASE CallPeriod
  BY <1>2, <1>7 DEF CallPeriod, Early
<1>8. CASE AdvanceBuffers
  BY <1>2, <1>8 DEF AdvanceBuffers, Early
<1>9. CASE UNCHANGED kernelVars
  BY <1>2, <1>9 DEF kernelVars, Early
<1> QED BY <1>3, <1>4, <1>5, <1>6, <1>7, <1>8, <1>9 DEF KernelNext

LEMMA SameCode == [KernelNext]_kernelVars => code' = code
BY DEF KernelNext, Construct, CallPrelude, ExecuteInstance, ReturnFromPrelude,
       CallPeriod, AdvanceBuffers, kernelVars

LEMMA ConsistentStep == Consistent /\ [KernelNext]_kernelVars => Consistent'
<1> SUFFICES ASSUME Consistent, [KernelNext]_kernelVars PROVE Consistent'
  OBVIOUS
<1>1. code' = code
  BY SameCode
<1>2. Keeps(code)' /\ Fits(code)'
  BY <1>1 DEF Consistent
<1>3. TInv' /\ PhaseTracksTime' /\ Early'
  BY TypeStep, PhaseStep, EarlyStep DEF Consistent
<1> QED BY <1>2, <1>3 DEF Consistent

-----------------------------------------------------------------------------
(* Instances of the code are instances of statements, with integer keys.   *)
LEMMA KeyType ==
  ASSUME NEW p, IsProgram(p), NEW n \in Statements(p), NEW i \in Int
  PROVE  Key(p, <<n, i>>) \in Int
<1> DEFINE s == p.stmts[n]
<1>1. n \in Int /\ Len(p.stmts) \in Int
  BY DEF IsProgram, Statements
<1>2. s.band \in Int /\ s.rate \in Int /\ s.start \in Int
  BY DEF IsProgram, IsStatement, Statements
<1>3. Time(s, i) \in Int
  BY <1>2 DEF Time
<1>4. 2 * Horizon * s.band + Time(s, i) \in Int
  BY <1>2, <1>3, HorizonAssumption
<1> QED BY <1>1, <1>4 DEF Key

LEMMA InstanceOfCode ==
  ASSUME Consistent, NEW m \in Calls, NEW n \in DOMAIN CodeOf(code, m)
  PROVE  LET e == CodeOf(code, m)[n]
         IN  /\ e[1] \in Statements(code.prog) /\ e[2] \in Nat
             /\ InCall(code, e, m)[1] = e[1]
             /\ InCall(code, e, m)[2] \in Int
             /\ KeyAt(code, m, n) \in Int
<1> DEFINE e == CodeOf(code, m)[n]
           i == InCall(code, e, m)
<1>1. CodeOf(code, m) \in Seq(Statements(code.prog) \X Nat)
  BY DEF CodeOf, Consistent, Fits, RoomFor
<1>2. e \in Statements(code.prog) \X Nat
  BY <1>1
<1>3. CASE m = 0
  <2>1. i = <<e[1], e[2]>>
    BY <1>2, <1>3 DEF InCall
  <2>2. Key(code.prog, i) \in Int
    BY <1>2, <2>1, KeyType DEF Consistent, Keeps
  <2> QED BY <1>2, <2>1, <2>2 DEF KeyAt
<1>4. CASE m # 0
  <2> DEFINE rate == code.prog.stmts[e[1]].rate
  <2>1. rate \in Nat
    BY <1>2 DEF Consistent, Keeps, IsProgram, IsStatement, Statements
  <2>2. CodeOf(code, m) = code.period
    BY <1>4 DEF CodeOf
  <2>3. rate # 0
    BY <2>2 DEF Consistent, Keeps, Steady
  <2>4. code.period_size \in Nat
    BY DEF Consistent, TInv, WellFormed
  <2>5. code.period_size \div rate \in Int
    <3> HIDE DEF rate
    <3> QED BY <2>1, <2>3, <2>4, DivMod
  <2>6. m - 1 \in Int
    BY DEF Calls
  <2>7. i = <<e[1], e[2] + (m - 1) * (code.period_size \div rate)>>
    BY <1>4 DEF InCall
  <2>8. e[2] + (m - 1) * (code.period_size \div rate) \in Int
    <3> HIDE DEF rate
    <3> QED BY <1>2, <2>5, <2>6
  <2>9. Key(code.prog, i) \in Int
    <3> DEFINE j == e[2] + (m - 1) * (code.period_size \div rate)
    <3>1. e[1] \in Statements(code.prog) /\ IsProgram(code.prog)
      BY <1>2 DEF Consistent, Keeps
    <3>2. i = <<e[1], j>> /\ j \in Int
      BY <2>7, <2>8, Zenon
    <3> HIDE DEF rate, e, i, j
    <3>3. Key(code.prog, <<e[1], j>>) \in Int
      BY <3>1, <3>2, KeyType
    <3> QED BY <3>2, <3>3, Zenon
  <2>10. e[1] \in Statements(code.prog) /\ e[2] \in Nat /\ i[1] = e[1] /\ i[2] \in Int
    <3>1. PICK j \in Int : i = <<e[1], j>>
      BY <2>7, <2>8, Zenon
    <3> HIDE DEF rate, i
    <3> QED BY <1>2, <3>1
  <2> HIDE DEF i, rate
  <2> QED BY <2>9, <2>10 DEF KeyAt, i
<1> QED BY <1>3, <1>4

(* What is upcoming is an instance of the code, in some call.              *)
LEMMA UpcomingIs ==
  ASSUME Consistent, NEW u \in Upcoming
  PROVE  \E m \in Calls : \E n \in DOMAIN CodeOf(code, m) :
           u = InCall(code, CodeOf(code, m)[n], m)
<1>1. step \in Nat /\ k \in 0..MaxPeriods /\ MaxPeriods \in Nat
  BY KernelAssumption DEF Consistent, TInv, KernelTypeOK
<1>2. code.prelude \in Seq(Statements(code.prog) \X Nat)
      /\ code.period \in Seq(Statements(code.prog) \X Nat)
  BY DEF Consistent, Fits, RoomFor
<1>3. CASE pc \in {"none", "created", "prelude"} /\ step < Len(code.prelude)
  <2>1. u = code.prelude[step + 1] /\ step + 1 \in DOMAIN code.prelude
    BY <1>1, <1>2, <1>3 DEF Upcoming
  <2>2. 0 \in Calls /\ CodeOf(code, 0) = code.prelude
    BY <1>1 DEF Calls, CodeOf
  <2>3. u = InCall(code, CodeOf(code, 0)[step + 1], 0)
    BY <2>1, <2>2 DEF InCall
  <2> QED BY <2>1, <2>2, <2>3
<1>4. CASE pc = "period" /\ step < Len(code.period)
  <2>1. u = Moved(code.period[step + 1], k) /\ step + 1 \in DOMAIN code.period
    BY <1>1, <1>2, <1>4 DEF Upcoming
  <2>2. PICK m \in Calls : m = k + 1 /\ m # 0 /\ m - 1 = k
    BY <1>1 DEF Calls
  <2>3. CodeOf(code, m) = code.period
    BY <2>2 DEF CodeOf
  <2>4. u = InCall(code, CodeOf(code, m)[step + 1], m)
    BY <2>1, <2>2, <2>3 DEF InCall, Moved
  <2> QED BY <2>1, <2>3, <2>4
<1>5. CASE ~(pc \in {"none", "created", "prelude"} /\ step < Len(code.prelude))
           /\ ~(pc = "period" /\ step < Len(code.period))
  <2>1. PICK j \in Nat : j = IF pc = "period" THEN k + 1 ELSE k
    BY <1>1
  <2>2. code.period # <<>> /\ u = Moved(code.period[1], j)
    BY <1>5, <2>1 DEF Upcoming
  <2>3. 1 \in DOMAIN code.period
    BY <1>2, <2>2
  <2>4. j <= MaxPeriods
    BY <1>1, <2>1 DEF Consistent, TInv
  <2>5. PICK m \in Calls : m = j + 1 /\ m # 0 /\ m - 1 = j
    BY <1>1, <2>4 DEF Calls
  <2>6. CodeOf(code, m) = code.period
    BY <2>5 DEF CodeOf
  <2>7. u = InCall(code, CodeOf(code, m)[1], m)
    BY <2>2, <2>5, <2>6 DEF InCall, Moved
  <2> QED BY <2>3, <2>6, <2>7
<1> QED BY <1>3, <1>4, <1>5

LEMMA UpcomingKey ==
  ASSUME Consistent, NEW u \in Upcoming
  PROVE  Key(code.prog, u) \in Int
<1>1. PICK m \in Calls : \E n \in DOMAIN CodeOf(code, m) :
        u = InCall(code, CodeOf(code, m)[n], m)
  BY UpcomingIs
<1> QED BY <1>1, InstanceOfCode DEF KeyAt

-----------------------------------------------------------------------------
(* The instance under way, and the call that it is in                      *)
This == Body[step + 1]
Call == IF pc = "prelude" THEN 0 ELSE k + 1

LEMMA Executing ==
  ASSUME Consistent, pc \in {"prelude", "period"}, step < Len(Body)
  PROVE  /\ Call \in 0..MaxPeriods /\ Call \in Calls
         /\ step + 1 \in DOMAIN CodeOf(code, Call) /\ step + 1 \in DOMAIN Body
         /\ Body = CodeOf(code, Call) /\ This = CodeOf(code, Call)[step + 1]
         /\ Current(This) = InCall(code, This, Call)
         /\ Key(code.prog, Current(This)) = KeyAt(code, Call, step + 1)
         /\ KeyAt(code, Call, step + 1) \in Int
         /\ Upcoming = {Current(This)}
<1>1. step \in Nat /\ k \in 0..MaxPeriods /\ MaxPeriods \in Nat
  BY KernelAssumption DEF Consistent, TInv, KernelTypeOK
<1>2. code.prelude \in Seq(Statements(code.prog) \X Nat)
      /\ code.period \in Seq(Statements(code.prog) \X Nat)
  BY DEF Consistent, Fits, RoomFor
<1>3. CASE pc = "prelude"
  <2>1. Call = 0 /\ 0 \in Calls /\ Body = code.prelude /\ CodeOf(code, 0) = code.prelude
    BY <1>1, <1>3 DEF Call, Calls, Body, CodeOf
  <2>2. step + 1 \in DOMAIN Body
    BY <1>1, <1>2, <2>1
  <2>3. Current(This) = This /\ InCall(code, This, 0) = This
    BY <1>3 DEF Current, InCall
  <2>4. Upcoming = {This}
    BY <1>3, <2>1 DEF Upcoming, This
  <2>5. KeyAt(code, 0, step + 1) \in Int
    BY <2>1, <2>2, InstanceOfCode
  <2> QED BY <1>1, <2>1, <2>2, <2>3, <2>4, <2>5 DEF This, KeyAt
<1>4. CASE pc = "period"
  <2>1. Call = k + 1 /\ k + 1 # 0 /\ (k + 1) - 1 = k /\ k < MaxPeriods
    BY <1>1, <1>4 DEF Call, Consistent, TInv
  <2>2. PICK m : m = k + 1
    OBVIOUS
  <2>3. m \in 0..MaxPeriods /\ m \in Calls /\ m # 0 /\ m - 1 = k /\ Call = m
    BY <1>1, <2>1, <2>2 DEF Calls
  <2>4. Body = code.period /\ CodeOf(code, m) = code.period
    BY <1>4, <2>3 DEF Body, CodeOf
  <2>5. step + 1 \in DOMAIN Body
    BY <1>1, <1>2, <2>4
  <2>6. Current(This) = Moved(This, k) /\ InCall(code, This, m) = Moved(This, k)
    BY <1>4, <2>3 DEF Current, InCall, Moved
  <2>7. Upcoming = {Moved(This, k)}
    BY <1>4, <2>4 DEF Upcoming, This
  <2>8. KeyAt(code, m, step + 1) \in Int
    BY <2>3, <2>4, <2>5, InstanceOfCode
  <2> QED BY <2>3, <2>4, <2>5, <2>6, <2>7, <2>8 DEF This, KeyAt
<1> QED BY <1>3, <1>4

(* What comes after it has a larger key.                                   *)
LEMMA NextIsLater ==
  ASSUME Consistent, ExecuteInstance, NEW u \in Upcoming'
  PROVE  Key(code.prog, u) \in Int /\ Key(code.prog, Current(This)) < Key(code.prog, u)
<1>1. step \in Nat /\ k \in 0..MaxPeriods /\ MaxPeriods \in Nat
  BY KernelAssumption DEF Consistent, TInv, KernelTypeOK
<1>2. pc \in {"prelude", "period"} /\ step < Len(Body) /\ code' = code /\ k' = k
      /\ pc' = pc /\ step' = step + 1
  BY DEF ExecuteInstance
<1> DEFINE m == Call
           n == step + 1
<1>3. /\ m \in 0..MaxPeriods /\ m \in Calls /\ n \in DOMAIN CodeOf(code, m)
      /\ Body = CodeOf(code, m)
      /\ Key(code.prog, Current(This)) = KeyAt(code, m, n)
  BY <1>2, Executing
<1>4. Body \in Seq(Statements(code.prog) \X Nat) /\ n \in Nat /\ n <= Len(Body)
  BY <1>1, <1>2 DEF Body, Consistent, Fits, RoomFor
<1>5. m = 0 <=> pc = "prelude"
  BY <1>1, <1>2 DEF Call
<1>6. Ordered(code)
  BY DEF Consistent, Keeps
<1>7. CASE n < Len(Body)
  <2>1. n + 1 \in DOMAIN CodeOf(code, m)
    BY <1>3, <1>4, <1>7
  <2>2. KeyAt(code, m, n) < KeyAt(code, m, n + 1) /\ KeyAt(code, m, n + 1) \in Int
    BY <1>3, <1>6, <2>1, InstanceOfCode DEF Ordered
  <2>3. u = InCall(code, CodeOf(code, m)[n + 1], m)
    <3>1. CASE pc = "prelude"
      <4>1. u = code.prelude[n + 1] /\ Body = code.prelude
        BY <1>2, <1>7, <3>1 DEF Upcoming, Body
      <4> QED BY <1>3, <1>5, <3>1, <4>1 DEF InCall
    <3>2. CASE pc = "period"
      <4>1. u = Moved(code.period[n + 1], k) /\ Body = code.period
        BY <1>2, <1>7, <3>2 DEF Upcoming, Body, Moved
      <4>2. m # 0 /\ m - 1 = k
        BY <1>1, <1>5, <3>2 DEF Call
      <4> QED BY <1>3, <4>1, <4>2 DEF InCall, Moved
    <3> QED BY <1>2, <3>1, <3>2
  <2> QED BY <1>3, <2>2, <2>3 DEF KeyAt
<1>8. CASE n = Len(Body)
  <2>1. PICK j \in Nat : j = m + 1 /\ j # 0
    BY <1>3
  <2>2. j \in Calls /\ CodeOf(code, j) = code.period
    BY <1>1, <1>3, <2>1 DEF Calls, CodeOf
  <2>3. code.period # <<>> /\ u = Moved(code.period[1], j - 1)
    <3>1. CASE pc = "prelude"
      <4>0. pc' = "prelude" /\ ~(step' < Len(code.prelude)) /\ code' = code /\ k' = k
        BY <1>1, <1>2, <1>8, <3>1 DEF Body
      <4>1. code.period # <<>> /\ u = Moved(code.period[1], k)
        BY <4>0 DEF Upcoming, Moved
      <4>2. j - 1 = k
        BY <1>5, <2>1, <3>1 DEF Consistent, Early
      <4> QED BY <4>1, <4>2
    <3>2. CASE pc = "period"
      <4>0. pc' = "period" /\ ~(step' < Len(code.period)) /\ code' = code /\ k' = k
        BY <1>1, <1>2, <1>8, <3>2 DEF Body
      <4>1. code.period # <<>> /\ u = Moved(code.period[1], k + 1)
        BY <4>0 DEF Upcoming, Moved
      <4>2. j - 1 = k + 1
        BY <1>1, <2>1, <3>2 DEF Call
      <4> QED BY <4>1, <4>2
    <3> QED BY <1>2, <3>1, <3>2
  <2>4. u = InCall(code, CodeOf(code, j)[1], j)
    BY <2>1, <2>2, <2>3 DEF InCall, Moved
  <2>5. CodeOf(code, m) # <<>> /\ n = Len(CodeOf(code, m))
    BY <1>3, <1>4, <1>8
  <2>6. KeyAt(code, m, n) < StartOf(code, j)
    BY <1>3, <1>6, <2>1, <2>2, <2>3, <2>5 DEF Ordered
  <2>7. 1 \in DOMAIN CodeOf(code, j)
    <3>1. code.period \in Seq(Statements(code.prog) \X Nat)
      BY DEF Consistent, Fits, RoomFor
    <3> QED BY <2>2, <2>3, <3>1
  <2>8. KeyAt(code, j, 1) \in Int
    BY <2>2, <2>7, InstanceOfCode
  <2> QED BY <1>3, <2>4, <2>6, <2>8 DEF StartOf, KeyAt
<1> QED BY <1>1, <1>4, <1>7, <1>8

(* No other step changes what is upcoming.                                 *)
LEMMA NextStays ==
  ASSUME Consistent, [KernelNext]_kernelVars, ~ExecuteInstance
  PROVE  Upcoming' = Upcoming
<1>1. code' = code /\ step \in Nat
  BY SameCode DEF Consistent, TInv, KernelTypeOK
<1>2. code.prelude \in Seq(Statements(code.prog) \X Nat)
      /\ code.period \in Seq(Statements(code.prog) \X Nat)
  BY DEF Consistent, Fits, RoomFor
<1>3. \A e, j : Moved(e, j)' = Moved(e, j)
  BY <1>1 DEF Moved
<1>4. CASE Construct
  BY <1>1, <1>3, <1>4 DEF Construct, Upcoming
<1>5. CASE CallPrelude
  BY <1>1, <1>3, <1>5 DEF CallPrelude, Upcoming, Consistent, Early
<1>6. CASE ReturnFromPrelude
  <2>1. pc = "prelude" /\ pc' = "idle" /\ step = Len(code.prelude) /\ k' = k
    BY <1>6 DEF ReturnFromPrelude
  <2>2. Upcoming = IF code.period = <<>> THEN {} ELSE {Moved(code.period[1], k)}
    BY <1>1, <2>1 DEF Upcoming
  <2>3. Upcoming' = IF code.period = <<>> THEN {} ELSE {Moved(code.period[1], k)}
    BY <1>1, <1>3, <2>1 DEF Upcoming
  <2> QED BY <2>2, <2>3
<1>7. CASE CallPeriod
  <2>1. code.period # <<>> /\ pc = "idle" /\ pc' = "period" /\ step' = 0
        /\ 0 < Len(code.period) /\ k' = k
    BY <1>2, <1>7 DEF CallPeriod
  <2>2. Upcoming = {Moved(code.period[1], k)}
    BY <2>1 DEF Upcoming
  <2>3. Upcoming' = {Moved(code.period[1], k)}
    BY <1>1, <1>3, <2>1 DEF Upcoming
  <2> QED BY <2>2, <2>3
<1>8. CASE AdvanceBuffers
  <2>1. pc = "period" /\ pc' = "idle" /\ step = Len(code.period) /\ k' = k + 1
    BY <1>8 DEF AdvanceBuffers
  <2>2. Upcoming = IF code.period = <<>> THEN {} ELSE {Moved(code.period[1], k + 1)}
    BY <1>1, <2>1 DEF Upcoming
  <2>3. Upcoming' = IF code.period = <<>> THEN {} ELSE {Moved(code.period[1], k + 1)}
    BY <1>1, <1>3, <2>1 DEF Upcoming
  <2> QED BY <2>2, <2>3
<1>9. CASE UNCHANGED kernelVars
  BY <1>3, <1>9 DEF kernelVars, Upcoming
<1> QED BY <1>4, <1>5, <1>6, <1>7, <1>8, <1>9 DEF KernelNext

-----------------------------------------------------------------------------
(* The elements still needed, from the reads of the program                *)
NeededBy(c, upcoming, a) ==
  {r[1] : r \in {x \in ReadsOf(c, a) : \E u \in upcoming : x[2] >= Key(c.prog, u)}}

LEMMA NeededAsReads ==
  ASSUME NEW c, NEW upcoming, NEW a
  PROVE  LET p == c.prog
             toCome == {e \in Instances(p) : \E u \in upcoming : Key(p, e) >= Key(p, u)}
         IN  UNION {{Index(x, e[2]) : x \in {y \in Reads(p.stmts[e[1]]) : y.array = a}} :
                      e \in toCome} = NeededBy(c, upcoming, a)
<1> DEFINE p == c.prog
           toCome == {e \in Instances(p) : \E u \in upcoming : Key(p, e) >= Key(p, u)}
           at(e) == {y \in Reads(p.stmts[e[1]]) : y.array = a}
           these == UNION {{Index(x, e[2]) : x \in at(e)} : e \in toCome}
<1>1. ReadsOf(c, a) = UNION {{<<Index(x, e[2]), Key(p, e)>> : x \in at(e)} : e \in Instances(p)}
  BY DEF ReadsOf
<1>2. ASSUME NEW v \in these PROVE v \in NeededBy(c, upcoming, a)
  <2>1. PICK e \in toCome : \E x \in at(e) : v = Index(x, e[2])
    BY <1>2
  <2>2. PICK x \in at(e) : v = Index(x, e[2])
    BY <2>1
  <2>3. e \in Instances(p) /\ \E u \in upcoming : Key(p, e) >= Key(p, u)
    BY <2>1
  <2>4. PICK r : r = <<Index(x, e[2]), Key(p, e)>>
    OBVIOUS
  <2>5. r \in ReadsOf(c, a)
    <3> HIDE DEF at, p
    <3> QED BY <1>1, <2>2, <2>3, <2>4
  <2>6. r[1] = v /\ \E u \in upcoming : r[2] >= Key(c.prog, u)
    BY <2>2, <2>3, <2>4
  <2> QED BY <2>5, <2>6 DEF NeededBy
<1>3. ASSUME NEW v \in NeededBy(c, upcoming, a) PROVE v \in these
  <2>1. PICK r \in ReadsOf(c, a) : v = r[1] /\ \E u \in upcoming : r[2] >= Key(p, u)
    BY <1>3 DEF NeededBy
  <2>2. PICK e \in Instances(p) : \E x \in at(e) : r = <<Index(x, e[2]), Key(p, e)>>
    <3> HIDE DEF at, p
    <3> QED BY <1>1, <2>1
  <2>3. PICK x \in at(e) : r = <<Index(x, e[2]), Key(p, e)>>
    BY <2>2
  <2>4. e \in toCome /\ v = Index(x, e[2])
    BY <2>1, <2>2, <2>3
  <2>5. v \in {Index(y, e[2]) : y \in at(e)}
    BY <2>3, <2>4
  <2> HIDE DEF at, toCome
  <2> QED BY <2>4, <2>5
<1> QED BY <1>2, <1>3

LEMMA NeededIs ==
  ASSUME NEW a
  PROVE  /\ Needed(a) = NeededBy(code, Upcoming, a)
         /\ Needed(a)' = NeededBy(code', Upcoming', a)
<1>1. Needed(a) = NeededBy(code, Upcoming, a)
  BY NeededAsReads DEF Needed
<1>2. PICK c, upcoming : c = code' /\ upcoming = Upcoming'
  OBVIOUS
<1>3. Needed(a)' = NeededBy(c, upcoming, a)
  BY <1>2, NeededAsReads DEF Needed
<1> QED BY <1>1, <1>2, <1>3

LEMMA ReadIs ==
  ASSUME Consistent, NEW a \in KArrays, NEW r \in ReadsOf(code, a)
  PROVE  r[1] \in Nat /\ r[2] \in Int
<1> DEFINE p == code.prog
           at(e) == {y \in Reads(p.stmts[e[1]]) : y.array = a}
<1>1. r[1] \in Nat
  BY DEF Consistent, Keeps, KArrays
<1>2. PICK e \in Instances(p) : \E x \in at(e) : r = <<Index(x, e[2]), Key(p, e)>>
  <2>1. ReadsOf(code, a)
          = UNION {{<<Index(x, e[2]), Key(p, e)>> : x \in at(e)} : e \in Instances(p)}
    BY DEF ReadsOf
  <2> HIDE DEF at, p
  <2> QED BY <2>1
<1>3. PICK n \in Statements(p), i \in 0..(2 * Horizon) : e = <<n, i>>
  BY <1>2 DEF Instances
<1>4. i \in Int
  BY <1>3, HorizonAssumption
<1>5. Key(p, <<n, i>>) \in Int
  BY <1>3, <1>4, KeyType DEF Consistent, Keeps
<1> QED BY <1>1, <1>2, <1>3, <1>5

(* What is needed gets less.                                               *)
LEMMA NeededShrinks ==
  ASSUME Consistent, [KernelNext]_kernelVars, NEW a \in KArrays, NEW v \in Needed(a)'
  PROVE  v \in Needed(a)
<1>1. code' = code
  BY SameCode
<1>2. PICK r \in ReadsOf(code, a) :
        v = r[1] /\ \E u \in Upcoming' : r[2] >= Key(code.prog, u)
  BY <1>1, NeededIs DEF NeededBy
<1>3. PICK u \in Upcoming' : r[2] >= Key(code.prog, u)
  BY <1>2
<1>4. \E t \in Upcoming : r[2] >= Key(code.prog, t)
  <2>1. CASE ExecuteInstance
    <3>1. Key(code.prog, u) \in Int /\ Key(code.prog, Current(This)) < Key(code.prog, u)
      BY <2>1, NextIsLater
    <3>2. pc \in {"prelude", "period"} /\ step < Len(Body)
      BY <2>1 DEF ExecuteInstance
    <3>3. Current(This) \in Upcoming /\ Key(code.prog, Current(This)) \in Int
      BY <3>2, Executing
    <3>4. r[2] \in Int
      BY ReadIs
    <3> QED BY <1>3, <3>1, <3>3, <3>4
  <2>2. CASE ~ExecuteInstance
    BY <1>3, <2>2, NextStays
  <2> QED BY <2>1, <2>2
<1> QED BY <1>2, <1>4, NeededIs DEF NeededBy

-----------------------------------------------------------------------------
(* The writes of the code                                                  *)
LEMMA WriteMade ==
  ASSUME NEW c, NEW a, NEW w \in WritesOf(c, a)
  PROVE  \E m \in Calls : \E n \in DOMAIN CodeOf(c, m) :
           LET e == CodeOf(c, m)[n]
           IN  /\ w[2] = KeyAt(c, m, n) /\ w[3] = m /\ w[4] = n
               /\ \E x \in Writes(c.prog.stmts[e[1]]) :
                    x.array = a /\ w[1] = Index(x, InCall(c, e, m)[2])
<1> DEFINE at(e) == {x \in Writes(c.prog.stmts[e[1]]) : x.array = a}
           made(m, n) == {<<Index(x, InCall(c, CodeOf(c, m)[n], m)[2]),
                            KeyAt(c, m, n), m, n>> : x \in at(CodeOf(c, m)[n])}
<1>1. WritesOf(c, a)
        = UNION {UNION {made(m, n) : n \in DOMAIN CodeOf(c, m)} : m \in Calls}
  BY DEF WritesOf
<1>2. PICK m \in Calls : \E n \in DOMAIN CodeOf(c, m) : w \in made(m, n)
  <2> HIDE DEF made
  <2> QED BY <1>1
<1>3. PICK n \in DOMAIN CodeOf(c, m) : w \in made(m, n)
  BY <1>2
<1>4. PICK x \in at(CodeOf(c, m)[n]) :
        w = <<Index(x, InCall(c, CodeOf(c, m)[n], m)[2]), KeyAt(c, m, n), m, n>>
  BY <1>3
<1> QED BY <1>4

LEMMA WriteIs ==
  ASSUME Consistent, NEW a \in KArrays, NEW w \in WritesOf(code, a)
  PROVE  /\ w[1] \in Nat /\ w[2] \in Int /\ w[3] \in Nat /\ w[3] \in Calls
         /\ w[4] \in DOMAIN CodeOf(code, w[3]) /\ w[4] \in Nat \ {0}
<1>1. w[1] \in Nat
  BY DEF Consistent, Keeps, KArrays
<1>2. PICK m \in Calls : \E n \in DOMAIN CodeOf(code, m) :
        w[2] = KeyAt(code, m, n) /\ w[3] = m /\ w[4] = n
  BY WriteMade
<1>3. PICK n \in DOMAIN CodeOf(code, m) :
        w[2] = KeyAt(code, m, n) /\ w[3] = m /\ w[4] = n
  BY <1>2
<1>4. KeyAt(code, m, n) \in Int
  BY InstanceOfCode
<1>5. m \in Nat
  BY KernelAssumption DEF Calls
<1>6. CodeOf(code, m) \in Seq(Statements(code.prog) \X Nat)
  BY DEF CodeOf, Consistent, Fits, RoomFor
<1>7. n \in Nat \ {0}
  BY <1>6
<1> QED BY <1>1, <1>3, <1>4, <1>5, <1>7

LEMMA WriteOfThis ==
  ASSUME Consistent, pc \in {"prelude", "period"}, step < Len(Body),
         NEW x \in Writes(code.prog.stmts[This[1]])
  PROVE  <<Index(x, Current(This)[2]), Key(code.prog, Current(This)), Call, step + 1>>
           \in WritesOf(code, x.array)
<1> DEFINE a == x.array
           at(e) == {y \in Writes(code.prog.stmts[e[1]]) : y.array = a}
           made(m, n) == {<<Index(y, InCall(code, CodeOf(code, m)[n], m)[2]),
                            KeyAt(code, m, n), m, n>> : y \in at(CodeOf(code, m)[n])}
<1>1. WritesOf(code, a)
        = UNION {UNION {made(m, n) : n \in DOMAIN CodeOf(code, m)} : m \in Calls}
  BY DEF WritesOf
<1>2. /\ Call \in Calls /\ step + 1 \in DOMAIN CodeOf(code, Call)
      /\ This = CodeOf(code, Call)[step + 1]
      /\ Current(This) = InCall(code, This, Call)
      /\ Key(code.prog, Current(This)) = KeyAt(code, Call, step + 1)
  BY Executing
<1>3. x \in at(CodeOf(code, Call)[step + 1])
  BY <1>2
<1>4. <<Index(x, Current(This)[2]), Key(code.prog, Current(This)), Call, step + 1>>
        \in made(Call, step + 1)
  BY <1>2, <1>3
<1> HIDE DEF made
<1> QED BY <1>1, <1>2, <1>4

-----------------------------------------------------------------------------
(* Where a buffer has the element with index v of the source program       *)
Place(a, v) ==
  LET b == code.buffers[a]
  IN  IF b.cells = 1 \/ b.wraps THEN v % b.cells
      ELSE v - k * code.advance[a] + (IF b.has_phase THEN ph[a] ELSE 0)

LEMMA NoRemainder == ASSUME NEW i \in Nat PROVE i % 1 = 0
BY SMT

LEMMA PlacesApart ==
  ASSUME NEW mul \in Int, NEW off \in Int, NEW i \in Int, NEW j \in Int, NEW d \in Int
  PROVE  mul * (i + j * d) + off = (mul * i + off) + j * (mul * d)
<1> QED BY SMT

LEMMA Multiple ==
  ASSUME NEW j \in Nat, NEW d \in Nat, NEW n \in Nat
  PROVE  j * (d * n) = (j * d) * n
<1> QED BY SMT

(* The element of an access, in the first period and in a later one        *)
Accesses(s) == Reads(s) \cup Writes(s)

LEMMA ElementOfThis ==
  ASSUME Consistent, pc \in {"prelude", "period"}, step < Len(Body),
         NEW x \in Accesses(code.prog.stmts[This[1]])
  PROVE  /\ x.array \in KArrays
         /\ Index(x, This[2]) \in Nat
         /\ Index(x, Current(This)[2])
              = Index(x, This[2])
                  + (IF pc = "period" THEN k * code.advance[x.array] ELSE 0)
<1> DEFINE s == code.prog.stmts[This[1]]
<1>1. /\ Call \in Calls /\ step + 1 \in DOMAIN Body
      /\ step + 1 \in DOMAIN CodeOf(code, Call)
      /\ This = Body[step + 1] /\ This = CodeOf(code, Call)[step + 1]
  BY Executing DEF This
<1>2. This[1] \in Statements(code.prog) /\ This[2] \in Nat
  BY <1>1, InstanceOfCode
<1>3. x.array \in KArrays /\ Index(x, This[2]) \in Nat
  <2>1. CASE pc = "prelude"
    <3>1. RoomFor(code, Body, Unmoved(code))
      BY <2>1 DEF Body, Consistent, Fits
    <3>2. HasRoom(code, x, Index(x, This[2]), Unmoved(code))
      BY <1>1, <3>1 DEF RoomFor, Accesses
    <3> QED BY <3>2 DEF HasRoom, KArrays
  <2>2. CASE pc = "period"
    <3>1. RoomFor(code, Body, LastPhase(code))
      BY <2>2 DEF Body, Consistent, Fits
    <3>2. HasRoom(code, x, Index(x, This[2]), LastPhase(code))
      BY <1>1, <3>1 DEF RoomFor, Accesses
    <3> QED BY <3>2 DEF HasRoom, KArrays
  <2> QED BY <2>1, <2>2
<1>4. CASE pc = "prelude"
  BY <1>3, <1>4 DEF Current
<1>5. CASE pc = "period"
  <2>1. Body = code.period
    BY <1>5 DEF Body
  <2>2. s.rate # 0 /\ x.mul * (code.period_size \div s.rate) = code.advance[x.array]
    BY <1>1, <2>1 DEF Consistent, Keeps, Steady, Accesses
  <2>3. IsStatement(s)
    BY <1>2 DEF Consistent, Keeps, IsProgram, Statements
  <2>4. x \in Access /\ s.rate \in Nat
    <3>1. s.reads \in Seq(Access) /\ s.writes \in Seq(Access) /\ s.rate \in Nat
      BY <2>3 DEF IsStatement
    <3>2. CASE x \in Writes(s)
      <4>1. PICK n \in DOMAIN s.writes : x = s.writes[n]
        BY <3>2 DEF Writes
      <4> QED BY <3>1, <4>1
    <3>3. CASE x \in Reads(s)
      <4>1. PICK n \in DOMAIN s.reads : x = s.reads[n]
        BY <3>3 DEF Reads
      <4> QED BY <3>1, <4>1
    <3> QED BY <3>1, <3>2, <3>3 DEF Accesses
  <2>5. x.mul \in Int /\ x.off \in Int
    BY <2>4 DEF Access
  <2>6. code.period_size \in Nat
    BY DEF Consistent, TInv, WellFormed
  <2>7. PICK d \in Nat : d = code.period_size \div s.rate
    BY <2>2, <2>4, <2>6, DivMod
  <2>8. Current(This)[2] = This[2] + k * d
    BY <1>5, <2>7 DEF Current, Moved
  <2>9. k \in Int
    BY DEF Consistent, TInv, KernelTypeOK
  <2>10. x.mul * (This[2] + k * d) + x.off
           = (x.mul * This[2] + x.off) + k * (x.mul * d)
    <3>1. PICK mul \in Int, off \in Int, i \in Int, j \in Int :
            mul = x.mul /\ off = x.off /\ i = This[2] /\ j = k
      BY <1>2, <2>5, <2>9
    <3>2. mul * (i + j * d) + off = (mul * i + off) + j * (mul * d)
      BY <2>7, PlacesApart
    <3> QED BY <3>1, <3>2
  <2> QED BY <1>3, <1>5, <2>2, <2>7, <2>8, <2>10 DEF Index
<1> QED BY <1>3, <1>4, <1>5

(* Where an access goes is where its element belongs.                      *)
LEMMA CellIsPlace ==
  ASSUME Consistent, pc \in {"prelude", "period"}, step < Len(Body),
         NEW x \in Accesses(code.prog.stmts[This[1]])
  PROVE  Cell(x.array, Index(x, This[2])) = Place(x.array, Index(x, Current(This)[2]))
<1> DEFINE a == x.array
           b == code.buffers[a]
           advance == code.advance[a]
           j == IF pc = "period" /\ b.has_phase THEN Index(x, This[2]) + ph[a]
                ELSE Index(x, This[2])
<1>1. PICK i, v : i = Index(x, This[2]) /\ v = Index(x, Current(This)[2])
  OBVIOUS
<1>2. a \in KArrays /\ i \in Nat
      /\ v = i + (IF pc = "period" THEN k * advance ELSE 0)
  BY <1>1, ElementOfThis
<1>3. b \in Buffer /\ advance \in Nat /\ ph[a] \in Nat /\ k \in Nat
  BY <1>2 DEF Consistent, TInv, KernelTypeOK, WellFormed, KArrays
<1>4. b.cells \in Nat \ {0} /\ k * advance \in Nat /\ v \in Nat
  <2>1. b.cells \in Nat \ {0}
    BY <1>3 DEF Buffer
  <2> HIDE DEF advance
  <2>2. k * advance \in Nat
    BY <1>3
  <2> QED BY <1>2, <2>1, <2>2
<1>5. Cell(a, i) = IF b.cells = 1 THEN 0 ELSE IF b.wraps THEN j % b.cells ELSE j
  BY <1>1 DEF Cell
<1>6. j = IF pc = "period" /\ b.has_phase THEN i + ph[a] ELSE i
  BY <1>1
<1>7. pc = "prelude" => k = 0 /\ ph[a] = 0
  BY <1>2 DEF Consistent, Early
<1> HIDE DEF j, advance
<1>8. CASE b.cells = 1
  BY <1>1, <1>4, <1>5, <1>8, NoRemainder DEF Place
<1>9. CASE b.cells # 1 /\ ~b.wraps
  <2>1. Place(a, v) = v - k * advance + (IF b.has_phase THEN ph[a] ELSE 0)
    BY <1>9 DEF Place, advance
  <2>2. CASE pc = "prelude"
    BY <1>1, <1>2, <1>3, <1>5, <1>6, <1>7, <1>9, <2>1, <2>2
  <2>3. CASE pc = "period"
    <3>1. PICK shift \in Nat : shift = k * advance
      BY <1>4, Zenon
    <3>2. v = i + shift /\ i \in Nat
      BY <1>2, <2>3, <3>1, Zenon
    <3>3. v - shift = i
      BY ONLY <3>2, shift \in Nat
    <3>4. Place(a, v) = i + (IF b.has_phase THEN ph[a] ELSE 0)
      BY <2>1, <3>1, <3>3, Zenon
    <3>5. Cell(a, i) = IF b.has_phase THEN i + ph[a] ELSE i
      BY <1>5, <1>6, <1>9, <2>3, Zenon
    <3>6. Place(a, v) = Cell(a, i)
      BY ONLY <3>2, <3>4, <3>5
    <3> QED BY <1>1, <3>6, Zenon
  <2> QED BY <2>2, <2>3
<1>10. CASE b.cells # 1 /\ b.wraps
  <2>1. Place(a, v) = v % b.cells /\ Cell(a, i) = j % b.cells
    BY <1>5, <1>10 DEF Place
  <2>2. CASE pc = "prelude"
    BY <1>1, <1>2, <1>6, <2>1, <2>2
  <2>3. CASE pc = "period" /\ b.has_phase
    <3>1. ~Shifts(a)
      BY <1>2, <1>3, <1>10 DEF Shifts, Consistent, TInv, WellFormed, KArrays, Buffer
    <3>2. WrapPhaseOK(a)
      BY <1>2, <2>3, <3>1, PhaseParts DEF Consistent
    <3>3. PICK q \in 0..(k * advance) : k * advance = q * b.cells + ph[a]
      BY <3>2 DEF WrapPhaseOK, advance
    <3>4. PICK y \in Nat : y = i + ph[a]
      <4>1. i \in Nat /\ ph[a] \in Nat
        BY <1>2, <1>3, Zenon
      <4> QED BY ONLY <4>1
    <3>5. v = q * b.cells + y
      <4>1. q * b.cells \in Nat
        BY <1>4, <3>3
      <4>2. PICK shift \in Nat, whole \in Nat, p \in Nat :
              shift = k * advance /\ whole = q * b.cells /\ p = ph[a]
        BY <1>3, <1>4, <4>1
      <4>3. v = i + shift
        BY <1>2, <2>3, <4>2, Zenon
      <4>4. shift = whole + p /\ y = i + p
        BY <3>3, <3>4, <4>2, Zenon
      <4>5. i \in Nat
        BY <1>2
      <4>6. v = whole + y
        BY ONLY shift \in Nat, whole \in Nat, p \in Nat, <4>3, <4>4, <4>5
      <4> QED BY ONLY <4>2, <4>6, Zenon
    <3>6. v % b.cells = y % b.cells
      <4>1. q \in Nat
        BY <1>4, <3>3
      <4>2. (q * b.cells + y) % b.cells = y % b.cells
        BY <1>4, <3>4, <4>1, SameRemainder
      <4> QED BY <3>5, <4>2
    <3> QED BY <1>1, <1>6, <2>1, <2>3, <3>4, <3>6
  <2>4. CASE pc = "period" /\ ~b.has_phase
    <3>1. advance % b.cells = 0
      <4>1. \A c \in KArrays : code.buffers[c].wraps /\ ~code.buffers[c].has_phase =>
                                 code.advance[c] % code.buffers[c].cells = 0
        BY DEF Consistent, Keeps, Steady, KArrays
      <4> QED BY <1>2, <1>10, <2>4, <4>1, Zenon DEF advance
    <3>2. PICK d \in Nat : advance = d * b.cells
      <4>1. advance \in Nat /\ b.cells \in Nat \ {0}
        BY <1>3, <1>4, Zenon
      <4> QED BY ONLY <3>1, <4>1, DividedBy, Zenon
    <3>3. PICK q \in Nat : q = k * d
      <4>1. k \in Nat
        BY <1>3, Zenon
      <4>2. k * d \in Nat
        BY ONLY <4>1, d \in Nat
      <4> QED BY <4>2, Zenon
    <3>4. k * advance = q * b.cells
      <4>1. PICK n \in Nat : n = b.cells
        BY <1>4
      <4>2. k \in Nat
        BY <1>3, Zenon
      <4>3. k * (d * n) = (k * d) * n
        BY ONLY <4>2, d \in Nat, n \in Nat, Multiple, Zenon
      <4> QED BY ONLY <3>2, <3>3, <4>1, <4>3, Zenon
    <3>5. v = q * b.cells + i
      <4>1. q * b.cells \in Nat
        BY <1>4, <3>3
      <4>2. PICK whole \in Nat : whole = q * b.cells
        BY <4>1
      <4>3. v = i + whole /\ i \in Nat
        BY <1>2, <2>4, <3>4, <4>2, Zenon
      <4>4. v = whole + i
        BY ONLY whole \in Nat, <4>3
      <4> QED BY ONLY <4>2, <4>4, Zenon
    <3>6. v % b.cells = i % b.cells
      BY <1>2, <1>4, <3>3, <3>5, SameRemainder
    <3> QED BY <1>1, <1>6, <2>1, <2>4, <3>6
  <2> QED BY <2>2, <2>3, <2>4
<1> QED BY <1>8, <1>9, <1>10

-----------------------------------------------------------------------------
(* What is inductive about the memory: all it holds has been written, in   *)
(* one of the calls so far and before what is upcoming, and what is still  *)
(* needed is in its place.                                                 *)
Made == IF pc \in {"none", "created"} THEN 0
        ELSE IF pc = "prelude" THEN 1
        ELSE IF pc = "idle" THEN k + 1 ELSE k + 2

IsPast(a, v) ==
  \E w \in WritesOf(code, a) :
    w[1] = v /\ w[3] < Made /\ \A u \in Upcoming : w[2] < Key(code.prog, u)
IsInPlace(a, v) == Place(a, v) \in Cells(a) /\ mem[a][Place(a, v)] = v

Past(a)    == \A v \in Held(a) \ {Garbage} : IsPast(a, v)
InPlace(a) == \A v \in Held(a) \cap Needed(a) : IsInPlace(a, v)

MInv == Consistent /\ (pc # "none" => \A a \in KArrays : Past(a) /\ InPlace(a))

(* An element is needed by a read that is yet to come.                     *)
LEMMA NeededRead ==
  ASSUME Consistent, NEW a \in KArrays, NEW v \in Needed(a)
  PROVE  /\ v \in Nat /\ v # Garbage
         /\ \E r \in ReadsOf(code, a) :
              r[1] = v /\ \E u \in Upcoming : r[2] >= Key(code.prog, u)
<1>1. PICK r \in ReadsOf(code, a) :
        v = r[1] /\ \E u \in Upcoming : r[2] >= Key(code.prog, u)
  BY NeededIs DEF NeededBy
<1>2. r[1] \in Nat
  BY ReadIs
<1> QED BY <1>1, <1>2 DEF Garbage

LEMMA NeededReadNext ==
  ASSUME Consistent, [KernelNext]_kernelVars, NEW a \in KArrays, NEW v \in Needed(a)'
  PROVE  \E r \in ReadsOf(code, a) :
           r[1] = v /\ \E u \in Upcoming' : r[2] >= Key(code.prog, u)
<1>1. code' = code
  BY SameCode
<1> QED BY <1>1, NeededIs DEF NeededBy

(* Two elements with one place are the same, if the one is still needed    *)
(* when the other is written.                                              *)
LEMMA OnePlaceOneElement ==
  ASSUME Consistent, ExecuteInstance, NEW x \in Writes(code.prog.stmts[This[1]]),
         NEW v, v \in Needed(x.array)', NEW old \in WritesOf(code, x.array),
         old[1] = v, old[2] <= Key(code.prog, Current(This)),
         Place(x.array, v) = Place(x.array, Index(x, Current(This)[2]))
  PROVE  v = Index(x, Current(This)[2])
<1> DEFINE a == x.array
           b == code.buffers[a]
           now == Key(code.prog, Current(This))
<1>0. pc \in {"prelude", "period"} /\ step < Len(Body) /\ [KernelNext]_kernelVars
  BY DEF ExecuteInstance, KernelNext
<1>1. PICK z : z = Index(x, Current(This)[2])
  OBVIOUS
<1>2. a \in KArrays
  BY <1>0, ElementOfThis DEF Accesses
<1>3. b \in Buffer /\ code.advance[a] \in Nat /\ ph[a] \in Nat /\ k \in Nat
  BY <1>0, <1>2 DEF Consistent, TInv, KernelTypeOK, WellFormed, KArrays
<1>4. b.cells \in Nat \ {0}
  BY <1>3 DEF Buffer
<1>5. PICK new \in WritesOf(code, a) : new[1] = z /\ new[2] = now
  BY <1>0, <1>1, WriteOfThis
<1>6. now \in Int /\ Upcoming = {Current(This)}
  BY <1>0, Executing
<1>7. v \in Nat /\ z \in Nat /\ old[2] \in Int
  BY <1>2, <1>5, WriteIs
<1>8. PICK r \in ReadsOf(code, a) :
        r[1] = v /\ \E u \in Upcoming' : r[2] >= Key(code.prog, u)
  BY <1>0, <1>2, NeededReadNext
<1>9. PICK u \in Upcoming' : r[2] >= Key(code.prog, u)
  BY <1>8
<1>10. now < r[2]
  <2>1. Key(code.prog, u) \in Int /\ now < Key(code.prog, u)
    BY <1>9, NextIsLater
  <2>2. r[2] \in Int
    BY <1>2, ReadIs
  <2> HIDE DEF now
  <2> QED BY <1>6, <1>9, <2>1, <2>2
<1>11. CASE b.cells = 1 \/ b.wraps
  <2>1. v % b.cells = z % b.cells
    BY <1>1, <1>11 DEF Place
  <2>2. KeptApart(code, a)
    BY <1>2 DEF Consistent, Keeps, KArrays
  <2>3. old[2] <= new[2] /\ new[2] < r[2]
    BY <1>5, <1>6, <1>7, <1>10
  <2>4. v - z < b.cells /\ z - v < b.cells
    BY <1>5, <1>8, <1>11, <2>2, <2>3 DEF KeptApart
  <2> QED BY <1>1, <1>4, <1>7, <2>1, <2>4, CloseAndCongruent
<1>12. CASE b.cells # 1 /\ ~b.wraps
  <2>1. PICK gone \in Nat : gone = k * code.advance[a]
    BY <1>3
  <2>2. PICK on \in Nat : on = IF b.has_phase THEN ph[a] ELSE 0
    BY <1>3
  <2>3. Place(a, v) = v - gone + on /\ Place(a, z) = z - gone + on
    BY <1>12, <2>1, <2>2 DEF Place
  <2>4. v - gone + on = z - gone + on
    BY <1>1, <2>3
  <2>5. v = z
    BY <1>7, <2>4
  <2> QED BY <1>1, <2>5
<1> QED BY <1>11, <1>12

-----------------------------------------------------------------------------
(* What a step does for a buffer: it keeps in its place what is in the     *)
(* buffer and needed afterwards, and puts there what is new.               *)
StepKeeps(a) ==
  /\ \A v \in Held(a) \cap Needed(a)' : IsInPlace(a, v)'
  /\ \A v \in Held(a)' : v # Garbage =>
       IsPast(a, v)' /\ (v \in Held(a) \/ IsInPlace(a, v)')

LEMMA MadeGrows ==
  ASSUME Consistent, [KernelNext]_kernelVars, pc # "none"
  PROVE  Made \in Nat /\ Made' \in Nat /\ Made <= Made'
<1>1. k \in Nat /\ k' \in Nat
  BY ConsistentStep DEF Consistent, TInv, KernelTypeOK
<1>2. Made \in Nat /\ Made' \in Nat
  <2>1. Made \in {0, 1, k + 1, k + 2} /\ Made' \in {0, 1, k' + 1, k' + 2}
    BY DEF Made
  <2>2. \A j \in Nat : {0, 1, j + 1, j + 2} \subseteq Nat
    OBVIOUS
  <2>3. {0, 1, k + 1, k + 2} \subseteq Nat /\ {0, 1, k' + 1, k' + 2} \subseteq Nat
    BY <1>1, <2>2
  <2> QED BY <2>1, <2>3
<1>3. CASE CallPrelude
  BY <1>2, <1>3 DEF CallPrelude, Made
<1>4. CASE ExecuteInstance
  BY <1>2, <1>4 DEF ExecuteInstance, Made
<1>5. CASE ReturnFromPrelude
  BY <1>1, <1>2, <1>5 DEF ReturnFromPrelude, Made
<1>6. CASE CallPeriod
  BY <1>1, <1>2, <1>6 DEF CallPeriod, Made
<1>7. CASE AdvanceBuffers
  BY <1>1, <1>2, <1>7 DEF AdvanceBuffers, Made
<1>8. CASE UNCHANGED kernelVars
  BY <1>2, <1>8 DEF kernelVars, Made
<1> QED BY <1>2, <1>3, <1>4, <1>5, <1>6, <1>7, <1>8 DEF KernelNext, Construct

(* What was past stays so.                                                 *)
LEMMA PastStays ==
  ASSUME Consistent, [KernelNext]_kernelVars, pc # "none", NEW a \in KArrays, NEW v, IsPast(a, v)
  PROVE  IsPast(a, v)'
<1>1. code' = code
  BY SameCode
<1>2. PICK w \in WritesOf(code, a) :
        w[1] = v /\ w[3] < Made /\ \A u \in Upcoming : w[2] < Key(code.prog, u)
  BY DEF IsPast
<1>3. w[2] \in Int /\ w[3] \in Nat
  BY WriteIs
<1>4. w[3] < Made'
  BY <1>2, <1>3, MadeGrows
<1>5. ASSUME NEW u \in Upcoming' PROVE w[2] < Key(code.prog, u)
  <2>1. CASE ExecuteInstance
    <3>1. Key(code.prog, u) \in Int /\ Key(code.prog, Current(This)) < Key(code.prog, u)
      BY <1>5, <2>1, NextIsLater
    <3>2. pc \in {"prelude", "period"} /\ step < Len(Body)
      BY <2>1 DEF ExecuteInstance
    <3>3. Current(This) \in Upcoming /\ Key(code.prog, Current(This)) \in Int
      BY <3>2, Executing
    <3> QED BY <1>2, <1>3, <3>1, <3>3
  <2>2. CASE ~ExecuteInstance
    BY <1>2, <1>5, <2>2, NextStays
  <2> QED BY <2>1, <2>2
<1> QED BY <1>1, <1>2, <1>4, <1>5 DEF IsPast

(* A cell holds what it held before, or what has just been written.        *)
LEMMA StoredIs ==
  ASSUME Consistent, ExecuteInstance, NEW a \in KArrays, NEW c \in Cells(a)
  PROVE  \/ /\ mem'[a][c] = mem[a][c]
            /\ \A x \in Writes(code.prog.stmts[This[1]]) :
                 x.array = a => Place(a, Index(x, Current(This)[2])) # c
         \/ \E x \in Writes(code.prog.stmts[This[1]]) :
              /\ x.array = a
              /\ Place(a, Index(x, Current(This)[2])) = c
              /\ mem'[a][c] = Index(x, Current(This)[2])
<1> DEFINE at == {w \in Writes(code.prog.stmts[This[1]]) :
                    w.array = a /\ Cell(a, Index(w, This[2])) = c}
<1>1. pc \in {"prelude", "period"} /\ step < Len(Body) /\ mem' = Stored(This)
  BY DEF ExecuteInstance, This
<1>2. mem'[a][c] = IF at = {} THEN mem[a][c]
                   ELSE Index(CHOOSE w \in at : TRUE, Current(This)[2])
  BY <1>1 DEF Stored
<1>3. ASSUME at = {}, NEW x \in Writes(code.prog.stmts[This[1]]), x.array = a
      PROVE  Place(a, Index(x, Current(This)[2])) # c
  <2>1. Cell(a, Index(x, This[2])) # c
    BY <1>3
  <2> QED BY <1>1, <1>3, <2>1, CellIsPlace DEF Accesses
<1>4. CASE at # {}
  <2>1. PICK x : x = CHOOSE w \in at : TRUE
    OBVIOUS
  <2>2. x \in at
    BY <1>4, <2>1
  <2>3. Place(a, Index(x, Current(This)[2])) = c
    BY <1>1, <2>2, CellIsPlace DEF Accesses
  <2> QED BY <1>2, <1>4, <2>1, <2>2, <2>3
<1> QED BY <1>2, <1>3, <1>4

LEMMA ExecuteKeeps ==
  ASSUME Consistent, ExecuteInstance, NEW a \in KArrays, Past(a), InPlace(a)
  PROVE  StepKeeps(a)
<1> DEFINE writes == Writes(code.prog.stmts[This[1]])
           element(x) == Index(x, Current(This)[2])
<1>1. /\ pc \in {"prelude", "period"} /\ step < Len(Body) /\ pc # "none"
      /\ code' = code /\ k' = k /\ ph' = ph /\ pc' = pc /\ [KernelNext]_kernelVars
  BY DEF ExecuteInstance, KernelNext
<1>2. Cells(a)' = Cells(a) /\ \A v : Place(a, v)' = Place(a, v)
  BY <1>1 DEF Cells, Place
<1>3. ASSUME NEW v \in Held(a) \cap Needed(a)' PROVE IsInPlace(a, v)'
  <2>1. v \in Needed(a) /\ v # Garbage
    BY <1>1, <1>3, NeededShrinks, NeededRead
  <2>2. IsPast(a, v) /\ IsInPlace(a, v)
    BY <1>3, <2>1 DEF Past, InPlace
  <2>3. PICK c \in Cells(a) : c = Place(a, v) /\ mem[a][c] = v
    BY <2>2 DEF IsInPlace
  <2>4. mem'[a][c] = v
    <3>1. CASE mem'[a][c] = mem[a][c]
      BY <2>3, <3>1
    <3>2. CASE \E x \in writes : x.array = a /\ Place(a, element(x)) = c
                                  /\ mem'[a][c] = element(x)
      <4>1. PICK x \in writes : x.array = a /\ Place(a, element(x)) = c
                                  /\ mem'[a][c] = element(x)
        BY <3>2
      <4>2. PICK old \in WritesOf(code, a) :
              old[1] = v /\ old[2] < Key(code.prog, Current(This))
        BY <1>1, <2>2, Executing DEF IsPast
      <4>3. old[2] <= Key(code.prog, Current(This))
        BY <1>1, <4>2, WriteIs, Executing
      <4>4. v = element(x)
        BY <1>3, <2>3, <4>1, <4>2, <4>3, OnePlaceOneElement
      <4> QED BY <4>1, <4>4
    <3> QED BY <3>1, <3>2, StoredIs
  <2> QED BY <1>2, <2>3, <2>4 DEF IsInPlace
<1>4. ASSUME NEW v \in Held(a)', v # Garbage
      PROVE  IsPast(a, v)' /\ (v \in Held(a) \/ IsInPlace(a, v)')
  <2>1. PICK c \in Cells(a) : v = mem'[a][c]
    BY <1>2, <1>4 DEF Held
  <2>2. CASE mem'[a][c] = mem[a][c]
    <3>1. v \in Held(a)
      BY <2>1, <2>2 DEF Held
    <3>2. IsPast(a, v)
      BY <1>4, <3>1 DEF Past
    <3> QED BY <1>1, <3>1, <3>2, PastStays
  <2>3. CASE \E x \in writes : x.array = a /\ Place(a, element(x)) = c
                                /\ mem'[a][c] = element(x)
    <3>1. PICK x \in writes : x.array = a /\ Place(a, element(x)) = c
                                /\ mem'[a][c] = element(x)
      BY <2>3
    <3>2. IsInPlace(a, v)'
      BY <1>2, <2>1, <3>1 DEF IsInPlace
    <3>3. PICK w \in WritesOf(code, a) :
            w = <<v, Key(code.prog, Current(This)), Call, step + 1>>
      BY <1>1, <2>1, <3>1, WriteOfThis
    <3>4. Call < Made'
      <4>1. k \in Nat
        BY DEF Consistent, TInv, KernelTypeOK
      <4> QED BY <1>1, <4>1 DEF Call, Made
    <3>5. \A u \in Upcoming' : w[2] < Key(code.prog, u)
      BY <3>3, NextIsLater
    <3>6. IsPast(a, v)'
      BY <1>1, <3>3, <3>4, <3>5 DEF IsPast
    <3> QED BY <3>2, <3>6
  <2> QED BY <2>2, <2>3, StoredIs
<1> QED BY <1>3, <1>4 DEF StepKeeps

-----------------------------------------------------------------------------
(* An element that is needed when a period is about to start               *)
LEMMA NeededAtStart ==
  ASSUME Consistent, [KernelNext]_kernelVars, NEW a \in KArrays, NEW v \in Needed(a)', IsPast(a, v),
         NEW m \in Nat \ {0},
         \A u \in Upcoming' : code.period # <<>> /\ u = Moved(code.period[1], m - 1)
  PROVE  /\ code.period # <<>>
         /\ \E w \in WritesOf(code, a) : \E r \in ReadsOf(code, a) :
              w[1] = v /\ r[1] = v /\ w[3] < Made /\ r[2] >= StartOf(code, m)
<1>1. PICK w \in WritesOf(code, a) : w[1] = v /\ w[3] < Made
  BY DEF IsPast
<1>2. PICK r \in ReadsOf(code, a) :
        r[1] = v /\ \E u \in Upcoming' : r[2] >= Key(code.prog, u)
  BY NeededReadNext
<1>3. PICK u \in Upcoming' : r[2] >= Key(code.prog, u)
  BY <1>2
<1>4. code.period # <<>> /\ u = Moved(code.period[1], m - 1)
  BY <1>3
<1>5. CodeOf(code, m) = code.period
  BY DEF CodeOf
<1>6. InCall(code, code.period[1], m) = Moved(code.period[1], m - 1)
  BY DEF InCall, Moved
<1>7. StartOf(code, m) = Key(code.prog, u)
  BY <1>4, <1>5, <1>6 DEF StartOf, KeyAt
<1> QED BY <1>1, <1>2, <1>3, <1>4, <1>7

LEMMA UpcomingAfterPeriod ==
  ASSUME AdvanceBuffers
  PROVE  Upcoming' = IF code.period = <<>> THEN {} ELSE {Moved(code.period[1], k')}
<1>1. pc' = "idle" /\ code' = code
  BY DEF AdvanceBuffers
<1>2. \A e : Moved(e, k)' = Moved(e, k')
  BY <1>1 DEF Moved
<1> QED BY <1>1, <1>2 DEF Upcoming

LEMMA NeededAfterPeriod ==
  ASSUME Consistent, AdvanceBuffers, NEW a \in KArrays, NEW v \in Needed(a)', IsPast(a, v),
         NEW m \in Nat \ {0}, m - 1 = k'
  PROVE  /\ code.period # <<>>
         /\ \E w \in WritesOf(code, a) : \E r \in ReadsOf(code, a) :
              w[1] = v /\ r[1] = v /\ w[3] < Made /\ r[2] >= StartOf(code, m)
<1>1. [KernelNext]_kernelVars
  BY DEF KernelNext
<1>2. \A u \in Upcoming' : code.period # <<>> /\ u = Moved(code.period[1], m - 1)
  BY UpcomingAfterPeriod
<1> QED BY <1>1, <1>2, NeededAtStart

(* The time to shift comes when all the phases are used up.                *)
LEMMA ShiftIsTimely ==
  ASSUME NEW n \in Nat, NEW count \in Nat \ {0}, NEW advance \in Nat,
         n \in 0..(count - 1), n * advance + advance >= count * advance
  PROVE  n * advance + advance = count * advance
<1>1. (n + 1) * advance = n * advance + advance
  BY NextMultiple
<1>2. (n + 1) * advance <= count * advance
  BY SMT
<1>3. n * advance \in Nat /\ count * advance \in Nat
  OBVIOUS
<1> QED BY <1>1, <1>2, <1>3

LEMMA ShiftKeeps ==
  ASSUME Consistent, AdvanceBuffers, NEW a \in KArrays, Shifts(a), TimeToShift(a),
         NEW v \in Nat, IsInPlace(a, v), IsPast(a, v), v \in Needed(a)'
  PROVE  IsInPlace(a, v)'
<1> DEFINE b == code.buffers[a]
           count == b.shift.period_count
           advance == code.advance[a]
           dest == b.shift.source - count * advance
<1>1. /\ pc = "period" /\ pc # "none" /\ k < MaxPeriods /\ step = Len(code.period)
      /\ code' = code /\ k' = k + 1 /\ pc' = "idle" /\ step' = 0 /\ [KernelNext]_kernelVars
      /\ ph'[a] = 0 /\ mem'[a] = ShiftedData(a)
  BY DEF AdvanceBuffers, Consistent, TInv, KernelNext, AdvancedPhase, Shifts
<1>2. b \in Buffer /\ advance \in Nat /\ ph[a] \in Nat /\ k \in Nat /\ step \in Nat
  BY <1>1 DEF Consistent, TInv, KernelTypeOK, WellFormed, KArrays
<1>3. /\ b.cells \in Nat \ {0} /\ count \in Nat \ {0} /\ b.shift.size \in Nat
      /\ b.shift.source \in Nat /\ b.has_phase /\ b.shift.size > 0
  BY <1>2 DEF Buffer, Shifts
<1>4. ~b.wraps
  BY <1>3 DEF Consistent, TInv, WellFormed, KArrays
<1> HIDE DEF advance, count
<1>5. k * advance \in Nat /\ count * advance \in Nat
  BY <1>2, <1>3
<1>6. ph[a] + advance = count * advance
  <2>1. PICK n \in 0..(count - 1) : ph[a] = n * advance
    BY <1>1, <1>3 DEF Consistent, PhaseTracksTime, count, advance
  <2>2. n * advance + advance >= count * advance
    BY <2>1 DEF TimeToShift, MaxPhase, advance, count
  <2> QED BY <1>2, <1>3, <2>1, <2>2, ShiftIsTimely
<1>7. PICK m \in 1..MaxPeriods : m = k + 1
  BY <1>1, <1>2, KernelAssumption
<1>8. PICK next \in Nat \ {0} : next = m + 1 /\ next - 1 = k'
  BY <1>1, <1>7
<1>9. /\ code.period # <<>>
      /\ \E w \in WritesOf(code, a) : \E r \in ReadsOf(code, a) :
           w[1] = v /\ r[1] = v /\ w[3] < Made /\ r[2] >= StartOf(code, next)
  BY <1>1, <1>8, NeededAfterPeriod
<1>10. PICK w \in WritesOf(code, a), r \in ReadsOf(code, a) :
         w[1] = v /\ r[1] = v /\ w[3] < Made /\ r[2] >= StartOf(code, m + 1)
  BY <1>8, <1>9
<1>11. w[3] <= m
  <2>1. Made = m + 1 /\ w[3] \in Nat
    BY <1>1, <1>2, <1>7, WriteIs DEF Made
  <2> QED BY <1>7, <1>10, <2>1
<1>12. KeptByShift(code, a)
  BY <1>9 DEF Consistent, Keeps, KArrays
<1>13. dest >= 0 /\ b.cells # 1 /\ dest <= v - m * advance
       /\ v - m * advance < dest + b.shift.size
  BY <1>3, <1>10, <1>11, <1>12 DEF KeptByShift, advance, count
<1>14. PICK old \in Cells(a) : old = Place(a, v) /\ mem[a][old] = v
  BY DEF IsInPlace
<1>15. PICK gone \in Nat : gone = k * advance
  BY <1>5
<1>16. PICK all \in Nat : all = count * advance
  BY <1>5
<1>17. m * advance = gone + advance
  BY <1>2, <1>7, <1>15, NextMultiple
<1>18. PICK new \in Int : new = v - (gone + advance)
  BY <1>2
<1>19. old = v - gone + ph[a] /\ old = new + all
  <2>1. Place(a, v) = v - k * advance + ph[a]
    BY <1>3, <1>4, <1>13 DEF Place, advance
  <2> QED BY <1>2, <1>6, <1>14, <1>15, <1>16, <1>18, <2>1
<1>20. new \in Cells(a)
  <2>1. old \in Nat /\ old <= b.cells - 1
    BY <1>3, <1>14 DEF Cells
  <2>2. dest = b.shift.source - all
    BY <1>16
  <2>3. 0 <= dest /\ dest <= new
    BY <1>13, <1>17, <1>18
  <2>4. dest \in Int
    BY <1>3, <1>16, <2>2
  <2> HIDE DEF dest
  <2>5. 0 <= new /\ new <= b.cells - 1
    BY <1>3, <1>16, <1>18, <1>19, <2>1, <2>3, <2>4
  <2> QED BY <1>18, <2>5 DEF Cells
<1>21. mem'[a][new] = v
  <2>1. dest <= new /\ new < dest + b.shift.size
    BY <1>13, <1>17, <1>18
  <2>2. mem'[a][new] = Load(a, new - dest + b.shift.source)
    BY <1>1, <1>20, <2>1 DEF ShiftedData, MaxPhase, count, advance
  <2>3. new - dest + b.shift.source = old
    BY <1>3, <1>16, <1>18, <1>19
  <2> QED BY <1>14, <2>2, <2>3 DEF Load
<1>22. Place(a, v)' = new
  <2>1. Place(a, v)' = v - k' * advance + ph'[a]
    BY <1>1, <1>3, <1>4, <1>13 DEF Place, advance
  <2>2. k' * advance = gone + advance
    BY <1>1, <1>7, <1>17
  <2> QED BY <1>1, <1>2, <1>18, <2>1, <2>2
<1> QED BY <1>1, <1>20, <1>21, <1>22 DEF IsInPlace, Cells

(* Whether the data are shifted or not, what is needed in the next period  *)
(* is where that looks for it.                                             *)
LEMMA InPlaceAfterPeriod ==
  ASSUME Consistent, AdvanceBuffers, NEW a \in KArrays,
         NEW v \in Nat, IsInPlace(a, v), IsPast(a, v), v \in Needed(a)'
  PROVE  IsInPlace(a, v)'
<1> DEFINE b == code.buffers[a]
           advance == code.advance[a]
<1>1. /\ pc = "period" /\ pc # "none" /\ k < MaxPeriods
      /\ code' = code /\ k' = k + 1 /\ [KernelNext]_kernelVars
      /\ ph'[a] = AdvancedPhase(a)
      /\ mem'[a] = IF Shifts(a) /\ TimeToShift(a) THEN ShiftedData(a) ELSE mem[a]
  BY DEF AdvanceBuffers, Consistent, TInv, KernelNext
<1>2. b \in Buffer /\ advance \in Nat /\ ph[a] \in Nat /\ k \in Nat
  BY <1>1 DEF Consistent, TInv, KernelTypeOK, WellFormed, KArrays
<1>3. CASE Shifts(a) /\ TimeToShift(a)
  BY <1>3, ShiftKeeps
<1>4. CASE ~(Shifts(a) /\ TimeToShift(a))
  <2>1. mem'[a] = mem[a] /\ Cells(a)' = Cells(a)
    BY <1>1, <1>4 DEF Cells
  <2>2. SUFFICES Place(a, v)' = Place(a, v)
    BY <2>1 DEF IsInPlace
  <2>3. CASE b.cells = 1 \/ b.wraps
    BY <1>1, <2>3 DEF Place
  <2>4. CASE ~(b.cells = 1 \/ b.wraps)
    <3>1. /\ Place(a, v) = v - k * advance + (IF b.has_phase THEN ph[a] ELSE 0)
          /\ Place(a, v)' = v - k' * advance + (IF b.has_phase THEN ph'[a] ELSE 0)
      BY <1>1, <2>4 DEF Place
    <3> HIDE DEF advance
    <3>2. PICK gone \in Nat : gone = k * advance
      BY <1>2
    <3>3. k' * advance = gone + advance
      BY <1>1, <1>2, <3>2, NextMultiple
    <3>4. CASE b.has_phase
      <4>1. Shifts(a)
        BY <1>2, <2>4, <3>4 DEF Shifts, Consistent, TInv, WellFormed, KArrays, Buffer
      <4>2. ph'[a] = ph[a] + advance
        BY <1>1, <1>4, <3>4, <4>1 DEF AdvancedPhase, advance
      <4> QED BY <1>2, <3>1, <3>2, <3>3, <3>4, <4>2
    <3>5. CASE ~b.has_phase /\ advance = 0
      BY <1>1, <1>2, <3>1, <3>2, <3>3, <3>5
    <3>6. CASE ~b.has_phase /\ advance # 0
      <4>1. PICK next \in Nat \ {0} : next = k' + 1 /\ next - 1 = k'
        BY <1>1, <1>2
      <4>2. \A u \in Upcoming' : code.period # <<>> /\ u = Moved(code.period[1], next - 1)
        BY <4>1, UpcomingAfterPeriod
      <4>3. /\ code.period # <<>>
            /\ \E w \in WritesOf(code, a) : \E r \in ReadsOf(code, a) :
                 w[1] = v /\ r[1] = v /\ w[3] < Made /\ r[2] >= StartOf(code, next)
        BY <1>1, <4>2, NeededAtStart
      <4>4. PICK w \in WritesOf(code, a), r \in ReadsOf(code, a) :
              w[1] = v /\ r[1] = v /\ w[3] < Made /\ r[2] >= StartOf(code, next)
        BY <4>3
      <4>5. PICK m \in 1..MaxPeriods : m = k'
        BY <1>1, <1>2, KernelAssumption
      <4>6. w[3] <= m
        <5>1. Made = m + 1 /\ w[3] \in Nat
          BY <1>1, <1>2, <4>5, WriteIs DEF Made
        <5> QED BY <4>4, <4>5, <5>1
      <4>7. KeptPerPeriod(code, a)
        BY <4>3 DEF Consistent, Keeps, KArrays
      <4>8. r[2] < StartOf(code, m + 1)
        BY <2>4, <3>6, <4>4, <4>6, <4>7 DEF KeptPerPeriod, advance
      <4>9. r[2] < StartOf(code, next) /\ r[2] >= StartOf(code, next)
        BY <4>1, <4>4, <4>5, <4>8
      <4>10. StartOf(code, next) \in Int /\ r[2] \in Int
        <5>1. next \in Calls /\ CodeOf(code, next) = code.period
          <6>1. m \in Nat /\ m <= MaxPeriods /\ MaxPeriods \in Nat
            BY KernelAssumption
          <6>2. next = m + 1 /\ next # 0
            BY <4>1, <4>5
          <6>3. next \in 0..(MaxPeriods + 1)
            BY <6>1, <6>2
          <6> QED BY <6>2, <6>3 DEF Calls, CodeOf
        <5>2. code.period \in Seq(Statements(code.prog) \X Nat)
          BY DEF Consistent, Fits, RoomFor
        <5>3. 1 \in DOMAIN CodeOf(code, next)
          BY <4>3, <5>1, <5>2
        <5> QED BY <5>1, <5>3, ReadIs, InstanceOfCode DEF StartOf
      <4> QED BY <4>9, <4>10
    <3> QED BY <3>4, <3>5, <3>6
  <2> QED BY <2>3, <2>4
<1> QED BY <1>3, <1>4

LEMMA AdvanceKeeps ==
  ASSUME Consistent, AdvanceBuffers, NEW a \in KArrays, Past(a), InPlace(a)
  PROVE  StepKeeps(a)
<1>1. /\ pc # "none" /\ code' = code /\ [KernelNext]_kernelVars
      /\ mem'[a] = IF Shifts(a) /\ TimeToShift(a) THEN ShiftedData(a) ELSE mem[a]
  BY DEF AdvanceBuffers, KernelNext
<1>2. ASSUME NEW v \in Held(a) \cap Needed(a)' PROVE IsInPlace(a, v)'
  <2>1. v \in Needed(a) /\ v # Garbage /\ v \in Nat
    BY <1>1, <1>2, NeededShrinks, NeededRead
  <2>2. IsPast(a, v) /\ IsInPlace(a, v)
    BY <1>2, <2>1 DEF Past, InPlace
  <2> QED BY <1>2, <2>1, <2>2, InPlaceAfterPeriod
<1>3. ASSUME NEW v \in Held(a)', v # Garbage PROVE IsPast(a, v)' /\ v \in Held(a)
  <2>1. PICK c \in Cells(a) : v = mem'[a][c]
    BY <1>1, <1>3 DEF Held, Cells
  <2>2. v \in Held(a)
    BY <1>1, <1>3, <2>1 DEF ShiftedData, Load, Held
  <2> QED BY <1>1, <1>3, <2>2, PastStays DEF Past
<1> QED BY <1>2, <1>3 DEF StepKeeps

-----------------------------------------------------------------------------
(* Entering a call: what is on the stack there is not needed any more.     *)
LEMMA NotOnStack ==
  ASSUME Consistent, CallPrelude \/ CallPeriod, NEW a \in KArrays,
         code.buffers[a].on_stack, NEW v \in Nat, IsPast(a, v), v \in Needed(a)'
  PROVE  FALSE
<1>1. code' = code /\ k' = k /\ k \in Nat /\ [KernelNext]_kernelVars
  BY DEF CallPrelude, CallPeriod, Consistent, TInv, KernelTypeOK, KernelNext
<1>2. PICK w \in WritesOf(code, a) : w[1] = v /\ w[3] < Made
  BY DEF IsPast
<1>3. w[3] \in Nat
  BY WriteIs
<1>4. CASE CallPrelude
  BY <1>2, <1>3, <1>4 DEF CallPrelude, Made
<1>5. CASE CallPeriod
  <2>1. pc = "idle" /\ pc' = "period" /\ step' = 0 /\ k < MaxPeriods
        /\ Len(code.period) > 0
    BY <1>5 DEF CallPeriod
  <2>2. PICK next \in Nat \ {0} : next = k + 1 /\ next - 1 = k
    BY <1>1
  <2>3. code.period \in Seq(Statements(code.prog) \X Nat)
    BY DEF Consistent, Fits, RoomFor
  <2>4. code.period # <<>>
    BY <2>1, <2>3
  <2>5. \A u \in Upcoming' : code.period # <<>> /\ u = Moved(code.period[1], next - 1)
    <3>1. \A e : Moved(e, k)' = Moved(e, k)
      BY <1>1 DEF Moved
    <3>2. Upcoming' = {Moved(code.period[1], k)}
      BY <1>1, <2>1, <3>1 DEF Upcoming
    <3> QED BY <2>2, <2>4, <3>2
  <2>6. \E w1 \in WritesOf(code, a) : \E r \in ReadsOf(code, a) :
          w1[1] = v /\ r[1] = v /\ w1[3] < Made /\ r[2] >= StartOf(code, next)
    BY <1>1, <2>1, <2>5, NeededAtStart
  <2>7. PICK x \in WritesOf(code, a), r \in ReadsOf(code, a) :
          x[1] = v /\ r[1] = v /\ x[3] < Made /\ r[2] >= StartOf(code, next)
    BY <2>6
  <2>8. next \in 1..MaxPeriods
    BY <1>1, <2>1, <2>2, KernelAssumption DEF Consistent, TInv, KernelTypeOK
  <2>9. x[3] < next
    BY <2>1, <2>2, <2>7 DEF Made
  <2>10. KeptPerCall(code, a)
    BY <2>4 DEF Consistent, Keeps, KArrays
  <2>11. r[2] < StartOf(code, next)
    BY <2>7, <2>8, <2>9, <2>10 DEF KeptPerCall
  <2>12. StartOf(code, next) \in Int /\ r[2] \in Int
    <3>1. next \in 0..(MaxPeriods + 1)
      BY <2>8, KernelAssumption
    <3>2. next \in Calls /\ CodeOf(code, next) = code.period
      BY <2>2, <3>1 DEF Calls, CodeOf
    <3>3. 1 \in DOMAIN CodeOf(code, next)
      BY <2>3, <2>4, <3>2
    <3> QED BY <3>2, <3>3, ReadIs, InstanceOfCode DEF StartOf
  <2> QED BY <2>7, <2>11, <2>12
<1> QED BY <1>4, <1>5

LEMMA CallKeeps ==
  ASSUME Consistent, CallPrelude \/ CallPeriod, NEW a \in KArrays, Past(a), InPlace(a)
  PROVE  StepKeeps(a)
<1>1. /\ pc # "none" /\ code' = code /\ k' = k /\ ph' = ph /\ [KernelNext]_kernelVars
      /\ mem'[a] = IF code.buffers[a].on_stack THEN Blank(a) ELSE mem[a]
  BY DEF CallPrelude, CallPeriod, Entered, KernelNext
<1>2. Cells(a)' = Cells(a) /\ \A v : Place(a, v)' = Place(a, v)
  BY <1>1 DEF Cells, Place
<1>3. ASSUME NEW v \in Held(a) \cap Needed(a)' PROVE IsInPlace(a, v)'
  <2>1. v \in Needed(a) /\ v # Garbage /\ v \in Nat
    BY <1>1, <1>3, NeededShrinks, NeededRead
  <2>2. IsPast(a, v) /\ IsInPlace(a, v)
    BY <1>3, <2>1 DEF Past, InPlace
  <2>3. ~code.buffers[a].on_stack
    BY <1>3, <2>1, <2>2, NotOnStack
  <2> QED BY <1>1, <1>2, <2>2, <2>3 DEF IsInPlace
<1>4. ASSUME NEW v \in Held(a)', v # Garbage PROVE IsPast(a, v)' /\ v \in Held(a)
  <2>1. PICK c \in Cells(a) : v = mem'[a][c]
    BY <1>2, <1>4 DEF Held
  <2>2. v \in Held(a)
    BY <1>1, <1>4, <2>1 DEF Blank, Held
  <2> QED BY <1>1, <1>4, <2>2, PastStays DEF Past
<1> QED BY <1>3, <1>4 DEF StepKeeps

(* The steps that leave buffers alone                                      *)
LEMMA QuietKeeps ==
  ASSUME Consistent, ReturnFromPrelude \/ UNCHANGED kernelVars, pc # "none",
         NEW a \in KArrays, Past(a), InPlace(a)
  PROVE  StepKeeps(a)
<1>1. code' = code /\ k' = k /\ ph' = ph /\ mem' = mem /\ [KernelNext]_kernelVars
  BY DEF ReturnFromPrelude, kernelVars, KernelNext
<1>2. Cells(a)' = Cells(a) /\ Held(a)' = Held(a) /\ \A v : Place(a, v)' = Place(a, v)
  BY <1>1 DEF Cells, Held, Place
<1>3. ASSUME NEW v \in Held(a) \cap Needed(a)' PROVE IsInPlace(a, v)'
  <2>1. v \in Needed(a)
    BY <1>1, <1>3, NeededShrinks
  <2>2. IsInPlace(a, v)
    BY <1>3, <2>1 DEF InPlace
  <2> QED BY <1>1, <1>2, <2>2 DEF IsInPlace
<1>4. ASSUME NEW v \in Held(a)', v # Garbage PROVE IsPast(a, v)' /\ v \in Held(a)
  BY <1>1, <1>2, <1>4, PastStays DEF Past
<1> QED BY <1>3, <1>4 DEF StepKeeps

LEMMA EveryStepKeeps ==
  ASSUME MInv, [KernelNext]_kernelVars, pc # "none", NEW a \in KArrays
  PROVE  StepKeeps(a)
<1>1. Consistent /\ Past(a) /\ InPlace(a)
  BY DEF MInv
<1>2. CASE Construct
  BY <1>2 DEF Construct
<1>3. CASE CallPrelude \/ CallPeriod
  BY <1>1, <1>3, CallKeeps
<1>4. CASE ExecuteInstance
  BY <1>1, <1>4, ExecuteKeeps
<1>5. CASE ReturnFromPrelude \/ UNCHANGED kernelVars
  BY <1>1, <1>5, QuietKeeps
<1>6. CASE AdvanceBuffers
  BY <1>1, <1>6, AdvanceKeeps
<1> QED BY <1>2, <1>3, <1>4, <1>5, <1>6 DEF KernelNext

LEMMA MemoryStep == MInv /\ [KernelNext]_kernelVars => MInv'
<1> SUFFICES ASSUME MInv, [KernelNext]_kernelVars PROVE MInv'
  OBVIOUS
<1>1. code' = code /\ KArrays' = KArrays
  BY SameCode DEF KArrays
<1>2. Consistent /\ Consistent'
  BY ConsistentStep DEF MInv
<1>3. SUFFICES ASSUME pc' # "none", NEW a \in KArrays PROVE Past(a)' /\ InPlace(a)'
  BY <1>1, <1>2 DEF MInv
<1>4. CASE pc = "none"
  <2>1. Construct \/ UNCHANGED kernelVars
    BY <1>4 DEF KernelNext, CallPrelude, ExecuteInstance, ReturnFromPrelude, CallPeriod,
                AdvanceBuffers
  <2>2. Construct
    BY <1>3, <1>4, <2>1 DEF kernelVars
  <2>3. \A v \in Held(a)' : v = Garbage
    BY <1>1, <2>2 DEF Construct, Held, Blank, Cells
  <2>4. \A v \in Needed(a)' : v # Garbage
    BY <1>1, <1>2, NeededShrinks, NeededRead
  <2> QED BY <2>3, <2>4 DEF Past, InPlace
<1>5. CASE pc # "none"
  <2>1. StepKeeps(a)
    BY <1>5, EveryStepKeeps
  <2>2. Past(a)'
    BY <2>1 DEF StepKeeps, Past
  <2>3. InPlace(a)'
    <3>1. \A v \in Needed(a)' : v # Garbage
      BY <1>1, <1>2, NeededShrinks, NeededRead
    <3> QED BY <2>1, <3>1 DEF StepKeeps, InPlace
  <2> QED BY <2>2, <2>3
<1> QED BY <1>4, <1>5

LEMMA NeededKept ==
  MInv /\ [KernelNext]_kernelVars =>
    [pc # "none" => \A a \in KArrays : Held(a) \cap Needed(a)' \subseteq Held(a)']_kernelVars
<1> SUFFICES ASSUME MInv, [KernelNext]_kernelVars, pc # "none", NEW a \in KArrays,
                    NEW v \in Held(a) \cap Needed(a)'
             PROVE  v \in Held(a)'
  OBVIOUS
<1>1. IsInPlace(a, v)'
  BY EveryStepKeeps DEF StepKeeps
<1> QED BY <1>1 DEF IsInPlace, Held

(* However many periods there are, and whatever becomes of the buffers at  *)
(* the end of each - their phases go on, their data are shifted, or they   *)
(* are gone with the stack - no element is lost before its last read, if   *)
(* the code and its buffers fit and keep what they hold apart: what        *)
(* CodeIsWellFormed says of the compiler's code.                           *)
THEOREM NothingIsLost == KernelSpec /\ Fits(code) /\ Keeps(code) => NothingNeededIsLost
<1>1. KernelInit /\ Fits(code) /\ Keeps(code) => MInv
  <2>1. KernelInit => PhaseTracksTime
    BY DEF KernelInit, PhaseTracksTime
  <2>2. KernelInit => Early
    BY DEF KernelInit, Early
  <2>3. KernelInit => pc = "none"
    BY DEF KernelInit
  <2> QED BY <2>1, <2>2, <2>3, TypeInit DEF MInv, Consistent
<1> QED BY <1>1, MemoryStep, NeededKept, PTL DEF KernelSpec, NothingNeededIsLost

-----------------------------------------------------------------------------
(* What has been executed is there for those who need it.                  *)
Executed(m, n) == m + 1 < Made \/ (m + 1 = Made /\ (pc = "idle" \/ n <= step))
Present(a) ==
  \A w \in WritesOf(code, a) :
    Executed(w[3], w[4]) /\ w[1] \in Needed(a) => w[1] \in Held(a)

RInv == MInv /\ (pc # "none" => \A a \in KArrays : Present(a))

LEMMA ExecutedBefore ==
  ASSUME Consistent, [KernelNext]_kernelVars, ~ExecuteInstance, pc # "none", NEW a \in KArrays,
         NEW w \in WritesOf(code, a), Executed(w[3], w[4])'
  PROVE  Executed(w[3], w[4])
<1>1. PICK m \in Nat, n \in Nat \ {0} : m = w[3] /\ n = w[4]
  BY WriteIs
<1>2. n \in DOMAIN CodeOf(code, m) /\ Executed(m, n)'
  BY <1>1, WriteIs
<1>3. k \in Nat /\ step \in Nat /\ Made \in Nat
  BY MadeGrows DEF Consistent, TInv, KernelTypeOK
<1>4. SUFFICES Executed(m, n)
  BY <1>1
<1>5. CASE CallPrelude
  BY <1>1, <1>2, <1>5 DEF CallPrelude, Executed, Made
<1>6. CASE ReturnFromPrelude
  <2>1. pc = "prelude" /\ pc' = "idle" /\ step = Len(code.prelude) /\ k' = k /\ k = 0
    BY <1>6 DEF ReturnFromPrelude, Consistent, Early
  <2>2. Made = 1 /\ Made' = 1
    BY <2>1 DEF Made
  <2>3. m + 1 <= 1
    BY <1>1, <1>2, <2>2 DEF Executed
  <2>4. CodeOf(code, m) = code.prelude
    BY <1>1, <2>3 DEF CodeOf
  <2>5. code.prelude \in Seq(Statements(code.prog) \X Nat)
    BY DEF Consistent, Fits, RoomFor
  <2>6. n <= step
    BY <1>2, <2>1, <2>4, <2>5
  <2> QED BY <1>1, <2>2, <2>3, <2>6 DEF Executed
<1>7. CASE CallPeriod
  BY <1>1, <1>2, <1>3, <1>7 DEF CallPeriod, Executed, Made
<1>8. CASE AdvanceBuffers
  <2>1. pc = "period" /\ pc' = "idle" /\ step = Len(code.period) /\ k' = k + 1
    BY <1>8 DEF AdvanceBuffers
  <2>2. Made = k + 2 /\ Made' = k + 2
    BY <1>3, <2>1 DEF Made
  <2>3. m + 1 <= k + 2
    BY <1>1, <1>2, <1>3, <2>2 DEF Executed
  <2>4. CASE m + 1 < k + 2
    BY <2>2, <2>4 DEF Executed
  <2>5. CASE m + 1 = k + 2
    <3>1. CodeOf(code, m) = code.period
      BY <1>1, <1>3, <2>5 DEF CodeOf
    <3>2. code.period \in Seq(Statements(code.prog) \X Nat)
      BY DEF Consistent, Fits, RoomFor
    <3>3. n <= step
      BY <1>2, <2>1, <3>1, <3>2
    <3> QED BY <2>2, <2>5, <3>3 DEF Executed
  <2> QED BY <1>1, <1>3, <2>3, <2>4, <2>5
<1>9. CASE UNCHANGED kernelVars
  BY <1>2, <1>9 DEF kernelVars, Executed, Made
<1>10. CASE Construct
  BY <1>10 DEF Construct
<1> QED BY <1>5, <1>6, <1>7, <1>8, <1>9, <1>10 DEF KernelNext

(* A needed element that is being written gets into the buffer.            *)
LEMMA WrittenIsHeld ==
  ASSUME Consistent, ExecuteInstance, NEW x \in Writes(code.prog.stmts[This[1]]),
         NEW v, v = Index(x, Current(This)[2]), v \in Needed(x.array)'
  PROVE  v \in Held(x.array)'
<1> DEFINE a == x.array
           now == Key(code.prog, Current(This))
<1>1. pc \in {"prelude", "period"} /\ step < Len(Body) /\ [KernelNext]_kernelVars /\ code' = code
  BY DEF ExecuteInstance, KernelNext
<1>2. a \in KArrays
  BY <1>1, ElementOfThis DEF Accesses
<1>3. PICK c \in Cells(a) : c = Place(a, v)
  <2>1. AccessesInBounds
    BY AccessesAreInBounds DEF Consistent
  <2>2. Cell(a, Index(x, This[2])) \in Cells(a)
    BY <1>1, <2>1 DEF AccessesInBounds, This
  <2> QED BY <1>1, <2>2, CellIsPlace DEF Accesses
<1>4. PICK y \in Writes(code.prog.stmts[This[1]]) :
        /\ y.array = a /\ Place(a, Index(y, Current(This)[2])) = c
        /\ mem'[a][c] = Index(y, Current(This)[2])
  BY <1>2, <1>3, StoredIs
<1>5. PICK old \in WritesOf(code, a) : old[1] = v /\ old[2] = now
  BY <1>1, WriteOfThis
<1>6. old[2] <= now
  BY <1>1, <1>2, <1>5, WriteIs
<1>7. v = Index(y, Current(This)[2])
  BY <1>3, <1>4, <1>5, <1>6, OnePlaceOneElement
<1> QED BY <1>1, <1>3, <1>4, <1>7 DEF Held, Cells

LEMMA PresentStep ==
  ASSUME RInv, [KernelNext]_kernelVars, pc # "none", NEW a \in KArrays
  PROVE  Present(a)'
<1>1. Consistent /\ MInv /\ Present(a) /\ code' = code
  BY SameCode DEF RInv, MInv
<1>2. SUFFICES ASSUME NEW w \in WritesOf(code, a), Executed(w[3], w[4])',
                      w[1] \in Needed(a)'
               PROVE  w[1] \in Held(a)'
  BY <1>1 DEF Present
<1>3. CASE Executed(w[3], w[4])
  <2>1. w[1] \in Needed(a)
    BY <1>1, <1>2, NeededShrinks
  <2>2. w[1] \in Held(a)
    BY <1>1, <1>3, <2>1 DEF Present
  <2>3. IsInPlace(a, w[1])'
    BY <1>1, <1>2, <2>2, EveryStepKeeps DEF StepKeeps
  <2> QED BY <2>3 DEF IsInPlace, Held
<1>4. CASE ~Executed(w[3], w[4])
  <2>1. ExecuteInstance
    BY <1>1, <1>2, <1>4, ExecutedBefore
  <2>2. /\ pc \in {"prelude", "period"} /\ step < Len(Body)
        /\ pc' = pc /\ k' = k /\ step' = step + 1
    BY <2>1 DEF ExecuteInstance
  <2>3. w[3] \in Nat /\ w[4] \in Nat /\ step \in Nat /\ k \in Nat
    BY <1>1, WriteIs DEF Consistent, TInv, KernelTypeOK
  <2>4. Made' = Made /\ Made = Call + 1 /\ Call \in Nat
    BY <2>2, <2>3 DEF Made, Call
  <2>5. w[3] = Call /\ w[4] = step + 1
    BY <1>2, <1>4, <2>2, <2>3, <2>4 DEF Executed
  <2>6. PICK x \in Writes(code.prog.stmts[This[1]]) :
          x.array = a /\ w[1] = Index(x, Current(This)[2])
    BY <1>1, <2>2, <2>5, WriteMade, Executing
  <2> QED BY <1>1, <1>2, <2>1, <2>6, WrittenIsHeld
<1> QED BY <1>3, <1>4

LEMMA PresenceStep == RInv /\ [KernelNext]_kernelVars => RInv'
<1> SUFFICES ASSUME RInv, [KernelNext]_kernelVars PROVE RInv'
  OBVIOUS
<1>1. code' = code /\ KArrays' = KArrays
  BY SameCode DEF KArrays
<1>2. MInv /\ MInv'
  BY MemoryStep DEF RInv
<1>3. SUFFICES ASSUME pc' # "none", NEW a \in KArrays PROVE Present(a)'
  BY <1>1, <1>2 DEF RInv
<1>4. CASE pc = "none"
  <2>1. Construct \/ UNCHANGED kernelVars
    BY <1>4 DEF KernelNext, CallPrelude, ExecuteInstance, ReturnFromPrelude, CallPeriod,
                AdvanceBuffers
  <2>2. Made' = 0
    BY <1>3, <1>4, <2>1 DEF kernelVars, Construct, Made
  <2>3. \A w \in WritesOf(code, a) : w[3] \in Nat
    BY <1>2, WriteIs DEF MInv
  <2>4. \A w \in WritesOf(code, a) : ~Executed(w[3], w[4])'
    BY <2>2, <2>3 DEF Executed
  <2> QED BY <1>1, <2>4 DEF Present
<1>5. CASE pc # "none"
  BY <1>5, PresentStep
<1> QED BY <1>4, <1>5

(* What an instance before the horizon reads is what it asks for.          *)
ReadsFindElements ==
  [][LET s == code.prog.stmts[This[1]]
         e == Current(This)
     IN  ExecuteInstance /\ e \in Instances(code.prog) =>
           seen'.read = [n \in DOMAIN s.reads |-> Index(s.reads[n], e[2])]]_kernelVars

LEMMA ReadFound ==
  ASSUME RInv, Flows(code), ExecuteInstance, Current(This) \in Instances(code.prog),
         NEW x \in Reads(code.prog.stmts[This[1]])
  PROVE  Load(x.array, Cell(x.array, Index(x, This[2]))) = Index(x, Current(This)[2])
<1> DEFINE a == x.array
           e == Current(This)
<1>1. pc \in {"prelude", "period"} /\ step < Len(Body) /\ pc # "none" /\ Consistent /\ MInv
  BY DEF ExecuteInstance, RInv, MInv
<1>2. a \in KArrays /\ Cell(a, Index(x, This[2])) = Place(a, Index(x, e[2]))
  BY <1>1, ElementOfThis, CellIsPlace DEF Accesses
<1>3. PICK v : v = Index(x, e[2])
  OBVIOUS
<1>4. /\ Call \in 0..MaxPeriods /\ step + 1 \in DOMAIN CodeOf(code, Call)
      /\ e = InCall(code, CodeOf(code, Call)[step + 1], Call)
      /\ Upcoming = {e} /\ Key(code.prog, e) \in Int
  BY <1>1, Executing
<1>5. e[1] = This[1]
  BY DEF Current, Moved
<1>6. PICK w \in WritesOf(code, a) :
        w[1] = v /\ (w[3] < Call \/ (w[3] = Call /\ w[4] < step + 1))
  <2>1. PICK m, n : m = Call /\ n = step + 1
    OBVIOUS
  <2>2. /\ m \in 0..MaxPeriods /\ n \in DOMAIN CodeOf(code, m)
        /\ InCall(code, CodeOf(code, m)[n], m) = e
    BY <1>4, <2>1
  <2>3. x \in Reads(code.prog.stmts[e[1]]) /\ e \in Instances(code.prog)
    BY <1>5
  <2> HIDE DEF e
  <2>4. PICK writes : writes = [b \in Arrays(code.prog) |-> WritesOf(code, b)]
    OBVIOUS
  <2>5. \E w \in writes[a] :
          w[1] = Index(x, e[2]) /\ (w[3] < m \/ (w[3] = m /\ w[4] < n))
    BY <2>2, <2>3, <2>4 DEF Flows
  <2>6. writes[a] = WritesOf(code, a)
    BY <1>2, <2>4 DEF KArrays
  <2> QED BY <1>3, <2>1, <2>5, <2>6
<1>7. Executed(w[3], w[4])
  <2>1. w[3] \in Nat /\ w[4] \in Nat /\ step \in Nat /\ k \in Nat
    BY <1>1, <1>2, WriteIs DEF Consistent, TInv, KernelTypeOK
  <2>2. Made = Call + 1 /\ Call \in Nat
    BY <1>1, <2>1 DEF Made, Call
  <2> QED BY <1>6, <2>1, <2>2 DEF Executed
<1>8. v \in Needed(a)
  <2>1. PICK r : r = <<Index(x, e[2]), Key(code.prog, e)>>
    OBVIOUS
  <2>2. r \in ReadsOf(code, a)
    BY <1>5, <2>1 DEF ReadsOf
  <2>3. r[1] = v /\ \E u \in Upcoming : r[2] >= Key(code.prog, u)
    BY <1>3, <1>4, <2>1
  <2> QED BY <2>2, <2>3, NeededIs DEF NeededBy
<1>9. v \in Held(a)
  BY <1>1, <1>2, <1>6, <1>7, <1>8 DEF RInv, Present
<1>10. Place(a, v) \in Cells(a) /\ mem[a][Place(a, v)] = v
  BY <1>1, <1>2, <1>8, <1>9 DEF MInv, InPlace, IsInPlace
<1> QED BY <1>2, <1>3, <1>10 DEF Load

LEMMA ReadsFound ==
  RInv /\ Flows(code) /\ [KernelNext]_kernelVars =>
    [LET s == code.prog.stmts[This[1]]
         e == Current(This)
     IN  ExecuteInstance /\ e \in Instances(code.prog) =>
           seen'.read = [n \in DOMAIN s.reads |-> Index(s.reads[n], e[2])]]_kernelVars
<1> SUFFICES ASSUME RInv, Flows(code), ExecuteInstance,
                    Current(This) \in Instances(code.prog)
             PROVE  seen'.read = [n \in DOMAIN code.prog.stmts[This[1]].reads |->
                      Index(code.prog.stmts[This[1]].reads[n], Current(This)[2])]
  OBVIOUS
<1> DEFINE reads == code.prog.stmts[This[1]].reads
<1>1. seen'.read = [n \in DOMAIN reads |->
                      Load(reads[n].array, Cell(reads[n].array, Index(reads[n], This[2])))]
  BY DEF ExecuteInstance, Fetched, This
<1>2. ASSUME NEW n \in DOMAIN reads
      PROVE  Load(reads[n].array, Cell(reads[n].array, Index(reads[n], This[2])))
               = Index(reads[n], Current(This)[2])
  <2>1. reads[n] \in Reads(code.prog.stmts[This[1]])
    BY DEF Reads
  <2> QED BY <2>1, ReadFound
<1> QED BY <1>1, <1>2

LEMMA FlowsStay == Flows(code) /\ [KernelNext]_kernelVars => Flows(code)'
<1> SUFFICES ASSUME Flows(code), [KernelNext]_kernelVars PROVE Flows(code)'
  OBVIOUS
<1>1. code' = code
  BY SameCode
<1> QED BY <1>1

(* Whatever the layout of the buffers, and however many periods there are, *)
(* each instance reads the very elements that the program asks for, if the *)
(* code also writes them before: what CodeIsWellFormed says of the         *)
(* compiler's code.                                                        *)
THEOREM EveryReadIsRight ==
  KernelSpec /\ Fits(code) /\ Keeps(code) /\ Flows(code) => ReadsFindElements
<1>1. KernelInit /\ Fits(code) /\ Keeps(code) => RInv
  <2>1. KernelInit => PhaseTracksTime
    BY DEF KernelInit, PhaseTracksTime
  <2>2. KernelInit => Early
    BY DEF KernelInit, Early
  <2>3. KernelInit => pc = "none"
    BY DEF KernelInit
  <2> QED BY <2>1, <2>2, <2>3, TypeInit DEF RInv, MInv, Consistent
<1> QED BY <1>1, PresenceStep, FlowsStay, ReadsFound, PTL DEF KernelSpec, ReadsFindElements

-----------------------------------------------------------------------------
(* Instances execute in the order of the schedule, across all calls, and   *)
(* none does twice.                                                        *)
SeenKey == Key(code.prog, <<seen.stmt, seen.index>>)
InScheduleOrder == [][ExecuteInstance /\ seen # NoneYet => SeenKey < SeenKey']_kernelVars

OInv ==
  /\ Consistent
  /\ seen # NoneYet => SeenKey \in Int /\ \A u \in Upcoming : SeenKey < Key(code.prog, u)

(* What has been executed is seen.                                         *)
LEMMA SeenIsThis ==
  ASSUME Consistent, ExecuteInstance
  PROVE  /\ SeenKey' = Key(code.prog, Current(This)) /\ SeenKey' \in Int
         /\ Upcoming = {Current(This)}
<1>1. /\ pc \in {"prelude", "period"} /\ step < Len(Body) /\ code' = code
      /\ seen' = [stmt |-> This[1], index |-> Current(This)[2], read |-> Fetched(This)]
  BY DEF ExecuteInstance, This
<1>2. /\ Call \in Calls /\ step + 1 \in DOMAIN CodeOf(code, Call)
      /\ This = CodeOf(code, Call)[step + 1] /\ Upcoming = {Current(This)}
      /\ Key(code.prog, Current(This)) \in Int
  BY <1>1, Executing
<1>3. Key(code.prog, Current(This)) = Key(code.prog, <<This[1], Current(This)[2]>>)
  <2>1. Current(This)[1] = This[1]
    BY DEF Current, Moved
  <2> QED BY <2>1 DEF Key
<1> QED BY <1>1, <1>2, <1>3 DEF SeenKey

LEMMA OrderStep == OInv /\ [KernelNext]_kernelVars => OInv'
<1> SUFFICES ASSUME OInv, [KernelNext]_kernelVars PROVE OInv'
  OBVIOUS
<1>1. Consistent /\ Consistent' /\ code' = code
  BY ConsistentStep, SameCode DEF OInv
<1>2. CASE ExecuteInstance
  <2>1. SeenKey' = Key(code.prog, Current(This)) /\ SeenKey' \in Int
    BY <1>1, <1>2, SeenIsThis
  <2>2. \A u \in Upcoming' : Key(code.prog, Current(This)) < Key(code.prog, u)
    BY <1>1, <1>2, NextIsLater
  <2> QED BY <1>1, <2>1, <2>2 DEF OInv
<1>3. CASE ~ExecuteInstance
  <2>1. seen' = seen
    BY <1>3 DEF KernelNext, Construct, CallPrelude, ReturnFromPrelude, CallPeriod,
                AdvanceBuffers, kernelVars
  <2>2. SeenKey' = SeenKey
    BY <1>1, <2>1 DEF SeenKey
  <2>3. Upcoming' = Upcoming
    BY <1>1, <1>3, NextStays
  <2> QED BY <1>1, <2>1, <2>2, <2>3 DEF OInv
<1> QED BY <1>2, <1>3

LEMMA SeenInOrder ==
  OInv /\ [KernelNext]_kernelVars => [ExecuteInstance /\ seen # NoneYet => SeenKey < SeenKey']_kernelVars
BY SeenIsThis DEF OInv

(* However many periods there are, each instance executes after those that *)
(* the schedule has before it: no step into the next call goes back.       *)
THEOREM ScheduleIsFollowed == KernelSpec /\ Fits(code) /\ Keeps(code) => InScheduleOrder
<1>1. KernelInit /\ Fits(code) /\ Keeps(code) => OInv
  <2>1. KernelInit => PhaseTracksTime
    BY DEF KernelInit, PhaseTracksTime
  <2>2. KernelInit => Early
    BY DEF KernelInit, Early
  <2>3. KernelInit => seen = NoneYet
    BY DEF KernelInit
  <2> QED BY <2>1, <2>2, <2>3, TypeInit DEF OInv, Consistent
<1> QED BY <1>1, OrderStep, SeenInOrder, PTL DEF KernelSpec, InScheduleOrder

-----------------------------------------------------------------------------
(* What comes next, as ArrayProgram has it: for each statement the first   *)
(* of its members from what is upcoming on                                 *)
Ahead(p, upcoming, n) ==
  {i \in 0..(2 * Horizon) :
     /\ InDomain(i, p.stmts[n])
     /\ \E u \in upcoming : Key(p, <<n, i>>) >= Key(p, u)}

First(ahead) == IF ahead = {} THEN End ELSE Min(ahead)
NextFrom(p, upcoming) == [n \in Statements(p) |-> First(Ahead(p, upcoming, n))]

LEMMA NextIs ==
  /\ NextOfEach = NextFrom(code.prog, Upcoming)
  /\ NextOfEach' = NextFrom(code'.prog, Upcoming')
<1>1. NextOfEach = NextFrom(code.prog, Upcoming)
  BY DEF NextOfEach, NextFrom, First, Ahead
<1>2. PICK c, upcoming : c = code' /\ upcoming = Upcoming'
  OBVIOUS
<1>3. NextOfEach' = NextFrom(c.prog, upcoming)
  BY <1>2 DEF NextOfEach, NextFrom, First, Ahead
<1> QED BY <1>1, <1>2, <1>3

LEMMA LeastIs ==
  ASSUME NEW S, S \subseteq Nat, S # {}
  PROVE  Min(S) \in S /\ \A x \in S : Min(S) <= x
<1>1. PICK n \in S : \A m \in S : ~(<<m, n>> \in OpToRel(<, Nat))
  BY NatLessThanWellFounded, WFMin
<1>2. \A m \in S : ~(m < n)
  BY <1>1 DEF OpToRel
<1>3. \A m \in S : n <= m
  BY <1>2
<1> QED BY <1>3 DEF Min

LEMMA LeastOne ==
  ASSUME NEW S, S \subseteq Nat, NEW n \in S, \A x \in S : n <= x
  PROVE  Min(S) = n
<1>1. Min(S) \in S /\ \A x \in S : Min(S) <= x
  BY LeastIs
<1>2. Min(S) <= n /\ n <= Min(S)
  BY <1>1
<1>3. Min(S) \in Nat /\ n \in Nat
  BY <1>1
<1> QED BY <1>2, <1>3

(* Keys tell instances apart, and grow along with the members of a domain. *)
LEMMA KeyParts ==
  ASSUME NEW p, IsProgram(p), NEW n \in Statements(p), NEW i \in Int
  PROVE  /\ Len(p.stmts) \in Nat \ {0} /\ n - 1 \in 0..(Len(p.stmts) - 1)
         /\ 2 * Horizon * p.stmts[n].band + Time(p.stmts[n], i) \in Int
         /\ Key(p, <<n, i>>)
              = (2 * Horizon * p.stmts[n].band + Time(p.stmts[n], i)) * Len(p.stmts) + (n - 1)
<1> DEFINE s == p.stmts[n]
<1>1. n \in 1..Len(p.stmts) /\ Len(p.stmts) \in Nat
  BY DEF IsProgram, Statements
<1>2. s.band \in Int /\ s.rate \in Int /\ s.start \in Int
  BY DEF IsProgram, IsStatement, Statements
<1>3. Time(s, i) \in Int
  BY <1>2 DEF Time
<1>4. 2 * Horizon * s.band \in Int
  BY <1>2, HorizonAssumption
<1>5. PICK t \in Int : t = 2 * Horizon * s.band + Time(s, i)
  BY <1>3, <1>4
<1>6. PICK l \in Nat : l = Len(p.stmts)
  BY <1>1
<1>7. Key(p, <<n, i>>) = t * l + n - 1
  BY <1>5, <1>6 DEF Key
<1>8. t * l \in Int
  BY <1>6
<1>9. t * l + n - 1 = t * l + (n - 1)
  BY <1>1, <1>6, <1>8
<1>10. l \in Nat \ {0} /\ n - 1 \in 0..(l - 1)
  BY <1>1, <1>6
<1>11. Key(p, <<n, i>>) = t * l + (n - 1)
  BY <1>7, <1>9
<1> HIDE DEF s
<1> QED BY <1>5, <1>6, <1>10, <1>11 DEF s

LEMMA RemaindersEqual ==
  ASSUME NEW a \in Int, NEW b \in Int, NEW l \in Nat \ {0},
         NEW r \in 0..(l - 1), NEW q \in 0..(l - 1), a * l + r = b * l + q
  PROVE  r = q /\ a = b
<1>1. a * l \in Int /\ b * l \in Int
  OBVIOUS
<1>2. a * l - b * l < l /\ b * l - a * l < l
  BY <1>1
<1>3. a <= b /\ b <= a
  BY <1>2, LessThanOnce
<1> QED BY <1>1, <1>3

LEMMA KeyOfOne ==
  ASSUME NEW p, IsProgram(p), NEW n \in Statements(p), NEW i \in Int,
         NEW m \in Statements(p), NEW j \in Int, Key(p, <<n, i>>) = Key(p, <<m, j>>)
  PROVE  n = m
<1>0. PICK l \in Nat \ {0} : l = Len(p.stmts)
  BY KeyParts
<1> DEFINE place(s, x) == 2 * Horizon * p.stmts[s].band + Time(p.stmts[s], x)
<1>1. \A s \in Statements(p) : \A x \in Int :
        /\ s - 1 \in 0..(l - 1) /\ place(s, x) \in Int
        /\ Key(p, <<s, x>>) = place(s, x) * l + (s - 1)
  BY <1>0, KeyParts
<1> HIDE DEF place
<1>2. PICK a \in Int, r \in 0..(l - 1) : r = n - 1 /\ Key(p, <<n, i>>) = a * l + r
  BY <1>1, Zenon
<1>3. PICK b \in Int, q \in 0..(l - 1) : q = m - 1 /\ Key(p, <<m, j>>) = b * l + q
  BY <1>1, Zenon
<1>4. r = q
  <2>1. a * l + r = b * l + q
    BY <1>2, <1>3, Zenon
  <2> QED BY <2>1, RemaindersEqual
<1>5. n \in Int /\ m \in Int
  BY DEF IsProgram, Statements
<1> QED
  <2>1. n - 1 = m - 1
    BY <1>2, <1>3, <1>4
  <2> QED BY <1>5, <2>1

LEMMA KeyGrows ==
  ASSUME NEW p, IsProgram(p), NEW n \in Statements(p), p.stmts[n].rate > 0,
         NEW i \in Int, NEW j \in Int
  PROVE  Key(p, <<n, i>>) < Key(p, <<n, j>>) <=> i < j
<1> DEFINE s == p.stmts[n]
<1>1. PICK l \in Nat \ {0} : l = Len(p.stmts)
  BY KeyParts
<1>2. PICK base \in Int : base = 2 * Horizon * s.band
  BY HorizonAssumption DEF IsProgram, IsStatement, Statements
<1>3. PICK rate \in Nat \ {0}, start \in Int : rate = s.rate /\ start = s.start
  BY DEF IsProgram, IsStatement, Statements
<1>4. n \in Int
  BY DEF IsProgram, Statements
<1>5. PICK x \in Int, y \in Int : x = rate * i /\ y = rate * j
  OBVIOUS
<1>6. /\ Key(p, <<n, i>>) = (base + (x + start)) * l + (n - 1)
      /\ Key(p, <<n, j>>) = (base + (y + start)) * l + (n - 1)
  BY <1>1, <1>2, <1>3, <1>5, KeyParts DEF Time
<1>7. x < y <=> i < j
  BY <1>5, SMT
<1>8. PICK a \in Int, b \in Int : a = base + (x + start) /\ b = base + (y + start)
  OBVIOUS
<1>9. a < b <=> x < y
  BY <1>8
<1>10. a * l < b * l <=> a < b
  BY SMT
<1>11. a * l \in Int /\ b * l \in Int
  OBVIOUS
<1> QED BY <1>4, <1>6, <1>7, <1>8, <1>9, <1>10, <1>11

(* The members of the domains                                              *)
LEMMA MemberIs ==
  ASSUME NEW p, NEW n, NEW i
  PROVE  <<n, i>> \in Members(p) <=>
           n \in Statements(p) /\ i \in 0..(2 * Horizon) /\ InDomain(i, p.stmts[n])
<1> DEFINE at(m) == {j \in 0..(2 * Horizon) : InDomain(j, p.stmts[m])}
           of(m) == {<<m, j>> : j \in at(m)}
<1>1. Members(p) = UNION {of(m) : m \in Statements(p)}
  BY DEF Members
<1>2. ASSUME <<n, i>> \in Members(p)
      PROVE  n \in Statements(p) /\ i \in at(n)
  <2>1. PICK m \in Statements(p) : <<n, i>> \in of(m)
    <3> HIDE DEF of
    <3> QED BY <1>1, <1>2
  <2>2. PICK j \in at(m) : <<n, i>> = <<m, j>>
    BY <2>1
  <2>3. n = m /\ i = j
    BY <2>2
  <2> HIDE DEF at
  <2> QED BY <2>2, <2>3
<1>3. ASSUME n \in Statements(p), i \in at(n)
      PROVE  <<n, i>> \in Members(p)
  <2>1. <<n, i>> \in of(n)
    BY <1>3
  <2> HIDE DEF of
  <2> QED BY <1>1, <1>3, <2>1
<1> QED BY <1>2, <1>3

LEMMA MemberKey ==
  ASSUME Consistent, NEW x \in Members(code.prog)
  PROVE  Key(code.prog, x) \in Int
<1>1. PICK n \in Statements(code.prog) :
        x \in {<<n, j>> : j \in {l \in 0..(2 * Horizon) : InDomain(l, code.prog.stmts[n])}}
  BY DEF Members
<1>2. PICK j \in 0..(2 * Horizon) : x = <<n, j>>
  BY <1>1
<1>3. j \in Int
  BY <1>2, HorizonAssumption
<1> QED BY <1>2, <1>3, KeyType DEF Consistent, Keeps

(* What is upcoming after an instance: the next of the call, the first of  *)
(* the next call, or nothing, if the program is over                       *)
LEMMA UpcomingNext ==
  ASSUME Consistent, ExecuteInstance
  PROVE  LET m == Call
             n == step + 1
             last == Len(CodeOf(code, m))
         IN  /\ n # last => Upcoming' = {InCall(code, CodeOf(code, m)[n + 1], m)}
             /\ n = last /\ code.period # <<>> =>
                  Upcoming' = {InCall(code, CodeOf(code, m + 1)[1], m + 1)}
             /\ n = last /\ code.period = <<>> => Upcoming' = {}
<1>1. step \in Nat /\ k \in Nat
  BY DEF Consistent, TInv, KernelTypeOK
<1>2. pc \in {"prelude", "period"} /\ step < Len(Body) /\ code' = code /\ k' = k
      /\ pc' = pc /\ step' = step + 1
  BY DEF ExecuteInstance
<1>0. PICK n \in Nat : n = step + 1
  BY <1>1
<1>3. PICK m \in Nat : m = Call
  BY <1>1 DEF Call
<1>4. Body = CodeOf(code, m) /\ Body \in Seq(Statements(code.prog) \X Nat)
  BY <1>2, <1>3, Executing DEF Body, Consistent, Fits, RoomFor
<1>5. n \in Nat /\ n <= Len(Body) /\ Len(Body) \in Nat
  BY <1>0, <1>1, <1>2, <1>4
<1>6. PICK j \in Nat : j = m + 1 /\ j # 0 /\ j - 1 = m
  BY <1>3
<1>7. CodeOf(code, j) = code.period
      /\ InCall(code, CodeOf(code, j)[1], j) = Moved(code.period[1], m)
  BY <1>6 DEF CodeOf, InCall, Moved
<1>8. CASE pc = "prelude"
  <2>1. m = 0 /\ Body = code.prelude /\ k = 0
    BY <1>3, <1>8 DEF Call, Body, Consistent, Early
  <2>2. Upcoming' = IF n < Len(code.prelude) THEN {code.prelude[n + 1]}
                    ELSE IF code.period = <<>> THEN {}
                    ELSE {Moved(code.period[1], 0)}
    BY <1>0, <1>2, <1>8, <2>1 DEF Upcoming, Moved
  <2>3. InCall(code, CodeOf(code, m)[n + 1], m) = code.prelude[n + 1]
    BY <1>4, <2>1 DEF InCall
  <2>4. Len(CodeOf(code, m)) = Len(code.prelude)
    BY <1>4, <2>1
  <2>5. InCall(code, CodeOf(code, m + 1)[1], m + 1) = Moved(code.period[1], 0)
    BY <1>6, <1>7, <2>1
  <2>6. n # Len(code.prelude) <=> n < Len(code.prelude)
    BY <1>5, <2>1
  <2>7. n # Len(CodeOf(code, m)) => Upcoming' = {InCall(code, CodeOf(code, m)[n + 1], m)}
    BY <2>2, <2>3, <2>4, <2>6
  <2>8. n = Len(CodeOf(code, m)) /\ code.period # <<>> =>
          Upcoming' = {InCall(code, CodeOf(code, m + 1)[1], m + 1)}
    BY <2>2, <2>4, <2>5
  <2>9. n = Len(CodeOf(code, m)) /\ code.period = <<>> => Upcoming' = {}
    BY <2>2, <2>4
  <2> QED BY <1>0, <1>3, <2>7, <2>8, <2>9
<1>9. CASE pc = "period"
  <2>1. m = k + 1 /\ m # 0 /\ m - 1 = k /\ Body = code.period
    BY <1>1, <1>3, <1>9 DEF Call, Body
  <2>2. Upcoming' = IF n < Len(code.period) THEN {Moved(code.period[n + 1], k)}
                    ELSE IF code.period = <<>> THEN {}
                    ELSE {Moved(code.period[1], m)}
    BY <1>0, <1>2, <1>9, <2>1 DEF Upcoming, Moved
  <2>3. InCall(code, CodeOf(code, m)[n + 1], m) = Moved(code.period[n + 1], k)
    BY <1>4, <2>1 DEF InCall, Moved
  <2>4. Len(CodeOf(code, m)) = Len(code.period)
    BY <1>4, <2>1
  <2>5. InCall(code, CodeOf(code, m + 1)[1], m + 1) = Moved(code.period[1], m)
    BY <1>6, <1>7
  <2>6. n # Len(code.period) <=> n < Len(code.period)
    BY <1>5, <2>1
  <2>7. n # Len(CodeOf(code, m)) => Upcoming' = {InCall(code, CodeOf(code, m)[n + 1], m)}
    BY <2>2, <2>3, <2>4, <2>6
  <2>8. n = Len(CodeOf(code, m)) /\ code.period # <<>> =>
          Upcoming' = {InCall(code, CodeOf(code, m + 1)[1], m + 1)}
    BY <2>2, <2>4, <2>5
  <2>9. n = Len(CodeOf(code, m)) /\ code.period = <<>> => Upcoming' = {}
    BY <2>2, <2>4
  <2> QED BY <1>0, <1>3, <2>7, <2>8, <2>9
<1> QED BY <1>2, <1>8, <1>9

(* No instance has a place between one that executes and what comes next.  *)
InTime == pc = "period" => BeforeHorizon(code, k)

LEMMA ThisIsInstance ==
  ASSUME Consistent, Whole(code), InTime, ExecuteInstance
  PROVE  /\ Current(This) \in Instances(code.prog)
         /\ Call \in 0..MaxPeriods /\ step + 1 \in DOMAIN CodeOf(code, Call)
         /\ Call = 0 \/ BeforeHorizon(code, Call - 1)
         /\ Key(code.prog, Current(This)) = KeyAt(code, Call, step + 1)
<1>1. /\ Call \in 0..MaxPeriods /\ step + 1 \in DOMAIN CodeOf(code, Call)
      /\ Current(This) = InCall(code, CodeOf(code, Call)[step + 1], Call)
      /\ Key(code.prog, Current(This)) = KeyAt(code, Call, step + 1)
  BY Executing DEF ExecuteInstance
<1>2. Call = 0 \/ BeforeHorizon(code, Call - 1)
  <2>1. CASE pc = "prelude"
    BY <2>1 DEF Call
  <2>2. CASE pc = "period"
    <3>1. Call - 1 = k
      BY <2>2 DEF Call, Consistent, TInv, KernelTypeOK
    <3> QED BY <2>2, <3>1 DEF InTime
  <2> QED BY <2>1, <2>2 DEF ExecuteInstance
<1>3. PICK m, n : m = Call /\ n = step + 1
  OBVIOUS
<1>4. InCall(code, CodeOf(code, m)[n], m) \in Instances(code.prog)
  BY <1>1, <1>2, <1>3 DEF Whole
<1> QED BY <1>1, <1>2, <1>3, <1>4

LEMMA NoneBetween ==
  ASSUME Consistent, Whole(code), InTime, ExecuteInstance, NEW x \in Members(code.prog),
         Key(code.prog, x) > Key(code.prog, Current(This))
  PROVE  \E u \in Upcoming' : Key(code.prog, x) >= Key(code.prog, u)
<1>1. PICK m, n : m = Call /\ n = step + 1
  OBVIOUS
<1>2. /\ m \in 0..MaxPeriods /\ n \in DOMAIN CodeOf(code, m)
      /\ m = 0 \/ BeforeHorizon(code, m - 1)
      /\ Key(code.prog, Current(This)) = KeyAt(code, m, n)
  BY <1>1, ThisIsInstance
<1>3. PICK keys : keys = {Key(code.prog, e) : e \in Members(code.prog)}
  OBVIOUS
<1>4. Key(code.prog, x) \in keys
  BY <1>3
<1> DEFINE last == Len(CodeOf(code, m))
<1>5. /\ n # last => ~\E y \in keys : KeyAt(code, m, n) < y /\ y < KeyAt(code, m, n + 1)
      /\ n = last /\ code.period # <<>> =>
           ~\E y \in keys : KeyAt(code, m, n) < y /\ y < StartOf(code, m + 1)
      /\ n = last /\ code.period = <<>> => \A y \in keys : y <= KeyAt(code, m, n)
  BY <1>2, <1>3 DEF Whole
<1>6. Key(code.prog, x) \in Int /\ Key(code.prog, Current(This)) \in Int
  BY MemberKey, ThisIsInstance, Executing DEF ExecuteInstance
<1>7. /\ n # last => Upcoming' = {InCall(code, CodeOf(code, m)[n + 1], m)}
      /\ n = last /\ code.period # <<>> =>
           Upcoming' = {InCall(code, CodeOf(code, m + 1)[1], m + 1)}
  BY <1>1, UpcomingNext
<1>8. \A u \in Upcoming' : Key(code.prog, u) \in Int
  BY NextIsLater
<1>9. CASE n # last
  <2>1. PICK u \in Upcoming' : Key(code.prog, u) = KeyAt(code, m, n + 1)
    BY <1>7, <1>9 DEF KeyAt
  <2>2. ~(Key(code.prog, x) < Key(code.prog, u))
    BY <1>2, <1>4, <1>5, <1>6, <1>9, <2>1
  <2> QED BY <1>6, <1>8, <2>1, <2>2
<1>10. CASE n = last /\ code.period # <<>>
  <2>1. PICK u \in Upcoming' : Key(code.prog, u) = StartOf(code, m + 1)
    BY <1>7, <1>10 DEF KeyAt, StartOf
  <2>2. ~(Key(code.prog, x) < Key(code.prog, u))
    BY <1>2, <1>4, <1>5, <1>6, <1>10, <2>1
  <2> QED BY <1>6, <1>8, <2>1, <2>2
<1>11. CASE n = last /\ code.period = <<>>
  BY <1>2, <1>4, <1>5, <1>6, <1>11
<1> QED BY <1>9, <1>10, <1>11

(* Before the first instance there is none.                                *)
LEMMA NoneBefore ==
  ASSUME Consistent, Whole(code), pc = "none", NEW x \in Members(code.prog)
  PROVE  \E u \in Upcoming : Key(code.prog, x) >= Key(code.prog, u)
<1>1. step = 0 /\ k = 0
  BY DEF Consistent, Early
<1>2. PICK keys : keys = {Key(code.prog, e) : e \in Members(code.prog)}
  OBVIOUS
<1>3. Key(code.prog, x) \in keys
  BY <1>2
<1>4. /\ code.prelude # <<>> => \A y \in keys : y >= KeyAt(code, 0, 1)
      /\ code.prelude = <<>> /\ code.period # <<>> => \A y \in keys : y >= StartOf(code, 1)
      /\ code.prelude = <<>> /\ code.period = <<>> => keys = {}
  BY <1>2 DEF Whole
<1>5. code.prelude \in Seq(Statements(code.prog) \X Nat)
  BY DEF Consistent, Fits, RoomFor
<1>6. CASE code.prelude # <<>>
  <2>1. 0 < Len(code.prelude)
    BY <1>5, <1>6
  <2>2. Upcoming = {code.prelude[1]}
    BY <1>1, <2>1 DEF Upcoming
  <2>3. KeyAt(code, 0, 1) = Key(code.prog, code.prelude[1])
    BY DEF KeyAt, CodeOf, InCall
  <2> QED BY <1>3, <1>4, <1>6, <2>2, <2>3
<1>7. CASE code.prelude = <<>> /\ code.period # <<>>
  <2>1. ~(0 < Len(code.prelude))
    BY <1>7
  <2>2. Upcoming = {Moved(code.period[1], 0)}
    BY <1>1, <1>7, <2>1 DEF Upcoming
  <2>3. StartOf(code, 1) = Key(code.prog, Moved(code.period[1], 0))
    BY DEF StartOf, KeyAt, CodeOf, InCall, Moved
  <2> QED BY <1>3, <1>4, <1>7, <2>2, <2>3
<1>8. CASE code.prelude = <<>> /\ code.period = <<>>
  BY <1>3, <1>4, <1>8
<1> QED BY <1>6, <1>7, <1>8

(* The instance that executes is the next of its statement, and the first  *)
(* of all those that come next; when it has executed, its statement goes   *)
(* on to the next member of its domain and the others stay where they are. *)
LEMMA InstanceIs ==
  ASSUME NEW p, NEW e \in Instances(p)
  PROVE  /\ e = <<e[1], e[2]>> /\ e[1] \in Statements(p) /\ e[2] \in 0..(2 * Horizon)
         /\ InDomain(e[2], p.stmts[e[1]]) /\ e \in Members(p)
         /\ Time(p.stmts[e[1]], e[2]) < Horizon
<1> DEFINE of(n) == {<<n, i>> : i \in {j \in 0..(2 * Horizon) :
                                         /\ InDomain(j, p.stmts[n])
                                         /\ Time(p.stmts[n], j) < Horizon}}
<1>1. Instances(p) = UNION {of(n) : n \in Statements(p)}
  BY DEF Instances
<1>2. PICK n \in Statements(p) : e \in of(n)
  <2> HIDE DEF of
  <2> QED BY <1>1
<1>3. PICK i \in 0..(2 * Horizon) :
        e = <<n, i>> /\ InDomain(i, p.stmts[n]) /\ Time(p.stmts[n], i) < Horizon
  BY <1>2
<1>4. <<n, i>> \in Members(p)
  BY <1>3, MemberIs
<1> QED BY <1>3, <1>4

LEMMA AheadNow ==
  ASSUME Consistent, Whole(code), InTime, ExecuteInstance, NEW n \in Statements(code.prog)
  PROVE  Ahead(code.prog, Upcoming, n)
           = {i \in 0..(2 * Horizon) :
                /\ InDomain(i, code.prog.stmts[n])
                /\ Key(code.prog, <<n, i>>) >= Key(code.prog, Current(This))}
<1>1. Upcoming = {Current(This)}
  BY Executing DEF ExecuteInstance
<1> QED BY <1>1 DEF Ahead

LEMMA AheadThen ==
  ASSUME Consistent, Whole(code), InTime, ExecuteInstance, NEW n \in Statements(code.prog)
  PROVE  Ahead(code.prog, Upcoming', n)
           = {i \in 0..(2 * Horizon) :
                /\ InDomain(i, code.prog.stmts[n])
                /\ Key(code.prog, <<n, i>>) > Key(code.prog, Current(This))}
<1> SUFFICES ASSUME NEW i \in 0..(2 * Horizon), InDomain(i, code.prog.stmts[n])
             PROVE  (\E u \in Upcoming' : Key(code.prog, <<n, i>>) >= Key(code.prog, u))
                      <=> Key(code.prog, <<n, i>>) > Key(code.prog, Current(This))
  BY DEF Ahead
<1>1. <<n, i>> \in Members(code.prog)
  BY MemberIs
<1>2. Key(code.prog, <<n, i>>) \in Int /\ Key(code.prog, Current(This)) \in Int
  BY <1>1, MemberKey, Executing DEF ExecuteInstance
<1>3. ASSUME NEW u \in Upcoming', Key(code.prog, <<n, i>>) >= Key(code.prog, u)
      PROVE  Key(code.prog, <<n, i>>) > Key(code.prog, Current(This))
  <2>1. Key(code.prog, u) \in Int /\ Key(code.prog, Current(This)) < Key(code.prog, u)
    BY NextIsLater
  <2> QED BY <1>2, <1>3, <2>1
<1>4. ASSUME Key(code.prog, <<n, i>>) > Key(code.prog, Current(This))
      PROVE  \E u \in Upcoming' : Key(code.prog, <<n, i>>) >= Key(code.prog, u)
  BY <1>1, <1>4, NoneBetween
<1> QED BY <1>3, <1>4

LEMMA OthersStay ==
  ASSUME Consistent, Whole(code), InTime, ExecuteInstance, NEW n \in Statements(code.prog),
         n # Current(This)[1]
  PROVE  Ahead(code.prog, Upcoming', n) = Ahead(code.prog, Upcoming, n)
<1> DEFINE e == Current(This)
<1>1. e = <<e[1], e[2]>> /\ e[1] \in Statements(code.prog) /\ e[2] \in 0..(2 * Horizon)
      /\ e \in Members(code.prog)
  BY ThisIsInstance, InstanceIs
<1>2. SUFFICES ASSUME NEW i \in 0..(2 * Horizon), InDomain(i, code.prog.stmts[n])
               PROVE  Key(code.prog, <<n, i>>) > Key(code.prog, e)
                        <=> Key(code.prog, <<n, i>>) >= Key(code.prog, e)
  BY AheadNow, AheadThen
<1>3. i \in Int /\ e[2] \in Int
  BY <1>1, HorizonAssumption
<1>4. Key(code.prog, <<n, i>>) # Key(code.prog, e)
  BY <1>1, <1>3, KeyOfOne DEF Consistent, Keeps
<1>5. Key(code.prog, <<n, i>>) \in Int /\ Key(code.prog, e) \in Int
  <2>1. <<n, i>> \in Members(code.prog)
    BY <1>2, MemberIs
  <2> HIDE DEF e
  <2> QED BY <1>1, <2>1, MemberKey
<1> HIDE DEF e
<1> QED BY <1>4, <1>5

LEMMA ItsNext ==
  ASSUME Consistent, Whole(code), InTime, ExecuteInstance
  PROVE  LET e == Current(This)
             s == code.prog.stmts[e[1]]
         IN  /\ Ahead(code.prog, Upcoming, e[1])
                  = {i \in 0..(2 * Horizon) : InDomain(i, s) /\ i >= e[2]}
             /\ Ahead(code.prog, Upcoming', e[1])
                  = {i \in (e[2] + 1)..(2 * Horizon) : InDomain(i, s)}
<1> DEFINE e == Current(This)
           s == code.prog.stmts[e[1]]
<1>1. e = <<e[1], e[2]>> /\ e[1] \in Statements(code.prog) /\ e[2] \in 0..(2 * Horizon)
  BY ThisIsInstance, InstanceIs
<1>2. PICK n, j : n = e[1] /\ j = e[2] /\ e = <<n, j>>
  BY <1>1
<1>3. n \in Statements(code.prog) /\ j \in 0..(2 * Horizon) /\ 2 * Horizon \in Nat
  BY <1>1, <1>2, HorizonAssumption
<1>4. IsProgram(code.prog) /\ code.prog.stmts[n].rate > 0
  BY <1>3 DEF Consistent, Keeps, Whole
<1>5. ASSUME NEW i \in 0..(2 * Horizon)
      PROVE  /\ Key(code.prog, <<n, i>>) > Key(code.prog, <<n, j>>) <=> i > j
             /\ Key(code.prog, <<n, i>>) >= Key(code.prog, <<n, j>>) <=> i >= j
  <2>1. i \in Int /\ j \in Int
    BY <1>3
  <2>2. /\ Key(code.prog, <<n, j>>) < Key(code.prog, <<n, i>>) <=> j < i
        /\ Key(code.prog, <<n, i>>) < Key(code.prog, <<n, j>>) <=> i < j
    BY <1>3, <1>4, <2>1, KeyGrows
  <2>3. Key(code.prog, <<n, i>>) \in Int /\ Key(code.prog, <<n, j>>) \in Int
    BY <1>3, <1>4, <2>1, KeyType
  <2> QED BY <2>1, <2>2, <2>3
<1>6. Ahead(code.prog, Upcoming, n)
        = {i \in 0..(2 * Horizon) : InDomain(i, code.prog.stmts[n]) /\ i >= j}
  BY <1>2, <1>3, <1>5, AheadNow
<1>7. Ahead(code.prog, Upcoming', n)
        = {i \in 0..(2 * Horizon) : InDomain(i, code.prog.stmts[n]) /\ i > j}
  BY <1>2, <1>3, <1>5, AheadThen
<1>8. {i \in 0..(2 * Horizon) : InDomain(i, code.prog.stmts[n]) /\ i > j}
        = {i \in (j + 1)..(2 * Horizon) : InDomain(i, code.prog.stmts[n])}
  BY <1>3
<1> QED BY <1>2, <1>6, <1>7, <1>8

(* A step that executes an instance, seen from ArrayProgram                *)
LEMMA ExecutesNext ==
  ASSUME RInv, Flows(code), Whole(code), InTime, ExecuteInstance
  PROVE  LET p == code.prog
             n == Current(This)[1]
             i == Current(This)[2]
             s == p.stmts[n]
         IN  /\ n \in Statements(p) /\ i \in Nat /\ NextOfEach[n] = i
             /\ \A m \in Statements(p) : NextOfEach[m] # End =>
                  Key(p, <<n, i>>) <= Key(p, <<m, NextOfEach[m]>>)
             /\ NextOfEach' = [NextOfEach EXCEPT ![n] = FirstFrom(s, i + 1)]
             /\ seen' = [stmt |-> n, index |-> i,
                         read |-> [r \in DOMAIN s.reads |-> Index(s.reads[r], i)]]
<1>1. Consistent /\ pc # "none" /\ code' = code
  BY DEF RInv, MInv, ExecuteInstance
<1>2. PICK e : e = Current(This)
  OBVIOUS
<1>3. e \in Instances(code.prog)
  BY <1>1, <1>2, ThisIsInstance
<1>4. PICK p, n, i : p = code.prog /\ n = e[1] /\ i = e[2]
  OBVIOUS
<1>5. /\ e = <<n, i>> /\ n \in Statements(p) /\ i \in 0..(2 * Horizon)
      /\ InDomain(i, p.stmts[n])
  BY <1>3, <1>4, InstanceIs
<1>6. i \in Nat /\ 2 * Horizon \in Nat
  BY <1>5, HorizonAssumption
<1>7. /\ Ahead(p, Upcoming, n) = {j \in 0..(2 * Horizon) : InDomain(j, p.stmts[n]) /\ j >= i}
      /\ Ahead(p, Upcoming', n) = {j \in (i + 1)..(2 * Horizon) : InDomain(j, p.stmts[n])}
  BY <1>1, <1>2, <1>4, ItsNext
<1>8. NextOfEach = NextFrom(p, Upcoming) /\ NextOfEach' = NextFrom(p, Upcoming')
  BY <1>1, <1>4, NextIs
<1>9. NextOfEach[n] = i
  <2>1. i \in Ahead(p, Upcoming, n)
    BY <1>5, <1>6, <1>7
  <2>2. Ahead(p, Upcoming, n) \subseteq Nat
    BY <1>6, <1>7
  <2>3. \A j \in Ahead(p, Upcoming, n) : i <= j
    BY <1>6, <1>7
  <2>4. Min(Ahead(p, Upcoming, n)) = i
    BY <2>1, <2>2, <2>3, LeastOne
  <2> QED BY <1>5, <1>8, <2>1, <2>4 DEF NextFrom, First
<1>10. ASSUME NEW m \in Statements(p), NextOfEach[m] # End
       PROVE  Key(p, <<n, i>>) <= Key(p, <<m, NextOfEach[m]>>)
  <2>1. NextOfEach[m] = First(Ahead(p, Upcoming, m))
    BY <1>8 DEF NextFrom
  <2>2. Ahead(p, Upcoming, m)
          = {j \in 0..(2 * Horizon) : /\ InDomain(j, p.stmts[m])
                                      /\ Key(p, <<m, j>>) >= Key(p, e)}
    BY <1>1, <1>2, <1>4, AheadNow
  <2>3. Ahead(p, Upcoming, m) # {} /\ Ahead(p, Upcoming, m) \subseteq Nat
    BY <1>6, <1>10, <2>1, <2>2 DEF First
  <2>4. NextOfEach[m] \in Ahead(p, Upcoming, m)
    BY <2>1, <2>3, LeastIs DEF First
  <2>5. Key(p, <<m, NextOfEach[m]>>) >= Key(p, e) /\ <<m, NextOfEach[m]>> \in Members(p)
    BY <2>2, <2>4, MemberIs
  <2>6. Key(p, <<m, NextOfEach[m]>>) \in Int
    BY <1>1, <1>4, <2>5, MemberKey
  <2>7. e \in Members(p) /\ Key(p, e) \in Int
    BY <1>1, <1>3, <1>4, InstanceIs, MemberKey
  <2> QED BY <1>5, <2>5, <2>6, <2>7
<1>11. NextOfEach' = [NextOfEach EXCEPT ![n] = FirstFrom(p.stmts[n], i + 1)]
  <2>1. First(Ahead(p, Upcoming', n)) = FirstFrom(p.stmts[n], i + 1)
    BY <1>7 DEF First, FirstFrom
  <2>2. \A m \in Statements(p) : m # n => Ahead(p, Upcoming', m) = Ahead(p, Upcoming, m)
    BY <1>1, <1>2, <1>4, OthersStay
  <2> QED BY <1>5, <1>8, <2>1, <2>2 DEF NextFrom
<1>12. seen' = [stmt |-> n, index |-> i,
                read |-> [r \in DOMAIN p.stmts[n].reads |-> Index(p.stmts[n].reads[r], i)]]
  <2>1. This[1] = n
    BY <1>2, <1>4 DEF Current, Moved
  <2>2. seen' = [stmt |-> n, index |-> i, read |-> Fetched(This)]
    BY <1>2, <1>4, <2>1 DEF ExecuteInstance, This
  <2>3. seen'.read = [r \in DOMAIN p.stmts[n].reads |-> Index(p.stmts[n].reads[r], i)]
    <3>1. [KernelNext]_kernelVars /\ kernelVars' # kernelVars
      <4>1. step' = step + 1 /\ step \in Nat
        BY <1>1 DEF ExecuteInstance, Consistent, TInv, KernelTypeOK
      <4> QED BY <4>1 DEF KernelNext, kernelVars
    <3> QED BY <1>2, <1>3, <1>4, <2>1, <3>1, ReadsFound
  <2> QED BY <2>2, <2>3
<1> QED BY <1>2, <1>4, <1>6, <1>5, <1>9, <1>10, <1>11, <1>12

(* Any other step changes nothing that ArrayProgram knows of, once the     *)
(* class exists; before that, what comes next is the first of each domain. *)
LEMMA NothingNext ==
  ASSUME Consistent, [KernelNext]_kernelVars, ~ExecuteInstance
  PROVE  NextOfEach' = NextOfEach /\ seen' = seen
<1>1. Upcoming' = Upcoming /\ code' = code
  BY NextStays, SameCode
<1>2. seen' = seen
  BY DEF KernelNext, Construct, CallPrelude, ReturnFromPrelude, CallPeriod, AdvanceBuffers, kernelVars
<1> QED BY <1>1, <1>2, NextIs

LEMMA FirstOfEach ==
  ASSUME Consistent, Whole(code), pc = "none"
  PROVE  NextOfEach = [n \in Statements(code.prog) |-> FirstFrom(code.prog.stmts[n], 0)]
<1>1. SUFFICES ASSUME NEW n \in Statements(code.prog)
               PROVE  First(Ahead(code.prog, Upcoming, n)) = FirstFrom(code.prog.stmts[n], 0)
  BY NextIs DEF NextFrom
<1>2. Ahead(code.prog, Upcoming, n)
        = {i \in 0..(2 * Horizon) : InDomain(i, code.prog.stmts[n])}
  BY MemberIs, NoneBefore DEF Ahead
<1> QED BY <1>2 DEF First, FirstFrom

-----------------------------------------------------------------------------
(* From the compiler to the class: once the class has been constructed,    *)
(* the code stays as it was handed over.                                   *)
Handed ==
  \/ pc = "none" /\ step = 0 /\ k = 0
  \/ stage = "done" /\ RInv /\ Flows(code) /\ Whole(code) /\ InTime

systemVars == <<compilerVars, code, runtimeVars>>

LEMMA HandedOver ==
  ASSUME Handed, CodeIsWellFormed, stage = "done"
  PROVE  RInv /\ Flows(code) /\ Whole(code) /\ InTime
<1>1. CASE pc = "none" /\ step = 0 /\ k = 0
  <2>1. WellFormed(code) /\ Fits(code) /\ Keeps(code) /\ Flows(code) /\ Whole(code)
    BY <1>1 DEF CodeIsWellFormed, KeepsContract
  <2>2. TInv /\ PhaseTracksTime /\ Early /\ InTime
    BY <1>1, <2>1, KernelAssumption DEF TInv, KernelTypeOK, PhaseTracksTime, Early, InTime
  <2> QED BY <1>1, <2>1, <2>2 DEF RInv, MInv, Consistent
<1> QED BY <1>1 DEF Handed

LEMMA CompilingBefore == Compile => stage # "done"
BY DEF Compile, Next, DropUnreadInstances, MakePeriodicSchedule,
       ScheduleOutOfOrder, ScheduleNotSteady, AllocateStorage,
       AllocationFails, ComputeIoLatencies, GenerateCode

(* Periods begin before the horizon, and so does what is in them.          *)
LEMMA InTimeStep ==
  InTime /\ [KernelNext]_kernelVars => InTime'
<1> SUFFICES ASSUME InTime, [KernelNext]_kernelVars PROVE InTime'
  OBVIOUS
<1>1. \A n : BeforeHorizon(code, n)' <=> BeforeHorizon(code, n)
  BY SameCode
<1>2. CASE CallPeriod
  BY <1>1, <1>2 DEF CallPeriod, InTime
<1>3. CASE ExecuteInstance \/ UNCHANGED kernelVars
  BY <1>1, <1>3 DEF ExecuteInstance, kernelVars, InTime
<1>4. CASE Construct \/ CallPrelude \/ ReturnFromPrelude \/ AdvanceBuffers
  BY <1>4 DEF Construct, CallPrelude, ReturnFromPrelude, AdvanceBuffers, InTime
<1> QED BY <1>2, <1>3, <1>4 DEF KernelNext

LEMMA WorkStep ==
  RInv /\ Flows(code) /\ Whole(code) /\ InTime /\ [KernelNext]_kernelVars =>
    (RInv /\ Flows(code) /\ Whole(code) /\ InTime)'
<1> SUFFICES ASSUME RInv, Flows(code), Whole(code), InTime, [KernelNext]_kernelVars
             PROVE  (RInv /\ Flows(code) /\ Whole(code) /\ InTime)'
  OBVIOUS
<1>1. code' = code
  BY SameCode
<1>2. Flows(code)' /\ Whole(code)'
  BY <1>1
<1> QED BY <1>2, PresenceStep, InTimeStep

LEMMA HandedStep == Handed /\ CodeIsWellFormed /\ [SNext]_systemVars => Handed'
<1> SUFFICES ASSUME Handed, CodeIsWellFormed, [SNext]_systemVars PROVE Handed'
  OBVIOUS
<1>1. CASE Compile
  <2>1. pc = "none" /\ step = 0 /\ k = 0
    BY <1>1, CompilingBefore DEF Handed
  <2> QED BY <1>1, <2>1 DEF Compile, runtimeVars, Handed
<1>2. CASE Run
  <2>1. stage = "done" /\ [KernelNext]_kernelVars /\ stage' = "done"
    BY <1>2 DEF Run, compilerVars
  <2>2. RInv /\ Flows(code) /\ Whole(code) /\ InTime
    BY <2>1, HandedOver
  <2>3. (RInv /\ Flows(code) /\ Whole(code) /\ InTime)'
    BY <2>1, <2>2, WorkStep
  <2> QED BY <2>1, <2>3 DEF Handed
<1>3. CASE UNCHANGED systemVars
  <2>1. UNCHANGED <<stage, pc, step, k>> /\ [KernelNext]_kernelVars
    BY <1>3 DEF systemVars, compilerVars, runtimeVars, kernelVars
  <2>2. CASE pc = "none" /\ step = 0 /\ k = 0
    BY <2>1, <2>2 DEF Handed
  <2>3. CASE stage = "done" /\ RInv /\ Flows(code) /\ Whole(code) /\ InTime
    <3>1. (RInv /\ Flows(code) /\ Whole(code) /\ InTime)'
      BY <2>1, <2>3, WorkStep
    <3> QED BY <2>1, <2>3, <3>1 DEF Handed
  <2> QED BY <2>2, <2>3 DEF Handed
<1> QED BY <1>1, <1>2, <1>3 DEF SNext

(* The class is at work only on what has been handed over.                 *)
LEMMA AtWork ==
  ASSUME Handed, CodeIsWellFormed, [SNext]_systemVars, pc # "none"
  PROVE  stage = "done" /\ RInv /\ Flows(code) /\ Whole(code) /\ InTime /\ [KernelNext]_kernelVars
<1>1. stage = "done" /\ RInv /\ Flows(code) /\ Whole(code) /\ InTime
  BY DEF Handed
<1>2. ~Compile
  BY <1>1, CompilingBefore
<1>3. [KernelNext]_kernelVars
  BY <1>2 DEF SNext, Run, systemVars, runtimeVars, kernelVars
<1> QED BY <1>1, <1>3

(* A program, compiled and run for however long, stays within its buffers, *)
(* keeps its phases right, loses nothing that it needs and reads nothing   *)
(* but what it asks for, if only the compiler's code is what the class     *)
(* relies on, in the moment in which it is handed over.                    *)
THEOREM CompiledProgramsAreSafe ==
  SSpec /\ []CodeIsWellFormed =>
    /\ []AccessesInBounds
    /\ []PhaseTracksTime
    /\ NothingNeededIsLost
    /\ ReadsFindElements
<1>1. SInit => Handed
  BY DEF SInit, Handed
<1>2. Handed => AccessesInBounds /\ PhaseTracksTime
  <2>1. CASE pc = "none"
    BY <2>1 DEF AccessesInBounds, PhaseTracksTime
  <2>2. CASE RInv
    BY <2>2, AccessesAreInBounds DEF RInv, MInv, Consistent
  <2> QED BY <2>1, <2>2 DEF Handed
<1>3. Handed /\ CodeIsWellFormed /\ [SNext]_systemVars =>
        [pc # "none" => \A a \in KArrays : Held(a) \cap Needed(a)' \subseteq Held(a)']_kernelVars
  BY AtWork, NeededKept DEF RInv
<1>4. Handed /\ CodeIsWellFormed /\ [SNext]_systemVars =>
        [LET s == code.prog.stmts[This[1]]
             e == Current(This)
         IN  ExecuteInstance /\ e \in Instances(code.prog) =>
               seen'.read = [n \in DOMAIN s.reads |-> Index(s.reads[n], e[2])]]_kernelVars
  <2>1. ExecuteInstance => pc # "none"
    BY DEF ExecuteInstance
  <2> QED BY <2>1, AtWork, ReadsFound
<1> QED BY <1>1, <1>2, <1>3, <1>4, HandedStep, PTL
        DEF SSpec, systemVars, NothingNeededIsLost, ReadsFindElements
-----------------------------------------------------------------------------
(* The code that runs is that of the program compiled, without its useless *)
(* instances.                                                              *)
Passed ==
  /\ stage = "generated" => prog = source
  /\ stage = "done" => code.prog = prog
  /\ pc = "none" => seen = NoneYet

LEMMA PassedInit == SInit => Passed
BY DEF SInit, Init, Passed

LEMMA PassedStep == Passed /\ [SNext]_systemVars => Passed' /\ Useful' = Useful
<1> SUFFICES ASSUME Passed, [SNext]_systemVars PROVE Passed' /\ Useful' = Useful
  OBVIOUS
<1>1. CASE Compile
  <2>1. UNCHANGED <<pc, seen>>
    BY <1>1 DEF Compile, runtimeVars
  <2>2. CASE DropUnreadInstances
    BY <2>1, <2>2 DEF DropUnreadInstances, Passed, Useful
  <2>3. CASE MakePeriodicSchedule
    BY <2>1, <2>3 DEF MakePeriodicSchedule, Passed, Useful
  <2>4. CASE ScheduleOutOfOrder \/ ScheduleNotSteady
    BY <2>1, <2>4 DEF ScheduleOutOfOrder, ScheduleNotSteady, Fail,
                      NotLast, NotSteady, Passed, Useful
  <2>5. CASE AllocateStorage \/ ComputeIoLatencies
    BY <2>1, <2>5 DEF AllocateStorage, ComputeIoLatencies, Passed, Useful
  <2>6. CASE AllocationFails
    <3>1. stage = "scheduled" /\ UNCHANGED <<source, prog>>
      BY <2>6 DEF AllocationFails, Fail
    <3>2. PICK a \in Arrays(prog) :
            ArrayError(a) # "none" /\ stage' = ArrayError(a)
      BY <2>6 DEF AllocationFails, Fail
    <3>3. stage' # "generated" /\ stage' # "done"
      BY <3>2 DEF ArrayError, NeverWritten, TooLong,
                  NotAccessed
    <3> QED BY <2>1, <3>1, <3>3 DEF Passed, Useful
  <2>7. CASE GenerateCode
    <3>1. stage = "timed" /\ stage' = "done" /\ prog' = prog
          /\ code' = Generated(prog, tiling, period, buffer_size, opt)
      BY <2>7 DEF GenerateCode
    <3>2. code'.prog = prog
      BY <3>1 DEF Generated
    <3> QED BY <2>1, <3>1, <3>2 DEF Passed, Useful
  <2> QED BY <1>1, <2>2, <2>3, <2>4, <2>5, <2>6, <2>7 DEF Compile, Next
<1>2. CASE Run
  <2>1. UNCHANGED <<source, prog, stage>> /\ code' = code
    BY <1>2, SameCode DEF Run, compilerVars
  <2>2. pc' # "none"
    BY <1>2 DEF Run, KernelNext, Construct, CallPrelude, ExecuteInstance, ReturnFromPrelude,
                CallPeriod, AdvanceBuffers
  <2> QED BY <2>1, <2>2 DEF Passed, Useful
<1>3. CASE UNCHANGED systemVars
  BY <1>3 DEF systemVars, compilerVars, runtimeVars, Passed, Useful
<1> QED BY <1>1, <1>2, <1>3 DEF SNext

(* ArrayProgram speaks of programs as the rest does.                       *)
LEMMA SameNotions ==
  /\ Source!End = End /\ Source!NoneYet = NoneYet
  /\ \A p : Source!Statements(p) = Statements(p)
  /\ \A p, e : Source!Key(p, e) = Key(p, e)
  /\ \A s, i : Source!FirstFrom(s, i) = FirstFrom(s, i)
  /\ \A a, i : Source!Index(a, i) = Index(a, i)
<1>1. \A p : Source!Statements(p) = Statements(p)
  BY DEF Source!Statements, Statements
<1>2. \A p, e : Source!Key(p, e) = Key(p, e)
  BY DEF Source!Key, Source!Time, Key, Time
<1>3. \A s, i : Source!FirstFrom(s, i) = FirstFrom(s, i)
  <2>1. \A i, s : Source!InDomain(i, s) <=> InDomain(i, s)
    BY DEF Source!InDomain, InDomain, Source!InProgression, InProgression,
           Source!Infinite, Infinite
  <2>2. \A S : Source!Min(S) = Min(S)
    BY DEF Source!Min, Min
  <2> QED BY <2>1, <2>2 DEF Source!FirstFrom, FirstFrom, Source!End, End
<1> QED BY <1>1, <1>2, <1>3 DEF Source!Index, Index, Source!End, End, Source!NoneYet, NoneYet

(* The next instance of each statement, as RunsAsWritten has it            *)
Following ==
  IF pc = "none" THEN [n \in Statements(Useful) |-> FirstFrom(Useful.stmts[n], 0)]
  ELSE NextOfEach

LEMMA ExecutesAsWritten ==
  ASSUME RInv, Flows(code), Whole(code), InTime, ExecuteInstance,
         Useful = code.prog, Useful' = Useful
  PROVE  Source!Next
<1> DEFINE n == Current(This)[1]
           i == Current(This)[2]
           s == Useful.stmts[n]
<1>1. pc # "none" /\ pc' # "none"
  BY DEF ExecuteInstance
<1>2. /\ n \in Statements(Useful) /\ i \in Nat /\ NextOfEach[n] = i
      /\ \A m \in Statements(Useful) : NextOfEach[m] # End =>
           Key(Useful, <<n, i>>) <= Key(Useful, <<m, NextOfEach[m]>>)
      /\ NextOfEach' = [NextOfEach EXCEPT ![n] = FirstFrom(s, i + 1)]
      /\ seen' = [stmt |-> n, index |-> i,
                  read |-> [r \in DOMAIN s.reads |-> Index(s.reads[r], i)]]
  BY ExecutesNext
<1> HIDE DEF n, i
<1>3. i # End
  BY <1>2 DEF End
<1>4. Source!Ready(Useful, NextOfEach)
        = {<<m, NextOfEach[m]>> : m \in {l \in Statements(Useful) : NextOfEach[l] # End}}
  BY SameNotions DEF Source!Ready
<1>5. <<n, NextOfEach[n]>> \in Source!Ready(Useful, NextOfEach)
  BY <1>2, <1>3, <1>4
<1>6. \A e \in Source!Ready(Useful, NextOfEach) :
        Source!Key(Useful, <<n, NextOfEach[n]>>) <= Source!Key(Useful, e)
  BY <1>2, <1>4, SameNotions
<1>7. NextOfEach' = [NextOfEach EXCEPT ![n] = Source!FirstFrom(s, NextOfEach[n] + 1)]
  BY <1>2, SameNotions
<1>8. seen' = [stmt |-> n, index |-> NextOfEach[n],
               read |-> Source!Elements(s, NextOfEach[n])]
  BY <1>2, SameNotions DEF Source!Elements
<1>9. Source!Execute(n)
  BY <1>1, <1>5, <1>6, <1>7, <1>8 DEF Source!Execute
<1> QED BY <1>2, <1>9, SameNotions DEF Source!Next

LEMMA StepsAsWritten ==
  ASSUME Handed, Passed, CodeIsWellFormed, [SNext]_systemVars
  PROVE  [Source!Next]_Source!vars
<1>1. Useful' = Useful
  BY PassedStep
<1>2. SUFFICES ASSUME ~(UNCHANGED <<Following, seen>>) PROVE Source!Next
  BY <1>1 DEF Source!vars, Following
<1>3. CASE pc = "none"
  <2>1. CASE Compile \/ UNCHANGED systemVars
    <3>1. pc' = "none" /\ seen' = seen
      BY <1>3, <2>1 DEF Compile, runtimeVars, systemVars
    <3> QED BY <1>1, <1>2, <1>3, <3>1 DEF Following
  <2>2. CASE Run
    <3>1. stage = "done" /\ KernelNext
      BY <2>2 DEF Run
    <3>2. Consistent /\ Whole(code)
      BY <3>1, HandedOver DEF RInv, MInv
    <3>3. Construct
      BY <1>3, <3>1 DEF KernelNext, CallPrelude, ExecuteInstance, ReturnFromPrelude, CallPeriod,
                        AdvanceBuffers
    <3>4. pc' = "created" /\ ~ExecuteInstance
      BY <1>3, <3>3 DEF Construct, ExecuteInstance
    <3>5. NextOfEach' = NextOfEach /\ seen' = seen
      BY <3>1, <3>2, <3>4, NothingNext
    <3>6. Useful = code.prog
      BY <3>1 DEF Passed, Useful
    <3>7. NextOfEach = [n \in Statements(Useful) |-> FirstFrom(Useful.stmts[n], 0)]
      BY <1>3, <3>2, <3>6, FirstOfEach
    <3> QED BY <1>2, <1>3, <3>4, <3>5, <3>7 DEF Following
  <2> QED BY <2>1, <2>2 DEF SNext
<1>4. CASE pc # "none"
  <2>1. stage = "done" /\ RInv /\ Flows(code) /\ Whole(code) /\ InTime /\ [KernelNext]_kernelVars
    BY <1>4, AtWork
  <2>2. Useful = code.prog
    BY <2>1 DEF Passed, Useful
  <2>3. CASE ExecuteInstance
    BY <1>1, <2>1, <2>2, <2>3, ExecutesAsWritten
  <2>4. CASE ~ExecuteInstance
    <3>1. NextOfEach' = NextOfEach /\ seen' = seen
      BY <2>1, <2>4, NothingNext DEF RInv, MInv
    <3>2. pc' # "none"
      BY <1>4, <2>1 DEF KernelNext, Construct, CallPrelude, ExecuteInstance, ReturnFromPrelude,
                        CallPeriod, AdvanceBuffers, kernelVars
    <3> QED BY <1>2, <1>4, <3>1, <3>2 DEF Following
  <2> QED BY <2>3, <2>4
<1> QED BY <1>3, <1>4

(* From source to run: a program, compiled and run for however long, does  *)
(* what it means.  Its prelude and its periods execute the instances that  *)
(* are left of it, each once and all of them, in the order of the          *)
(* schedule, and each reads what it asks for: a step of the system is one  *)
(* of ArrayProgram, or none.                                               *)
THEOREM CompiledProgramsRunAsWritten == SSpec /\ []CodeIsWellFormed => RunsAsWritten
<1>1. SInit => Handed /\ Passed /\ Source!Init
  <2>1. SInit => Handed
    BY DEF SInit, Handed
  <2>2. SInit => Source!Init
    BY SameNotions DEF SInit, Source!Init
  <2> QED BY <2>1, <2>2, PassedInit
<1>2. Handed /\ Passed /\ CodeIsWellFormed /\ [SNext]_systemVars => Handed' /\ Passed'
  BY HandedStep, PassedStep
<1>3. Handed /\ Passed /\ CodeIsWellFormed /\ [SNext]_systemVars =>
        [Source!Next]_Source!vars
  BY StepsAsWritten
<1> QED BY <1>1, <1>2, <1>3, PTL DEF SSpec, systemVars, RunsAsWritten, Source!Spec

-----------------------------------------------------------------------------
(* The class at work is nothing to the compiler.                           *)
LEMMA CompilesAlone == SSpec => Spec
<1>1. [SNext]_systemVars => [Next]_vars
  <2>1. Compile => Next
    BY DEF Compile
  <2>2. Run => UNCHANGED vars
    BY SameCode DEF Run, compilerVars, vars
  <2>3. UNCHANGED systemVars => UNCHANGED vars
    BY DEF systemVars, compilerVars, vars
  <2> QED BY <2>1, <2>2, <2>3 DEF SNext
<1>2. SInit => Init
  BY DEF SInit
<1> QED BY <1>1, <1>2, PTL DEF SSpec, Spec, systemVars

(* Compiler and class fit together: what the one is proved to make is what *)
(* the other has been proved to need.                                      *)
THEOREM CompilerAndClassAgree ==
  SSpec /\ [](stage = "done" => Manageable) => []CodeIsWellFormed
<1>1. (stage = "done" /\ Manageable => KeepsContract(code)) /\ (stage = "done" => Manageable)
        => CodeIsWellFormed
  BY DEF CodeIsWellFormed
<1> QED BY <1>1, CompilesAlone, CompilerKeepsTheContract, PTL

(* All the way, and without an assumption on what the compiler makes: a    *)
(* sound program, compiled with whatever options and run for however long, *)
(* does what it means, loses no element that it needs, stays within its    *)
(* buffers and reads nothing but what it asks for.                         *)
THEOREM SoundProgramsRunAsWritten ==
  SSpec /\ [](stage = "done" => Manageable) =>
    /\ RunsAsWritten
    /\ NothingNeededIsLost
    /\ []AccessesInBounds
    /\ []PhaseTracksTime
    /\ ReadsFindElements
BY CompilerAndClassAgree, CompiledProgramsAreSafe, CompiledProgramsRunAsWritten
=============================================================================
