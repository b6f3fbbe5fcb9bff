------------------------------ MODULE Compiler ------------------------------
(***************************************************************************)
(* The back end of compiler/compiler.cpp (compile_module), pass by pass:   *)
(* from the statements that polyhedral_gen produced to the code for a      *)
(* prelude and a period and the buffers the code works on.                 *)
(***************************************************************************)
EXTENDS BufferLayout, GeneratedCode

CONSTANTS
  Programs,   (* programs as generated, with the schedule isl finds        *)
  Options     (* scheduling and storage options of the command line        *)
ASSUME ProgramsAssumption == \A p \in Programs : IsProgram(p) /\ IsScheduled(p)
\* find_periodic_tiling throws for others: "Invalid period offset.", "... scaling."
ASSUME OptionsAssumption ==
  \A o \in Options : o.period_offset \in Nat /\ o.period_scale \in Nat \ {0}

VARIABLES
  source,     (* the program as generated                                  *)
  prog,       (* the program the passes work on                            *)
  opt,
  stage,      (* the last pass that has been done                          *)
  tiling,     (* offset and size of the period                             *)
  period,     (* array->period                                             *)
  buffer_size,(* array->buffer_size                                        *)
  latency     (* latency of each input of the program                      *)

vars == <<source, prog, opt, stage, tiling, period, buffer_size, latency, code>>

Nothing == <<>>

-----------------------------------------------------------------------------
(* Streams that come in and go out: the rest is not looked at              *)
Inputs(p)  == {n \in Statements(p) : p.stmts[n].io /\ Writes(p.stmts[n]) # {}}
Outputs(p) == {n \in Statements(p) : p.stmts[n].io /\ Reads(p.stmts[n]) # {}}
Endless(p, channels) == {n \in channels : IsInfinite(p.stmts[n])}
FirstOutput(p) == Endless(p, {n \in Outputs(p) : \A m \in Outputs(p) : n <= m})

ArrayOf(p, n) == (CHOOSE a \in Reads(p.stmts[n]) \cup Writes(p.stmts[n]) : TRUE).array

(* Mutated: by the ratio of output to input                                *)
ExpectedByOutputRate(p, period_of, in, out, i) ==
  (i * period_of[ArrayOf(p, out)]) \div period_of[ArrayOf(p, in)]

(* Where input `in' would be at the i-th output if both went on evenly     *)
Expected(p, period_of, in, out, i) ==
  (i * period_of[ArrayOf(p, in)]) \div period_of[ArrayOf(p, out)]

(* "for any output o, and latest preceding input i, latency = i - o * r":  *)
(* the largest of them, or -1 if there is none because it grows for ever.  *)
(* Both streams are in the last band without end, so that there always are *)
(* outputs behind inputs, and the error for a latency of no integer does   *)
(* not come up.                                                            *)
LatencyOf(p, tiled, period_of, in, out) ==
  LET largest(until) ==
        LET before == {e \in Instances(p) : e[1] \in {in, out} /\ Key(p, e) < until}
            pairs  == {c \in before \X before : /\ c[1][1] = in /\ c[2][1] = out
                                               /\ Key(p, c[1]) < Key(p, c[2])}
        IN  Max({c[1][2] - Expected(p, period_of, in, out, c[2][2]) : c \in pairs})
      near == largest(KeyOfTime(p, Horizon - tiled.size))
      far  == largest(KeyOfTime(p, Horizon))
  IN  IF far > near THEN -1 ELSE far

(* An input or output that is no stream leaves a latency of 0.             *)
compute_io_latencies(p, tiled, period_of) ==
  [in \in Inputs(p) |->
     IF FirstOutput(p) = {} \/ ~IsInfinite(p.stmts[in]) THEN 0
     ELSE LatencyOf(p, tiled, period_of, in, CHOOSE out \in FirstOutput(p) : TRUE)]

-----------------------------------------------------------------------------
Init ==
  /\ source \in Programs
  /\ prog = source
  /\ opt \in Options
  /\ stage = "generated"
  /\ tiling = Nothing /\ period = Nothing
  /\ buffer_size = Nothing /\ latency = Nothing /\ code = Nothing

Fail(message) ==
  /\ stage' = message
  /\ UNCHANGED <<source, prog, opt, tiling, period, buffer_size, latency, code>>

DropUnreadInstances ==
  /\ stage = "generated"
  /\ prog' = DropUnread(prog)
  /\ stage' = "useful"
  /\ UNCHANGED <<source, opt, tiling, period, buffer_size, latency, code>>

(* An infinite array that no period accesses fails an assertion in the     *)
(* storage allocator, the rest of the errors have messages.                *)
NotLast      == "Schedule sequence contains infinite element that is not last."
NotSteady    == "Accesses have inconsistent tile offsets in array space."
TooLong      == "Infinite storage conflict distance."
NeverWritten == "Array has readers but no writers."
NotAccessed  == "assertion failed"
Errors == {NotLast, NotSteady, TooLong, NeverWritten, NotAccessed}

(* A program without an infinite part is all prelude: array->period stays 0 *)
MakePeriodicSchedule ==
  /\ stage = "useful"
  /\ ~InfiniteBandNotLast(prog)
  /\ LET infos == IF Periodic(prog) THEN AccessInfos(prog) ELSE <<>>
         found == find_periodic_tiling(infos, opt)
         moved == [a \in Arrays(prog) |-> InterTileOffset(found, infos, a)]
     IN  /\ \A a \in Arrays(prog) : moved[a] # Inconsistent
         /\ tiling' = found
         /\ period' = moved
  /\ stage' = "scheduled"
  /\ UNCHANGED <<source, prog, opt, buffer_size, latency, code>>

ScheduleOutOfOrder ==
  /\ stage = "useful"
  /\ InfiniteBandNotLast(prog)
  /\ Fail(NotLast)

ScheduleNotSteady ==
  /\ stage = "useful"
  /\ ~InfiniteBandNotLast(prog)
  /\ LET infos == AccessInfos(prog)
     IN  \E a \in Arrays(prog) :
           InterTileOffset(find_periodic_tiling(infos, opt), infos, a) = Inconsistent
  /\ Fail(NotSteady)

(* storage_allocator::allocate goes through the arrays and stops at the    *)
(* first that has an error.                                                *)
ArrayError(a) ==
  IF Written(prog, a) = {} THEN NeverWritten
  ELSE IF compute_buffer_size(prog, tiling, a) = Unbounded THEN TooLong
  ELSE IF /\ prog.arrays[a].is_infinite
          /\ AccessInPeriod(prog, tiling, a).elements = {} THEN NotAccessed
  ELSE "none"

AllocateStorage ==
  /\ stage = "scheduled"
  /\ \A a \in Arrays(prog) : ArrayError(a) = "none"
  /\ buffer_size' = [a \in Arrays(prog) |-> compute_buffer_size(prog, tiling, a)]
  /\ stage' = "allocated"
  /\ UNCHANGED <<source, prog, opt, tiling, period, latency, code>>

AllocationFails ==
  /\ stage = "scheduled"
  /\ \E a \in Arrays(prog) :
       /\ ArrayError(a) # "none"
       /\ \A b \in 1..(a - 1) : ArrayError(b) = "none"
       /\ Fail(ArrayError(a))

(* What clients are told of each input: how many elements it is ahead of   *)
(* the first output, compared with the ratio of their rates                *)
ComputeIoLatencies ==
  /\ stage = "allocated"
  /\ latency' = compute_io_latencies(prog, tiling, period)
  /\ stage' = "timed"
  /\ UNCHANGED <<source, prog, opt, tiling, period, buffer_size, code>>

(* The code for prelude and period, and the buffers it needs               *)
GenerateCode ==
  /\ stage = "timed"
  /\ code' = Generated(prog, tiling, period, buffer_size, opt)
  /\ stage' = "done"
  /\ UNCHANGED <<source, prog, opt, tiling, period, buffer_size, latency>>

Next ==
  \/ DropUnreadInstances
  \/ MakePeriodicSchedule
  \/ ScheduleOutOfOrder
  \/ ScheduleNotSteady
  \/ AllocateStorage
  \/ AllocationFails
  \/ ComputeIoLatencies
  \/ GenerateCode

Spec == Init /\ [][Next]_vars
-----------------------------------------------------------------------------
(* The types, with what later passes rely on: the period is not empty and  *)
(* no buffer is generated smaller than it was allocated.                   *)
TypeOK ==
  /\ source \in Programs
  /\ opt \in Options
  /\ stage \in {"generated", "useful", "scheduled", "allocated", "timed", "done"} \cup Errors
  /\ stage \in {"scheduled", "allocated", "timed", "done"} =>
       tiling.offset \in Nat /\ tiling.size \in Nat \ {0}
  /\ stage \in {"allocated", "timed", "done"} => buffer_size \in [Arrays(prog) -> Nat \ {0}]
  /\ stage \in {"timed", "done"} => DOMAIN latency = Inputs(prog)
  /\ stage = "done" =>
       \A a \in Arrays(prog) : code.buffers[a].cells >= buffer_size[a]

(* The storage allocator's assumption: "There are no writes unrelated to   *)
(* any reads."  The pass that drops unread instances is there for it.      *)
WritesAreRead == stage # "generated" => NoUnrelatedWrites(prog)

(* What the dropped instances wrote is missed by nobody that is left.      *)
NothingMissing ==
  RespectsDataFlow(source) /\ stage # "generated" => RespectsDataFlow(prog)

(* From the period offset on everything repeats: each statement accesses,  *)
(* a period later, what lies period[a] elements further in array a.  The   *)
(* generated code for one period stands for all of them because of this.   *)
AccessesRepeat ==
  stage \in {"allocated", "timed", "done"} /\ Periodic(prog) =>
    \A a \in Arrays(prog) :
      LET \* accesses of the infinite part, as <<element, key>>
          accesses == {c \in Written(prog, a) \cup ReadOut(prog, a) :
                         c[2] >= KeyOfTime(prog, tiling.offset)}
          ahead(c) == <<c[1] + period[a], c[2] + tiling.size * Len(prog.stmts)>>
          back(c)  == <<c[1] - period[a], c[2] - tiling.size * Len(prog.stmts)>>
      IN  \A c \in accesses :
            /\ ahead(c)[2] < KeyOfTime(prog, Horizon) => ahead(c) \in accesses
            /\ back(c)[2] >= KeyOfTime(prog, tiling.offset) => back(c) \in accesses

(* Elements live together keep apart once their indices have been wrapped, *)
(* also in a buffer whose size was rounded up.                             *)
WrappingKeepsApart ==
  stage = "done" =>
    \A a \in Arrays(prog) : code.buffers[a].wraps =>
      \A d \in ConflictDistances(Written(prog, a), ReadOut(prog, a)) :
        d # 0 => d % code.buffers[a].cells # 0

(* A buffer on the stack lives for one call.  Whatever is read out of it   *)
(* in any call, of the prelude or of any period, was put there by that     *)
(* call, although only the first period has been looked at.                *)
CallOf(key) ==
  IF ~Periodic(prog) \/ key < KeyOfTime(prog, tiling.offset) THEN 0
  ELSE 1 + (key - KeyOfTime(prog, tiling.offset)) \div (tiling.size * Len(prog.stmts))

StackIsTransient ==
  stage = "done" =>
    \A a \in Arrays(prog) : code.buffers[a].on_stack =>
      \A r \in ReadOut(prog, a) :
        \E w \in Written(prog, a) : w[1] = r[1] /\ CallOf(w[2]) = CallOf(r[2])

(* The last element of input n that each instance depends on, through      *)
(* whatever others, or -1                                                  *)
LatestNeeded(p, n) ==
  LET instances == Instances(p)
      writersOf(array, x) ==
        {w \in instances : \E a \in Writes(p.stmts[w[1]]) : a.array = array /\ Index(a, w[2]) = x}
      latest[e \in instances] ==
        IF e[1] = n THEN e[2]
        ELSE Max({-1} \cup UNION {{latest[w] : w \in writersOf(a.array, Index(a, e[2]))} :
                                    a \in Reads(p.stmts[e[1]])})
  IN  latest

(* Latencies are whole numbers, and a client that keeps every input        *)
(* `latency' elements ahead of the first output, by the ratio of their     *)
(* rates, hands in all that output needs.                                  *)
LatenciesSuffice ==
  stage = "timed" =>
    /\ latency \in [Inputs(prog) -> Int]
    /\ \A in \in Endless(prog, Inputs(prog)) : \A out \in FirstOutput(prog) :
         LET needed == LatestNeeded(prog, in) IN
         \A e \in {d \in DOMAIN needed : d[1] = out /\ needed[d] >= 0} :
           needed[e] <= Expected(prog, period, in, out, e[2]) + latency[in]

(* A program is turned down only for good reason: an infinite part is not  *)
(* the last, or the elements of an array live together at distances that   *)
(* grow for ever.                                                          *)
RejectedForGoodReason ==
  stage \in Errors =>
    \/ \E b \in InfiniteBands(prog) : \E c \in Bands(prog) : b < c
    \/ \E a \in Arrays(prog) :
         LargestDistance(prog, a, KeyOfTime(prog, Horizon \div 2))
           < LargestDistance(prog, a, KeyOfTime(prog, Horizon))

(* "assert_or_throw(min_i0.is_integer())": an infinite array is accessed   *)
(* in the period.                                                          *)
InfiniteArraysAccessed == stage # NotAccessed
=============================================================================
