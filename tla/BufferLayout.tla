---------------------------- MODULE BufferLayout ----------------------------
(***************************************************************************)
(* Storage for the arrays of a scheduled program: what                     *)
(* polyhedral/storage_alloc.cpp finds out about an array, and how          *)
(* buffer_analysis in cpp/cpp_target.cpp turns that into a buffer of the   *)
(* generated class: its number of cells, whether indices wrap, whether a   *)
(* phase or a shift of the data moves it along, and where it is kept.      *)
(***************************************************************************)
EXTENDS Scheduling

CONSTANT StackLimit   (* bytes of buffers kept on the stack, 1024          *)
ASSUME StackLimitAssumption == StackLimit \in Nat

(* <<element, key>> for each access before the horizon                     *)
Written(p, array) ==
  UNION {{<<Index(a, e[2]), Key(p, e)>> :
            a \in {b \in Writes(p.stmts[e[1]]) : b.array = array}} :
           e \in Instances(p)}
ReadOut(p, array) ==
  UNION {{<<Index(a, e[2]), Key(p, e)>> :
            a \in {b \in Reads(p.stmts[e[1]]) : b.array = array}} :
           e \in Instances(p)}

Distance(x, y) == IF x < y THEN y - x ELSE x - y

(* Elements that are written and read: <<element, first write, last read>> *)
Lifetimes(written, read) ==
  {<<x, Min({w[2] : w \in {v \in written : v[1] = x}}),
        Max({r[2] : r \in {v \in read : v[1] = x}})>> :
     x \in {w[1] : w \in written} \cap {r[1] : r \in read}}

(* Distances of elements each written before a read of the other, or       *)
(* accessed at the same time; StorageAlloc looks into how they are found.  *)
ConflictDistances(written, read) ==
  LET lives == Lifetimes(written, read)
      pairs == {c \in lives \X lives : c[1][2] < c[2][3] /\ c[2][2] < c[1][3]}
      together(accesses) ==
        {c \in accesses \X accesses : c[1][2] = c[2][2]}
  IN  {Distance(c[1][1], c[2][1]) :
         c \in pairs \cup together(written) \cup together(read)}

(* compute_buffer_size, for one dimension.  The distance is unbounded if   *)
(* looking one period further ahead still makes it larger.                 *)
Unbounded == -1
LargestDistance(p, array, until) ==
  Max({0} \cup
      ConflictDistances({w \in Written(p, array) : w[2] < until},
                        {r \in ReadOut(p, array) : r[2] < until}))

KeyOfTime(p, t) == (2 * Horizon * LastBand(p) + t) * Len(p.stmts)

(* Mutated: the distance itself taken for the size                         *)
FarthestDistance(p, tiling, array) ==
  LET near == LargestDistance(p, array, KeyOfTime(p, Horizon - tiling.size))
      far  == LargestDistance(p, array, KeyOfTime(p, Horizon))
  IN  IF Periodic(p) /\ far > near THEN Unbounded ELSE far

compute_buffer_size(p, tiling, array) ==
  LET near == LargestDistance(p, array, KeyOfTime(p, Horizon - tiling.size))
      far  == LargestDistance(p, array, KeyOfTime(p, Horizon))
  IN  IF Periodic(p) /\ far > near THEN Unbounded ELSE far + 1

(* find_inter_period_dependency: does the first period read what it does   *)
(* not write, and which elements does it reach?                            *)
ElementsAccessed(accesses, keys) ==
  {a[1] : a \in {b \in accesses : b[2] \in keys}}

(* Mutated: the dependency looked for the wrong way round                  *)
UnreadInPeriod(p, tiling, array) ==
  LET keys    == {Key(p, e) : e \in {d \in Instances(p) : InFirstPeriod(p, tiling, d)}}
      written == ElementsAccessed(Written(p, array), keys)
      read    == ElementsAccessed(ReadOut(p, array), keys)
  IN  [elements |-> written \cup read,
       inter_period_dependency |-> written \ read # {}]

AccessInPeriod(p, tiling, array) ==
  LET keys    == {Key(p, e) : e \in {d \in Instances(p) : InFirstPeriod(p, tiling, d)}}
      written == ElementsAccessed(Written(p, array), keys)
      read    == ElementsAccessed(ReadOut(p, array), keys)
  IN  [elements |-> written \cup read,
       inter_period_dependency |-> read \ written # {}]

-----------------------------------------------------------------------------
(* Mutated: the power of two below n                                       *)
PowerOfTwoBelow(n) ==
  CHOOSE m \in {2^e : e \in 0..n} : m <= n /\ 2 * m > n

next_power_of_two(n) ==
  CHOOSE m \in {2^e : e \in 0..n} : m >= n /\ m < 2 * n

CeilDiv(n, d) == (n + d - 1) \div d

(* What a buffer is when nothing has to move and no index wraps            *)
Plain(cells) ==
  [cells |-> cells, wraps |-> FALSE, has_phase |-> FALSE,
   shift |-> [period_count |-> 1, size |-> 0, source |-> 0],
   on_stack |-> FALSE]

(* Mutated: room for one period only                                       *)
ShiftingTooLate(period, first, last) ==
  LET overlap     == last - (first + period) + 1
      num_periods == Max({1, CeilDiv(10 * overlap, last - first + 1)})
  IN  IF overlap > 0
      THEN [Plain(last + period + 1) EXCEPT
              !.has_phase = TRUE,
              !.shift = [period_count |-> num_periods, size |-> overlap,
                         source |-> first + num_periods * period]]
      ELSE Plain(last + period + 1)

(* Option buffer_data_shifting: the elements move down to the start of the *)
(* buffer every few periods, so that no more than a tenth of the accessed  *)
(* ones is copied per period.                                              *)
ShiftingBuffer(period, first, last) ==
  LET period_size == last - first + 1
      overlap     == last - (first + period) + 1
      num_periods == Max({1, CeilDiv(10 * overlap, period_size)})
  IN  IF overlap > 0
      THEN [Plain(last + num_periods * period + 1) EXCEPT
              !.has_phase = TRUE,
              !.shift = [period_count |-> num_periods, size |-> overlap,
                         source |-> first + num_periods * period]]
      ELSE Plain(last + period + 1)

(* Mutated: a phase for a buffer with indices that do not wrap             *)
PhaseWithoutWrap(period, size) ==
  [Plain(size) EXCEPT !.has_phase = period % size # 0]

WrappingBuffer(period, size) ==
  [Plain(size) EXCEPT !.wraps = TRUE, !.has_phase = period % size # 0]

Rounded(size, opt) ==
  IF opt.data_size_power_of_two THEN next_power_of_two(size) ELSE size

BufferFor(array, size, period, accessed, opt) ==
  IF size <= 1 THEN Plain(size)
  ELSE IF array.is_infinite
  THEN IF opt.buffer_data_shifting
       THEN ShiftingBuffer(period, Min(accessed), Max(accessed))
       ELSE WrappingBuffer(period, Rounded(size, opt))
  ELSE IF array.size > size
       THEN [Plain(Rounded(size, opt)) EXCEPT !.wraps = TRUE]
       ELSE Plain(size)

(* Buffers that need not outlive a period are put on the stack, those with *)
(* the fewest cells first, as long as they fit in.                         *)
StackBuffers(p, buffers, candidates) ==
  LET bySize == SetToSortSeq(candidates,
                  LAMBDA a, b : \/ buffers[a].cells < buffers[b].cells
                                \/ buffers[a].cells = buffers[b].cells /\ a < b)
      place(acc, a) ==
        LET mem_size == buffers[a].cells * p.arrays[a].elem_size
        IN  IF acc.bytes + mem_size < StackLimit
            THEN [bytes |-> acc.bytes + mem_size, placed |-> acc.placed \cup {a}]
            ELSE acc
      onStack == FoldLeft(place, [bytes |-> 0, placed |-> {}], bySize).placed
  IN  {a \in candidates : a \in onStack}

(* buffer_analysis: the buffers of all arrays                              *)
Layout(p, tiling, period, size, opt) ==
  LET access    == [a \in Arrays(p) |-> AccessInPeriod(p, tiling, a)]
      laidOut   == [a \in Arrays(p) |->
                      BufferFor(p.arrays[a], size[a], period[a], access[a].elements, opt)]
      transient == {a \in Arrays(p) : ~access[a].inter_period_dependency}
      onStack   == StackBuffers(p, laidOut, transient)
  IN  [a \in Arrays(p) |-> [laidOut[a] EXCEPT !.on_stack = a \in onStack]]

(* cpp_gen::generate: what the generated class consists of                 *)
Generated(p, tiling, period, size, opt) ==
  [prog        |-> p,
   period_size |-> tiling.size,
   prelude     |-> Prelude(p, tiling),
   period      |-> Period(p, tiling),
   advance     |-> period,
   buffers     |-> Layout(p, tiling, period, size, opt)]
=============================================================================
