--------------------------- MODULE MCStorageAlloc ---------------------------
(***************************************************************************)
(* Allocation problems for TLC: a two-dimensional array x[i, j], infinite  *)
(* in i and with Width columns, whose element x[i, j] is written at the    *)
(* two-dimensional time (a . (i,j), b . (i,j)) and last read a fixed       *)
(* latency later.  "Earlier" is the lexicographic order of times, which    *)
(* isl represents by one piece per time dimension.                         *)
(***************************************************************************)
EXTENDS StorageAlloc

CONSTANTS
  MinSkew,    (* coefficients of j in the times are in -MinSkew..MaxSkew;  *)
  MaxSkew,    (* isl prefers non-negative ones but does not promise them   *)
  MaxRate,    (* coefficients of i in the times are in 0..MaxRate          *)
  MaxLatency, (* latencies are in 0..MaxLatency per dimension              *)
  Window,     (* distances in i considered, besides the unbounded one      *)
  Width

Skews   == (-MinSkew)..MaxSkew
Columns == (-(Width - 1))..(Width - 1)
Rows    == ((-Window)..Window) \cup {-Infinity, Infinity}
Box     == {<<i, j>> : i \in Rows, j \in Columns}

Dot(c, d) == c[1] * d[1] + c[2] * d[2]

Later(s)     == {d \in Box : Dot(s.a, d) + s.latency[1] > 0}
SameLater(s) == {d \in Box : /\ Dot(s.a, d) + s.latency[1] = 0
                             /\ Dot(s.b, d) + s.latency[2] > 0}
EqualTime(s) == {d \in Box : Dot(s.a, d) = 0 /\ Dot(s.b, d) = 0}

Schedules ==
  {s \in [a : (1..MaxRate) \X Skews,
          b : (0..MaxRate) \X Skews,
          latency : ((0..MaxLatency) \cup {MaxRate * Infinity + Window})
                      \X ((-MaxLatency)..MaxLatency)] :
     \* distinct elements are written at distinct times
     /\ s.a[1] * s.b[2] # s.a[2] * s.b[1]
     \* an element is read after it is written
     /\ s.latency[1] > 0 \/ s.latency[2] > 0
     \* distances of live pairs lie inside the window or are unbounded
     /\ \A d \in Later(s) \cup SameLater(s) :
          (Abs(d[1]) = Window /\ Neg(d) \in Later(s) \cup SameLater(s))
            => s.latency[1] > MaxLatency}

Pieces(s) == {<<Later(s), SameLater(s)>>, <<SameLater(s), Later(s)>>}

(* Columns computed by a parallel loop are touched together.               *)
ParallelColumns == {<<0, j>> : j \in Columns}

ScheduledProblems ==
  UNION {{[pieces |-> p, equal |-> EqualTime(s), parallel |-> q] :
            p \in Pieces(s), q \in {{}, ParallelColumns}} : s \in Schedules}

UnwrittenProblem == [pieces |-> <<>>, equal |-> {}, parallel |-> {}]

MCProblems == ScheduledProblems \cup {UnwrittenProblem}
=============================================================================
