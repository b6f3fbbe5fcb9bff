---------------------------- MODULE StorageAlloc ----------------------------
(***************************************************************************)
(* Sizing of one array's buffer: polyhedral/storage_alloc.cpp,             *)
(* storage_allocator::compute_buffer_size and the functions it calls.      *)
(*                                                                         *)
(* The allocator looks for pairs of array elements that are live at the    *)
(* same time, reduces each pair to its distance vector, and picks a buffer *)
(* size per dimension such that an element may be stored at its index      *)
(* modulo the buffer size.  All relations here are invariant under a       *)
(* translation of the array, so a relation between elements is the set of  *)
(* its distances (y - x).  isl hands the precedence relation over as a     *)
(* sequence of basic maps ("pieces"); how it splits and orders them is not *)
(* the allocator's choice and comes in with the problem.                   *)
(***************************************************************************)
EXTENDS Integers, Sequences

CONSTANTS
  NDims,     (* number of dimensions of the array                          *)
  Infinity,  (* a distance standing for "unbounded": isl's maximum over it *)
             (* is not an integer                                          *)
  Problems   (* arrays to allocate: what isl knows about their accesses    *)

Dims  == 1..NDims
Delta == [Dims -> (-Infinity)..Infinity]
Zero  == [k \in Dims |-> 0]
Neg(d) == [k \in Dims |-> -d[k]]
Inverse(S) == {Neg(d) : d \in S}

(* A problem: the pieces of "some write of x precedes some read of y", the *)
(* distances of elements written, or read, at equal times, and those of    *)
(* elements that parallel loop iterations touch together.                  *)
Problem ==
  [pieces : Seq(SUBSET Delta), equal : SUBSET Delta, parallel : SUBSET Delta]

ASSUME StorageAssumption ==
  /\ NDims \in Nat \ {0}
  /\ Infinity \in Nat \ {0}
  /\ Problems \subseteq Problem
  \* an element is written at the same time as itself
  /\ \A p \in Problems : p.equal # {} => Zero \in p.equal

VARIABLES
  problem,      (* the array being allocated                               *)
  classic,      (* option m_classic: successive modulo only                *)
  stage,        (* where compute_buffer_size is                            *)
  dim,          (* the loop variable of the current stage                  *)
  deltas,       (* the working set of distances                            *)
  buffer_size   (* array->buffer_size                                      *)

vars == <<problem, classic, stage, dim, deltas, buffer_size>>

-----------------------------------------------------------------------------
(* Mutated: never intersects a piece with its own inverse                  *)
EarlierPiecesOnly(p) ==
  UNION {UNION {p.pieces[i] \cap Inverse(p.pieces[j]) : j \in 1..(i - 1)} :
           i \in DOMAIN p.pieces}

(* Mutated: one of the two orders is enough for a conflict                 *)
PrecedenceAlone(p) == UNION {p.pieces[i] : i \in DOMAIN p.pieces}

(* compute_conflicts intersects piece i with the inverse of piece j only   *)
(* for j <= i, and leaves the inverse conflict out.                        *)
ComputeConflicts(p) ==
  UNION {UNION {p.pieces[i] \cap Inverse(p.pieces[j]) : j \in 1..i} :
           i \in DOMAIN p.pieces}

AllConflicts(p) == ComputeConflicts(p) \cup p.equal \cup p.parallel

(* absolute_values keeps what is non-negative in every dimension, and adds *)
(* a copy with one non-positive dimension negated, for each such dimension *)
AbsoluteValues(S) ==
  {d \in S : \A k \in Dims : d[k] >= 0}
    \cup UNION {{[d EXCEPT ![k] = -d[k]] : d \in {e \in S : e[k] <= 0}} :
                  k \in Dims}

(* isl's maximum of one coordinate over a set                              *)
IsMaximum(m, S, k) ==
  /\ \E d \in S : d[k] = m
  /\ \A d \in S : d[k] <= m

ExclusiveTo(S, k) == {d \in S : \A j \in Dims \ {k} : d[j] = 0}
(* Mutated: a distance of exactly the size passes for satisfied            *)
BeyondSize(S, size) ==
  {d \in S : \A k \in Dims : d[k] > size[k] \/ d[k] = 0}
Unsatisfied(S, size) ==
  {d \in S : \A k \in Dims : d[k] >= size[k] \/ d[k] = 0}

(* Mutated: the cell the distance starts from is forgotten, or counted twice *)
SizeWithoutFirst(m) == m
SizeWithSpare(m) == m + 2

(* The size that separates elements up to m apart                          *)
SizeFor(m) == m + 1
-----------------------------------------------------------------------------
Init ==
  /\ problem \in Problems
  /\ classic \in BOOLEAN
  /\ stage = "conflicts"
  /\ dim = 1
  /\ deltas = {}
  /\ buffer_size = [k \in Dims |-> 1]

(* "Array ... has readers but no writers": nothing is written at any time. *)
NoWriters ==
  /\ stage = "conflicts"
  /\ problem.equal = {}
  /\ stage' = "error"
  /\ UNCHANGED <<problem, classic, dim, deltas, buffer_size>>

FindConflicts ==
  /\ stage = "conflicts"
  /\ problem.equal # {}
  /\ deltas' = AbsoluteValues(AllConflicts(problem))
  /\ stage' = IF classic THEN "modulo" ELSE "exclusive"
  /\ UNCHANGED <<problem, classic, dim, buffer_size>>

(* One iteration over the dimensions: the least size that separates the    *)
(* conflicts no other dimension can separate.                              *)
SizeExclusive ==
  /\ stage = "exclusive"
  /\ \E m \in (-Infinity)..Infinity :
       /\ IsMaximum(m, ExclusiveTo(deltas, dim), dim)
       /\ \/ /\ m = Infinity
             /\ stage' = "error"
             /\ UNCHANGED <<dim, buffer_size>>
          \/ /\ m # Infinity
             /\ buffer_size' = [buffer_size EXCEPT ![dim] = SizeFor(m)]
             /\ dim' = IF dim = NDims THEN 1 ELSE dim + 1
             /\ stage' = IF dim = NDims THEN "exclude" ELSE "exclusive"
  /\ UNCHANGED <<problem, classic, deltas>>

ExcludeSatisfied ==
  /\ stage = "exclude"
  /\ deltas' = Unsatisfied(deltas, buffer_size)
  /\ stage' = IF deltas' = {} THEN "done" ELSE "modulo"
  /\ UNCHANGED <<problem, classic, dim, buffer_size>>

(* One iteration of successive modulo; the loop also ends when no distance *)
(* is left.                                                                *)
ExpandDimension ==
  /\ stage = "modulo"
  /\ \E m \in (-Infinity)..Infinity :
       /\ IsMaximum(m, deltas, dim)
       /\ \/ /\ m = Infinity
             /\ stage' = "error"
             /\ UNCHANGED <<dim, deltas, buffer_size>>
          \/ /\ m # Infinity
             /\ buffer_size' =
                  [buffer_size EXCEPT ![dim] =
                     IF SizeFor(m) > @ THEN SizeFor(m) ELSE @]
             /\ deltas' = {d \in deltas : d[dim] = 0}
             /\ dim' = IF dim = NDims THEN 1 ELSE dim + 1
             /\ stage' = IF dim = NDims \/ deltas' = {} THEN "done" ELSE "modulo"
  /\ UNCHANGED <<problem, classic>>

Next ==
  \/ NoWriters
  \/ FindConflicts
  \/ SizeExclusive
  \/ ExcludeSatisfied
  \/ ExpandDimension

Spec == Init /\ [][Next]_vars
-----------------------------------------------------------------------------
(* What "live at the same time" means, by the comment in                   *)
(* compute_buffer_size: each is written before the other's read.  Elements *)
(* accessed at equal times or in parallel count as well.                   *)
Live(p) ==
  LET precedence == UNION {p.pieces[i] : i \in DOMAIN p.pieces}
  IN  (precedence \cap Inverse(precedence)) \cup p.equal \cup p.parallel

Abs(x) == IF x < 0 THEN -x ELSE x

AbsVec(d) == [k \in Dims |-> Abs(d[k])]

(* Modulo the buffer size in dimension k two elements at distance d differ, *)
(* and they still do if the code generator rounds the size up.             *)
SeparatedBy(size, d) == \E k \in Dims : 0 < Abs(d[k]) /\ Abs(d[k]) < size[k]

(* The types.  Sizes stay within what one distance calls for: a dimension  *)
(* is never expanded by an unbounded distance.                             *)
TypeOK ==
  /\ problem \in Problems
  /\ classic \in BOOLEAN
  /\ stage \in {"conflicts", "exclusive", "exclude", "modulo", "done", "error"}
  /\ dim \in Dims
  /\ deltas \in SUBSET Delta
  /\ buffer_size \in [Dims -> 1..Infinity]

(* The distances the sizes are computed from contain that of every two     *)
(* elements live together, as a vector of absolute values.  Two comments   *)
(* promise it: compute_conflicts yields "all pairs of array elements (x,y) *)
(* such that wx R ry and wy R rx", absolute_values the "absolute values of *)
(* distances".                                                             *)
DistancesFound ==
  stage = "conflicts" /\ problem.equal # {} =>
    \A d \in Live(problem) :
      AbsVec(d) \in AbsoluteValues(AllConflicts(problem))

(* Two elements that are live together never share a cell of the buffer,   *)
(* whether its sizes are the computed ones or larger (powers of two, or the *)
(* whole extent of the array).                                             *)
AllocationSafe ==
  stage = "done" =>
    \A d \in Live(problem) : d # Zero => SeparatedBy(buffer_size, d)

(* The buffer is never longer in a dimension than the distance between the *)
(* two farthest elements live together calls for.                          *)
NoLargerThanNeeded ==
  stage = "done" =>
    \A k \in Dims : \E d \in Live(problem) : buffer_size[k] <= Abs(d[k]) + 1

(* Allocation is given up only for an array without writers or one with    *)
(* elements that stay live unboundedly long.                               *)
ErrorJustified ==
  stage = "error" =>
    \/ problem.equal = {}
    \/ \E d \in Live(problem), k \in Dims : Abs(d[k]) = Infinity
=============================================================================
