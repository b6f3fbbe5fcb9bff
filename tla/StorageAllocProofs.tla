------------------------- MODULE StorageAllocProofs -------------------------
(***************************************************************************)
(* Proofs about the buffer sizes of StorageAlloc, for arrays of any number *)
(* of dimensions and any sets of conflicts.                                *)
(***************************************************************************)
EXTENDS StorageAlloc, TLAPS

(* What each stage knows: the distances it still has to work on contain    *)
(* every live one that the sizes found so far do not separate.             *)
Remaining ==
  stage \in {"exclusive", "exclude"} =>
    \A d \in Live(problem) : AbsVec(d) \in deltas

Settled ==
  stage = "modulo" =>
    \A d \in Live(problem) :
      d # Zero => SeparatedBy(buffer_size, d) \/ AbsVec(d) \in deltas

Swept ==
  stage = "modulo" => \A e \in deltas, k \in Dims : k < dim => e[k] = 0

ZeroKept ==
  stage \in {"exclusive", "exclude", "modulo"} => Zero \in deltas

AtStart == stage = "conflicts" => dim = 1
AtTurn  == stage = "exclude" => dim = 1

IInv ==
  /\ TypeOK
  /\ AtStart
  /\ AtTurn
  /\ ZeroKept
  /\ Remaining
  /\ Settled
  /\ Swept
  /\ AllocationSafe

-----------------------------------------------------------------------------
LEMMA DeltaTypes ==
  ASSUME NEW d \in Delta
  PROVE  /\ AbsVec(d) \in Delta
         /\ Neg(d) \in Delta
         /\ \A k \in Dims : AbsVec(d)[k] >= 0
         /\ \A k \in Dims : AbsVec(d)[k] = Abs(d[k])
  BY StorageAssumption DEF AbsVec, Neg, Abs, Delta

LEMMA LiveType ==
  ASSUME NEW p \in Problems
  PROVE  Live(p) \in SUBSET Delta
<1>1. p \in Problem
  BY StorageAssumption
<1>2. UNION {p.pieces[i] : i \in DOMAIN p.pieces} \in SUBSET Delta
  BY <1>1 DEF Problem
<1>3. p.equal \in SUBSET Delta /\ p.parallel \in SUBSET Delta
  BY <1>1 DEF Problem
<1> QED
  BY <1>2, <1>3 DEF Live

LEMMA ConflictsType ==
  ASSUME NEW p \in Problems
  PROVE  AllConflicts(p) \in SUBSET Delta
<1>1. p \in Problem
  BY StorageAssumption
<1>2. \A i \in DOMAIN p.pieces : p.pieces[i] \in SUBSET Delta
  BY <1>1 DEF Problem
<1>3. ComputeConflicts(p) \in SUBSET Delta
  BY <1>2 DEF ComputeConflicts
<1>4. p.equal \in SUBSET Delta /\ p.parallel \in SUBSET Delta
  BY <1>1 DEF Problem
<1> QED
  BY <1>3, <1>4 DEF AllConflicts

LEMMA AbsoluteValuesType ==
  ASSUME NEW S \in SUBSET Delta
  PROVE  AbsoluteValues(S) \in SUBSET Delta
<1>1. ASSUME NEW d \in S, NEW k \in Dims
      PROVE  [d EXCEPT ![k] = -d[k]] \in Delta
  BY StorageAssumption DEF Delta
<1> QED
  BY <1>1 DEF AbsoluteValues

LEMMA ZeroDelta ==
  /\ Zero \in Delta
  /\ \A k \in Dims : Zero[k] = 0
  /\ \A d \in Delta : d # Zero => \E k \in Dims : d[k] # 0
  BY StorageAssumption DEF Zero, Delta

-----------------------------------------------------------------------------
LEMMA InitIInv == Init => IInv
  BY StorageAssumption
  DEF Init, IInv, TypeOK, AtStart, AtTurn, ZeroKept, Remaining, Settled, Swept,
      AllocationSafe, Dims, Delta

(* Finding the conflicts: this is where the distances must not be lost.    *)
LEMMA FindConflictsIInv ==
  ASSUME IInv, DistancesFound, FindConflicts
  PROVE  IInv'
<1>1. /\ problem \in Problems /\ problem' = problem /\ problem.equal # {}
      /\ deltas' = AbsoluteValues(AllConflicts(problem))
      /\ buffer_size' = buffer_size
      /\ dim' = dim /\ dim = 1 /\ classic' = classic
      /\ stage = "conflicts" /\ stage' \in {"modulo", "exclusive"}
  BY DEF FindConflicts, IInv, TypeOK, AtStart
<1>2. deltas' \in SUBSET Delta
  BY <1>1, ConflictsType, AbsoluteValuesType
<1>3. TypeOK'
  BY <1>1, <1>2 DEF IInv, TypeOK
<1>4. \A d \in Live(problem) : AbsVec(d) \in deltas'
  BY <1>1 DEF DistancesFound
<1>5. Zero \in deltas'
  <2>1. Zero \in AllConflicts(problem)
    BY <1>1, StorageAssumption DEF AllConflicts
  <2> QED
    BY <1>1, <2>1, ZeroDelta DEF AbsoluteValues
<1>6. \A k \in Dims : ~(k < 1)
  BY DEF Dims
<1> QED
  BY <1>1, <1>3, <1>4, <1>5, <1>6
  DEF IInv, AtStart, AtTurn, ZeroKept, Remaining, Settled, Swept, AllocationSafe

LEMMA SizeExclusiveIInv ==
  ASSUME IInv, SizeExclusive
  PROVE  IInv'
<1> USE DEF SizeFor
<1>1. /\ problem \in Problems /\ problem' = problem
      /\ deltas' = deltas /\ deltas \in SUBSET Delta
      /\ stage = "exclusive" /\ classic' = classic
      /\ stage' \in {"error", "exclude", "exclusive"}
      /\ Zero \in deltas
  BY DEF SizeExclusive, IInv, TypeOK, ZeroKept
<1>2. dim \in Dims /\ NDims \in Nat \ {0} /\ Infinity \in Nat \ {0}
  BY StorageAssumption DEF IInv, TypeOK
<1>3. PICK m \in (-Infinity)..Infinity :
        /\ IsMaximum(m, ExclusiveTo(deltas, dim), dim)
        /\ \/ /\ m = Infinity
              /\ stage' = "error"
              /\ UNCHANGED <<dim, buffer_size>>
           \/ /\ m # Infinity
              /\ buffer_size' = [buffer_size EXCEPT ![dim] = m + 1]
              /\ dim' = IF dim = NDims THEN 1 ELSE dim + 1
              /\ stage' = IF dim = NDims THEN "exclude" ELSE "exclusive"
  BY DEF SizeExclusive
<1>4. m >= 0
  <2>1. Zero \in ExclusiveTo(deltas, dim)
    BY <1>1, ZeroDelta DEF ExclusiveTo
  <2> QED
    BY <1>2, <1>3, <2>1, ZeroDelta DEF IsMaximum
<1>5. TypeOK'
  BY <1>1, <1>2, <1>3, <1>4 DEF IInv, TypeOK, Dims
<1>6. AtTurn'
  BY <1>3, <1>1 DEF AtTurn
<1> QED
  BY <1>1, <1>5, <1>6
  DEF IInv, AtStart, ZeroKept, Remaining, Settled, Swept, AllocationSafe

LEMMA ExcludeSatisfiedIInv ==
  ASSUME IInv, ExcludeSatisfied
  PROVE  IInv'
<1>1. /\ problem \in Problems /\ problem' = problem
      /\ deltas \in SUBSET Delta
      /\ deltas' = Unsatisfied(deltas, buffer_size)
      /\ stage = "exclude" /\ classic' = classic
      /\ dim' = dim /\ dim = 1 /\ dim \in Dims
      /\ buffer_size' = buffer_size /\ buffer_size \in [Dims -> 1..Infinity]
      /\ Zero \in deltas
  BY DEF ExcludeSatisfied, IInv, TypeOK, ZeroKept, AtTurn
<1>2. Zero \in deltas'
  BY <1>1, ZeroDelta DEF Unsatisfied
<1>3. stage' = "modulo"
  BY <1>2 DEF ExcludeSatisfied
<1>4. TypeOK'
  BY <1>1, <1>3 DEF IInv, TypeOK, Unsatisfied
<1>5. Settled'
  <2> SUFFICES ASSUME NEW d \in Live(problem), AbsVec(d) \notin deltas'
               PROVE  SeparatedBy(buffer_size, d)
    BY <1>1 DEF Settled
  <2>1. d \in Delta /\ AbsVec(d) \in deltas
    BY <1>1, LiveType DEF IInv, Remaining
  <2>2. PICK k \in Dims : ~(AbsVec(d)[k] >= buffer_size[k]) /\ AbsVec(d)[k] # 0
    BY <1>1, <2>1 DEF Unsatisfied
  <2>3. AbsVec(d)[k] >= 0 /\ AbsVec(d)[k] = Abs(d[k]) /\ Abs(d[k]) \in Int
    BY <2>1, DeltaTypes, StorageAssumption DEF Delta, Abs
  <2>4. buffer_size[k] \in Int
    BY <1>1, StorageAssumption
  <2> QED
    BY <2>2, <2>3, <2>4 DEF SeparatedBy
<1>6. Swept'
  BY <1>1 DEF Swept, Dims
<1> QED
  BY <1>1, <1>2, <1>3, <1>4, <1>5, <1>6
  DEF IInv, AtStart, AtTurn, ZeroKept, Remaining, AllocationSafe

LEMMA ExpandDimensionIInv ==
  ASSUME IInv, ExpandDimension
  PROVE  IInv'
<1> USE DEF SizeFor
<1>1. /\ problem \in Problems /\ problem' = problem
      /\ deltas \in SUBSET Delta /\ Zero \in deltas
      /\ stage = "modulo" /\ classic' = classic /\ classic \in BOOLEAN
      /\ buffer_size \in [Dims -> 1..Infinity]
  BY DEF ExpandDimension, IInv, TypeOK, ZeroKept
<1>2. dim \in Dims /\ NDims \in Nat \ {0} /\ Infinity \in Nat \ {0}
  BY StorageAssumption DEF IInv, TypeOK
<1>3. PICK m \in (-Infinity)..Infinity :
        /\ IsMaximum(m, deltas, dim)
        /\ \/ /\ m = Infinity
              /\ stage' = "error"
              /\ UNCHANGED <<dim, deltas, buffer_size>>
           \/ /\ m # Infinity
              /\ buffer_size' = [buffer_size EXCEPT ![dim] =
                                   IF m + 1 > @ THEN m + 1 ELSE @]
              /\ deltas' = {d \in deltas : d[dim] = 0}
              /\ dim' = IF dim = NDims THEN 1 ELSE dim + 1
              /\ stage' = IF dim = NDims \/ deltas' = {} THEN "done"
                                                        ELSE "modulo"
  BY DEF ExpandDimension
<1>4. CASE m = Infinity
  BY <1>1, <1>2, <1>3, <1>4
  DEF IInv, TypeOK, AtStart, AtTurn, ZeroKept, Remaining, Settled, Swept,
      AllocationSafe
<1>5. CASE m # Infinity
  <2>1. /\ buffer_size' = [buffer_size EXCEPT ![dim] =
                             IF m + 1 > @ THEN m + 1 ELSE @]
        /\ deltas' = {d \in deltas : d[dim] = 0}
        /\ dim' = IF dim = NDims THEN 1 ELSE dim + 1
        /\ stage' = IF dim = NDims \/ deltas' = {} THEN "done" ELSE "modulo"
    BY <1>3, <1>5
  <2>2. m >= 0
    BY <1>1, <1>2, <1>3, ZeroDelta DEF IsMaximum
  <2>3. Zero \in deltas'
    BY <1>1, <1>2, <2>1, ZeroDelta
  <2>4. stage' = IF dim = NDims THEN "done" ELSE "modulo"
    BY <2>1, <2>3
  <2>5. buffer_size' \in [Dims -> 1..Infinity]
    BY <1>1, <1>2, <1>5, <2>1, <2>2
  <2>6. TypeOK'
    BY <1>1, <1>2, <2>1, <2>4, <2>5 DEF TypeOK, Dims
  <2>7. \A k \in Dims : buffer_size'[k] >= buffer_size[k]
    BY <1>1, <1>2, <2>1, <2>2
  <2>8. \A d \in Delta : SeparatedBy(buffer_size, d) => SeparatedBy(buffer_size', d)
    <3> SUFFICES ASSUME NEW d \in Delta, NEW k \in Dims,
                        0 < Abs(d[k]), Abs(d[k]) < buffer_size[k]
                 PROVE  SeparatedBy(buffer_size', d)
      BY DEF SeparatedBy
    <3>1. Abs(d[k]) \in Int /\ buffer_size[k] \in Int /\ buffer_size'[k] \in Int
      BY <1>1, <1>2, <2>5 DEF Abs, Delta
    <3>2. Abs(d[k]) < buffer_size'[k]
      BY <3>1, <2>7
    <3> QED
      BY <3>2 DEF SeparatedBy
  <2>9. ASSUME NEW d \in Live(problem), d # Zero
        PROVE  SeparatedBy(buffer_size', d) \/ AbsVec(d) \in deltas'
    <3>1. d \in Delta
      BY <1>1, LiveType
    <3>2. CASE SeparatedBy(buffer_size, d)
      BY <2>8, <3>1, <3>2
    <3>3. CASE AbsVec(d) \in deltas
      <4>1. CASE AbsVec(d)[dim] = 0
        BY <2>1, <3>3, <4>1
      <4>2. CASE AbsVec(d)[dim] # 0
        <5>1. AbsVec(d)[dim] > 0 /\ AbsVec(d)[dim] = Abs(d[dim])
          BY <1>2, <3>1, <4>2, DeltaTypes DEF Delta
        <5>2. AbsVec(d)[dim] <= m
          BY <1>3, <3>3 DEF IsMaximum
        <5>3. buffer_size'[dim] >= m + 1
          BY <1>1, <1>2, <2>1
        <5>4. Abs(d[dim]) < buffer_size'[dim]
          BY <1>2, <2>5, <3>1, <5>1, <5>2, <5>3, DeltaTypes DEF Delta
        <5> QED
          BY <1>2, <5>1, <5>4 DEF SeparatedBy
      <4> QED
        BY <4>1, <4>2
    <3> QED
      BY <1>1, <3>2, <3>3, <2>9 DEF IInv, Settled
  <2>10. ASSUME NEW e \in deltas', NEW k \in Dims, k <= dim
         PROVE  e[k] = 0
    <3>1. e \in deltas /\ e[dim] = 0
      BY <2>1
    <3>2. CASE k = dim
      BY <3>1, <3>2
    <3>3. CASE k < dim
      BY <1>1, <3>1, <3>3 DEF IInv, Swept
    <3> QED
      BY <1>2, <2>10, <3>2, <3>3 DEF Dims
  <2>11. Settled'
    BY <1>1, <2>9 DEF Settled
  <2>12. Swept'
    <3>1. CASE dim = NDims
      BY <2>4, <3>1 DEF Swept
    <3>2. CASE dim # NDims
      <4>1. dim' = dim + 1
        BY <2>1, <3>2
      <4>2. \A k \in Dims : k < dim + 1 => k <= dim
        BY <1>2 DEF Dims
      <4> QED
        BY <2>10, <4>1, <4>2 DEF Swept
    <3> QED
      BY <3>1, <3>2
  <2>13. AllocationSafe'
    <3> SUFFICES ASSUME dim = NDims, NEW d \in Live(problem), d # Zero
                 PROVE  SeparatedBy(buffer_size', d)
      BY <1>1, <2>4 DEF AllocationSafe
    <3>1. SUFFICES ASSUME AbsVec(d) \in deltas'
                   PROVE  FALSE
      BY <2>9
    <3>2. \A k \in Dims : AbsVec(d)[k] = 0
      BY <1>2, <2>10, <3>1 DEF Dims
    <3>3. d \in Delta
      BY <1>1, LiveType
    <3>4. \A k \in Dims : d[k] = 0
      BY <3>2, <3>3, DeltaTypes DEF Abs, Delta
    <3> QED
      BY <3>3, <3>4, ZeroDelta
  <2> QED
    BY <2>3, <2>4, <2>6, <2>11, <2>12, <2>13
    DEF IInv, AtStart, AtTurn, ZeroKept, Remaining
<1> QED
  BY <1>4, <1>5

-----------------------------------------------------------------------------
(* The steps of the allocator preserve the invariant, provided the         *)
(* distances it starts from are complete.                                  *)
LEMMA NextIInv ==
  ASSUME IInv, DistancesFound, [Next]_vars
  PROVE  IInv'
<1>1. CASE NoWriters
  BY <1>1
  DEF NoWriters, IInv, TypeOK, AtStart, AtTurn, ZeroKept, Remaining, Settled,
      Swept, AllocationSafe
<1>2. CASE UNCHANGED vars
  BY <1>2
  DEF vars, IInv, TypeOK, AtStart, AtTurn, ZeroKept, Remaining, Settled, Swept,
      AllocationSafe
<1> QED
  BY <1>1, <1>2, FindConflictsIInv, SizeExclusiveIInv, ExcludeSatisfiedIInv,
     ExpandDimensionIInv DEF Next

(* No two elements that are live together share a cell, for arrays of any  *)
(* number of dimensions, both variants of the algorithm and any larger     *)
(* sizes, as long as compute_conflicts and absolute_values lose no         *)
(* distance.                                                               *)
THEOREM AllocationIsSafe == Spec /\ []DistancesFound => []AllocationSafe
<1>1. IInv => AllocationSafe
  BY DEF IInv
<1>2. QED
  BY InitIInv, NextIInv, <1>1, PTL DEF Spec

(* An array with one dimension loses none: whichever of the two orders of  *)
(* a pair compute_conflicts finds, its distance is the only coordinate and *)
(* absolute_values negates it if need be.                                  *)
LEMMA OneDimensionDistances ==
  ASSUME NDims = 1, NEW p \in Problems, NEW d \in Live(p)
  PROVE  AbsVec(d) \in AbsoluteValues(AllConflicts(p))
<1>1. p \in Problem /\ d \in Delta /\ Dims = {1}
  BY StorageAssumption, LiveType DEF Dims
<1>2. d[1] \in Int /\ Abs(d[1]) >= 0
  BY <1>1, StorageAssumption DEF Delta, Abs
<1>3. d \in AllConflicts(p) \/ Neg(d) \in AllConflicts(p)
  <2>1. CASE d \in p.equal \/ d \in p.parallel
    BY <2>1 DEF AllConflicts
  <2>2. CASE ~(d \in p.equal \/ d \in p.parallel)
    <3>1. PICK i \in DOMAIN p.pieces : d \in p.pieces[i]
      BY <2>2 DEF Live
    <3>2. PICK e \in UNION {p.pieces[j] : j \in DOMAIN p.pieces} : d = Neg(e)
      BY <2>2 DEF Live, Inverse
    <3>3. PICK j \in DOMAIN p.pieces : e \in p.pieces[j]
      OBVIOUS
    <3>4. e \in Delta
      BY <1>1, <3>3 DEF Problem
    <3>5. Neg(d) = e
      BY <3>2, <3>4, StorageAssumption DEF Neg, Delta
    <3>6. i \in Nat /\ j \in Nat /\ i >= 1 /\ j >= 1
      BY <1>1 DEF Problem
    <3>7. CASE j <= i
      <4>1. d \in p.pieces[i] \cap Inverse(p.pieces[j])
        BY <3>1, <3>2, <3>3 DEF Inverse
      <4>2. j \in 1..i
        BY <3>6, <3>7
      <4> QED
        BY <4>1, <4>2 DEF AllConflicts, ComputeConflicts
    <3>8. CASE i <= j
      <4>1. e \in p.pieces[j] \cap Inverse(p.pieces[i])
        BY <3>1, <3>3, <3>5 DEF Inverse
      <4>2. i \in 1..j
        BY <3>6, <3>8
      <4> QED
        BY <3>5, <4>1, <4>2 DEF AllConflicts, ComputeConflicts
    <3> QED
      BY <3>6, <3>7, <3>8
  <2> QED
    BY <2>1, <2>2
<1>4. AbsVec(d) = [k \in {1} |-> Abs(d[1])]
  BY <1>1 DEF AbsVec
<1>5. d = [k \in {1} |-> d[1]] /\ Neg(d) = [k \in {1} |-> -d[1]]
  BY <1>1, StorageAssumption DEF Neg, Delta
<1>6. ASSUME NEW c \in AllConflicts(p), NEW x \in Int, c = [k \in {1} |-> x]
      PROVE  [k \in {1} |-> Abs(x)] \in AbsoluteValues(AllConflicts(p))
  <2>1. CASE x >= 0
    BY <1>1, <1>6, <2>1 DEF AbsoluteValues, Abs
  <2>2. CASE x < 0
    <3>1. c[1] = x /\ x <= 0
      BY <1>6, <2>2
    <3>2. [c EXCEPT ![1] = -x] = [k \in {1} |-> -x]
      BY <1>6
    <3>3. -x = Abs(x)
      BY <2>2 DEF Abs
    <3> QED
      BY <1>1, <3>1, <3>2, <3>3 DEF AbsoluteValues
  <2> QED
    BY <2>1, <2>2
<1>7. Abs(-d[1]) = Abs(d[1]) /\ -d[1] \in Int
  BY <1>2 DEF Abs
<1>8. CASE d \in AllConflicts(p)
  BY <1>2, <1>4, <1>5, <1>6, <1>8, Zenon
<1>9. CASE Neg(d) \in AllConflicts(p)
  <2>1. [k \in {1} |-> Abs(-d[1])] \in AbsoluteValues(AllConflicts(p))
    BY <1>5, <1>6, <1>7, <1>9, Zenon
  <2> QED
    BY <1>4, <1>7, <2>1, Zenon
<1> QED
  BY <1>3, <1>8, <1>9

(* One dimension: the sizes are computed from the distances of all that is *)
(* live together, as the comments promise.                                 *)
THEOREM OneDimensionLosesNothing == NDims = 1 => (Spec => []DistancesFound)
<1> SUFFICES ASSUME NDims = 1
             PROVE  Spec => []DistancesFound
  OBVIOUS
<1>1. IInv => DistancesFound
  BY OneDimensionDistances DEF IInv, TypeOK, DistancesFound
<1>2. IInv /\ [Next]_vars => IInv'
  BY <1>1, NextIInv
<1>3. QED
  BY InitIInv, <1>1, <1>2, PTL DEF Spec

(* One-dimensional arrays: safe whatever pieces isl splits the precedence  *)
(* relation into.                                                          *)
THEOREM OneDimensionIsSafe == NDims = 1 => (Spec => []AllocationSafe)
<1> SUFFICES ASSUME NDims = 1
             PROVE  Spec => []AllocationSafe
  OBVIOUS
<1>1. IInv => DistancesFound
  BY OneDimensionDistances DEF IInv, TypeOK, DistancesFound
<1>2. IInv => AllocationSafe
  BY DEF IInv
<1>3. IInv /\ [Next]_vars => IInv'
  BY <1>1, NextIInv
<1>4. QED
  BY InitIInv, <1>2, <1>3, PTL DEF Spec
-----------------------------------------------------------------------------
(* What holds even when distances are lost: each coordinate that the sizes *)
(* are computed from is, but for its sign, one of two elements that are    *)
(* live together, and so is what each size is for.                         *)
HasWriters ==
  stage \in {"exclusive", "exclude", "modulo", "done"} => problem.equal # {}

Origins ==
  stage \in {"exclusive", "exclude", "modulo"} =>
    \A e \in deltas, k \in Dims : \E d \in Live(problem) : Abs(d[k]) = Abs(e[k])

Needed ==
  problem.equal # {} =>
    \A k \in Dims : \E d \in Live(problem) : buffer_size[k] <= Abs(d[k]) + 1

SInv == TypeOK /\ ZeroKept /\ HasWriters /\ Origins /\ Needed /\ ErrorJustified

LEMMA InitSInv == Init => SInv
<1> SUFFICES ASSUME Init PROVE SInv
  OBVIOUS
<1>1. TypeOK
  BY StorageAssumption DEF Init, TypeOK, Dims, Delta
<1>2. Needed
  <2> SUFFICES ASSUME problem.equal # {}, NEW k \in Dims
               PROVE  \E d \in Live(problem) : buffer_size[k] <= Abs(d[k]) + 1
    BY DEF Needed
  <2>1. Zero \in Live(problem)
    BY StorageAssumption DEF Init, Live
  <2>2. buffer_size[k] = 1 /\ Abs(Zero[k]) = 0
    BY ZeroDelta DEF Init, Abs
  <2> QED BY <2>1, <2>2
<1> QED
  BY <1>1, <1>2 DEF Init, SInv, ZeroKept, HasWriters, Origins, ErrorJustified

(* No conflict is made up.                                                 *)
LEMMA ConflictsAreLive ==
  ASSUME NEW p \in Problems
  PROVE  AllConflicts(p) \subseteq Live(p)
<1> SUFFICES ASSUME NEW d \in ComputeConflicts(p) PROVE d \in Live(p)
  BY DEF AllConflicts, Live
<1>1. PICK i \in DOMAIN p.pieces : \E j \in 1..i : d \in p.pieces[i] \cap Inverse(p.pieces[j])
  BY DEF ComputeConflicts
<1>2. PICK j \in 1..i : d \in p.pieces[i] \cap Inverse(p.pieces[j])
  BY <1>1
<1>3. p.pieces \in Seq(SUBSET Delta)
  BY StorageAssumption DEF Problem
<1>4. j \in DOMAIN p.pieces
  BY <1>2, <1>3
<1> QED
  BY <1>2, <1>4 DEF Live, Inverse

LEMMA AbsoluteOrigins ==
  ASSUME NEW S \in SUBSET Delta, NEW e \in AbsoluteValues(S), NEW k \in Dims
  PROVE  \E d \in S : Abs(d[k]) = Abs(e[k])
<1>1. CASE e \in S
  BY <1>1
<1>2. CASE e \notin S
  <2>1. PICK j \in Dims, d \in S : e = [d EXCEPT ![j] = -d[j]]
    BY <1>2 DEF AbsoluteValues
  <2>2. d \in [Dims -> (-Infinity)..Infinity] /\ d[k] \in Int
    BY StorageAssumption DEF Delta
  <2>3. e[k] = d[k] \/ e[k] = -d[k]
    BY <2>1, <2>2
  <2>4. Abs(-d[k]) = Abs(d[k])
    BY <2>2 DEF Abs
  <2> QED BY <2>3, <2>4
<1> QED
  BY <1>1, <1>2

LEMMA FindConflictsSInv ==
  ASSUME SInv, FindConflicts
  PROVE  SInv'
<1>1. /\ problem \in Problems /\ problem' = problem /\ problem.equal # {}
      /\ deltas' = AbsoluteValues(AllConflicts(problem))
      /\ buffer_size' = buffer_size /\ dim' = dim /\ classic' = classic
      /\ stage' \in {"modulo", "exclusive"}
  BY DEF FindConflicts, SInv, TypeOK
<1>2. AllConflicts(problem) \in SUBSET Delta /\ deltas' \in SUBSET Delta
  BY <1>1, ConflictsType, AbsoluteValuesType
<1>3. Zero \in deltas'
  <2>1. Zero \in AllConflicts(problem)
    BY <1>1, StorageAssumption DEF AllConflicts
  <2> QED BY <1>1, <2>1, ZeroDelta DEF AbsoluteValues
<1>4. Origins'
  <2> SUFFICES ASSUME NEW e \in deltas', NEW k \in Dims
               PROVE  \E d \in Live(problem) : Abs(d[k]) = Abs(e[k])
    BY <1>1 DEF Origins
  <2>1. PICK d \in AllConflicts(problem) : Abs(d[k]) = Abs(e[k])
    BY <1>1, <1>2, AbsoluteOrigins
  <2> QED BY <1>1, <2>1, ConflictsAreLive
<1> QED
  BY <1>1, <1>2, <1>3, <1>4 DEF SInv, TypeOK, ZeroKept, HasWriters, Needed, ErrorJustified

(* A maximum over distances that have an origin: it is not negative, and   *)
(* it is that of two elements that are live together.                      *)
LEMMA MaximumOrigin ==
  ASSUME SInv, stage \in {"exclusive", "modulo"}, NEW S \in SUBSET deltas, Zero \in S,
         NEW m \in (-Infinity)..Infinity, IsMaximum(m, S, dim)
  PROVE  /\ m >= 0 /\ dim \in Dims
         /\ \E d \in Live(problem) : Abs(d[dim]) = m
<1>1. dim \in Dims /\ Infinity \in Nat \ {0}
  BY StorageAssumption DEF SInv, TypeOK
<1>2. m >= 0
  BY <1>1, ZeroDelta DEF IsMaximum
<1>3. PICK e \in S : e[dim] = m
  BY DEF IsMaximum
<1>4. Abs(m) = m
  BY <1>1, <1>2 DEF Abs
<1>5. \E d \in Live(problem) : Abs(d[dim]) = Abs(e[dim])
  BY <1>1 DEF SInv, Origins
<1> QED
  BY <1>1, <1>2, <1>3, <1>4, <1>5

(* A step that makes one size what such a maximum calls for, at most       *)
LEMMA SizeNeeded ==
  ASSUME SInv, problem' = problem, NEW m \in Nat, NEW j \in Dims, m < Infinity,
         \E d \in Live(problem) : Abs(d[j]) = m,
         NEW n, n = m + 1 \/ n = buffer_size[j],
         buffer_size' = [buffer_size EXCEPT ![j] = n]
  PROVE  Needed' /\ buffer_size' \in [Dims -> 1..Infinity]
<1>1. buffer_size \in [Dims -> 1..Infinity] /\ Infinity \in Nat \ {0}
  BY StorageAssumption DEF SInv, TypeOK
<1>2. buffer_size' \in [Dims -> 1..Infinity]
  BY <1>1
<1>3. ASSUME problem.equal # {}, NEW k \in Dims
      PROVE  \E d \in Live(problem) : buffer_size'[k] <= Abs(d[k]) + 1
  <2>1. CASE k = j /\ n = m + 1
    BY <1>1, <2>1
  <2>2. CASE buffer_size'[k] = buffer_size[k]
    BY <1>3, <2>2 DEF SInv, Needed
  <2> QED BY <1>1, <2>1, <2>2
<1> QED
  BY <1>2, <1>3 DEF Needed

LEMMA SizeExclusiveSInv ==
  ASSUME SInv, SizeExclusive
  PROVE  SInv'
<1> USE DEF SizeFor
<1>1. /\ problem' = problem /\ deltas' = deltas /\ classic' = classic
      /\ stage = "exclusive" /\ stage' \in {"error", "exclude", "exclusive"}
      /\ problem.equal # {} /\ Zero \in deltas
  BY DEF SizeExclusive, SInv, HasWriters, ZeroKept
<1>2. PICK m \in (-Infinity)..Infinity :
        /\ IsMaximum(m, ExclusiveTo(deltas, dim), dim)
        /\ \/ m = Infinity /\ stage' = "error" /\ UNCHANGED <<dim, buffer_size>>
           \/ /\ m # Infinity
              /\ buffer_size' = [buffer_size EXCEPT ![dim] = m + 1]
              /\ dim' = IF dim = NDims THEN 1 ELSE dim + 1
              /\ stage' = IF dim = NDims THEN "exclude" ELSE "exclusive"
  BY DEF SizeExclusive
<1>3. /\ m >= 0 /\ dim \in Dims
      /\ \E d \in Live(problem) : Abs(d[dim]) = m
  <2>1. Zero \in ExclusiveTo(deltas, dim) /\ ExclusiveTo(deltas, dim) \in SUBSET deltas
    BY <1>1, ZeroDelta DEF ExclusiveTo
  <2> QED BY <1>1, <1>2, <2>1, MaximumOrigin
<1>4. NDims \in Nat \ {0} /\ Infinity \in Nat \ {0}
  BY StorageAssumption
<1>5. CASE m = Infinity
  <2>1. stage' = "error" /\ UNCHANGED <<dim, buffer_size>>
    BY <1>2, <1>5
  <2> QED BY <1>1, <1>3, <1>5, <2>1 DEF SInv, TypeOK, ZeroKept, HasWriters, Origins, Needed,
                                        ErrorJustified
<1>6. CASE m # Infinity
  <2>1. /\ buffer_size' = [buffer_size EXCEPT ![dim] = m + 1]
        /\ dim' = IF dim = NDims THEN 1 ELSE dim + 1
        /\ stage' \in {"exclude", "exclusive"}
    BY <1>1, <1>2, <1>6
  <2>2. m \in Nat /\ m < Infinity
    BY <1>3, <1>4, <1>6
  <2>3. Needed' /\ buffer_size' \in [Dims -> 1..Infinity]
    BY <1>1, <1>3, <2>1, <2>2, SizeNeeded
  <2>4. dim' \in Dims
    BY <1>3, <1>4, <2>1 DEF Dims
  <2> QED BY <1>1, <2>1, <2>3, <2>4 DEF SInv, TypeOK, ZeroKept, HasWriters, Origins,
                                        ErrorJustified
<1> QED
  BY <1>5, <1>6

LEMMA ExcludeSatisfiedSInv ==
  ASSUME SInv, ExcludeSatisfied
  PROVE  SInv'
<1>1. /\ UNCHANGED <<problem, classic, dim, buffer_size>>
      /\ deltas' = Unsatisfied(deltas, buffer_size)
      /\ stage = "exclude" /\ stage' \in {"done", "modulo"}
      /\ problem.equal # {} /\ Zero \in deltas
  BY DEF ExcludeSatisfied, SInv, HasWriters, ZeroKept
<1>2. deltas' \subseteq deltas /\ Zero \in deltas'
  BY <1>1, ZeroDelta DEF Unsatisfied
<1> QED
  BY <1>1, <1>2 DEF SInv, TypeOK, ZeroKept, HasWriters, Origins, Needed, ErrorJustified

LEMMA ExpandDimensionSInv ==
  ASSUME SInv, ExpandDimension
  PROVE  SInv'
<1> USE DEF SizeFor
<1>1. /\ problem' = problem /\ classic' = classic /\ stage = "modulo"
      /\ problem.equal # {} /\ Zero \in deltas
  BY DEF ExpandDimension, SInv, HasWriters, ZeroKept
<1>2. PICK m \in (-Infinity)..Infinity :
        /\ IsMaximum(m, deltas, dim)
        /\ \/ m = Infinity /\ stage' = "error" /\ UNCHANGED <<dim, deltas, buffer_size>>
           \/ /\ m # Infinity
              /\ buffer_size' = [buffer_size EXCEPT ![dim] = IF m + 1 > @ THEN m + 1 ELSE @]
              /\ deltas' = {d \in deltas : d[dim] = 0}
              /\ dim' = IF dim = NDims THEN 1 ELSE dim + 1
              /\ stage' = IF dim = NDims \/ deltas' = {} THEN "done" ELSE "modulo"
  BY DEF ExpandDimension
<1>3. /\ m >= 0 /\ dim \in Dims
      /\ \E d \in Live(problem) : Abs(d[dim]) = m
  BY <1>1, <1>2, MaximumOrigin
<1>4. NDims \in Nat \ {0} /\ Infinity \in Nat \ {0}
  BY StorageAssumption
<1>5. CASE m = Infinity
  <2>1. stage' = "error" /\ UNCHANGED <<dim, deltas, buffer_size>>
    BY <1>2, <1>5
  <2> QED BY <1>1, <1>3, <1>5, <2>1 DEF SInv, TypeOK, ZeroKept, HasWriters, Origins, Needed,
                                        ErrorJustified
<1>6. CASE m # Infinity
  <2>1. /\ buffer_size' = [buffer_size EXCEPT ![dim] = IF m + 1 > @ THEN m + 1 ELSE @]
        /\ deltas' = {d \in deltas : d[dim] = 0}
        /\ dim' = IF dim = NDims THEN 1 ELSE dim + 1
        /\ stage' \in {"done", "modulo"}
    BY <1>2, <1>6
  <2>2. m \in Nat /\ m < Infinity
    BY <1>3, <1>4, <1>6
  <2>3. PICK n : /\ n = m + 1 \/ n = buffer_size[dim]
                 /\ buffer_size' = [buffer_size EXCEPT ![dim] = n]
    <3>1. buffer_size' = [buffer_size EXCEPT ![dim] =
                            IF m + 1 > buffer_size[dim] THEN m + 1 ELSE buffer_size[dim]]
      BY <2>1
    <3> QED BY <3>1
  <2>4. Needed' /\ buffer_size' \in [Dims -> 1..Infinity]
    BY <1>1, <1>3, <2>2, <2>3, SizeNeeded
  <2>5. dim' \in Dims
    BY <1>3, <1>4, <2>1 DEF Dims
  <2>6. Zero \in deltas' /\ deltas' \subseteq deltas
    BY <1>1, <1>3, <2>1, ZeroDelta
  <2> QED BY <1>1, <2>1, <2>4, <2>5, <2>6 DEF SInv, TypeOK, ZeroKept, HasWriters, Origins,
                                              ErrorJustified
<1> QED
  BY <1>5, <1>6

LEMMA NextSInv == SInv /\ [Next]_vars => SInv'
<1> SUFFICES ASSUME SInv, [Next]_vars PROVE SInv'
  OBVIOUS
<1>1. CASE NoWriters
  BY <1>1 DEF NoWriters, SInv, TypeOK, ZeroKept, HasWriters, Origins, Needed, ErrorJustified
<1>2. CASE UNCHANGED vars
  BY <1>2 DEF vars, SInv, TypeOK, ZeroKept, HasWriters, Origins, Needed, ErrorJustified
<1> QED
  BY <1>1, <1>2, FindConflictsSInv, SizeExclusiveSInv, ExcludeSatisfiedSInv,
     ExpandDimensionSInv DEF Next

(* Sizes are positive and finite throughout, for any problem.              *)
THEOREM TypeCorrect == Spec => []TypeOK
<1>1. SInv => TypeOK
  BY DEF SInv
<1> QED
  BY <1>1, InitSInv, NextSInv, PTL DEF Spec

(* No size is larger than two elements live together call for, whatever    *)
(* distances are lost: for each dimension there are two that are as far    *)
(* apart in it.                                                            *)
THEOREM NothingIsWasted == Spec => []NoLargerThanNeeded
<1>1. SInv => NoLargerThanNeeded
  BY DEF SInv, HasWriters, Needed, NoLargerThanNeeded
<1> QED
  BY <1>1, InitSInv, NextSInv, PTL DEF Spec

(* Allocation fails only for an array that is not written, or of which two *)
(* elements live together are without bound apart.                         *)
THEOREM FailsForGoodReason == Spec => []ErrorJustified
<1>1. SInv => ErrorJustified
  BY DEF SInv
<1> QED
  BY <1>1, InitSInv, NextSInv, PTL DEF Spec
=============================================================================
