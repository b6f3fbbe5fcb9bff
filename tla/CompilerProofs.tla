--------------------------- MODULE CompilerProofs ---------------------------
(***************************************************************************)
(* Proofs about the back end, for every program, schedule, period and      *)
(* combination of options: buffers with indices that wrap are large enough *)
(* for the elements that live together in them; dropping instances leaves  *)
(* out nothing that is read; the period that is found is one, and accesses *)
(* repeat in it; buffers on the stack hold nothing over from call to call; *)
(* the code executes all of the schedule, and keeps the contract with the  *)
(* class that runs it.                                                     *)
(***************************************************************************)
EXTENDS Compiler, StorageContract, TLAPS, FiniteSetTheorems, FunctionTheorems,
        WellFoundedInduction, NaturalsInduction

(* The images of the members of a finite set are finitely many.            *)
LEMMA FiniteImage ==
  ASSUME NEW S, IsFiniteSet(S), NEW f
  PROVE  IsFiniteSet({f[x] : x \in S})
<1> DEFINE T == {f[x] : x \in S}
           g == [x \in S |-> f[x]]
<1>1. g \in Surjection(S, T)
  BY DEF Surjection
<1> HIDE DEF g, T
<1>2. IsFiniteSet(T)
  BY <1>1, FS_Surjection
<1> QED BY <1>2 DEF T

(* A finite set of integers has an upper bound: of all bounds there would  *)
(* otherwise be for a part of it, take those for the shortest enumeration. *)
LEMMA FiniteIsBounded ==
  ASSUME NEW S \in SUBSET Int, IsFiniteSet(S)
  PROVE  \E b \in Int : \A x \in S : x <= b
<1> DEFINE Bounded(n) ==
             \A f \in [1..n -> Int] : \E b \in Int : \A i \in 1..n : f[i] <= b
           Bad == {n \in Nat : ~Bounded(n)}
<1>1. Bad = {}
  <2> SUFFICES ASSUME Bad # {} PROVE FALSE
    OBVIOUS
  <2>1. PICK n \in Bad : \A m \in Bad : ~(<<m, n>> \in OpToRel(<, Nat))
    <3>1. Bad \subseteq Nat
      OBVIOUS
    <3> HIDE DEF Bad
    <3> QED BY <3>1, NatLessThanWellFounded, WFMin
  <2>2. \A m \in Bad : ~(m < n)
    BY <2>1 DEF OpToRel
  <2>3. n \in Nat /\ ~Bounded(n)
    BY <2>1
  <2>4. \A m \in Nat : m < n => Bounded(m)
    BY <2>2
  <2> HIDE DEF Bad
  <2>5. PICK f \in [1..n -> Int] : ~\E b \in Int : \A i \in 1..n : f[i] <= b
    BY <2>3
  <2> HIDE DEF Bounded
  <2>6. n # 0
    BY <2>5
  <2>7. n - 1 \in Nat /\ n - 1 < n
    BY <2>3, <2>6
  <2>8. PICK b \in Int : \A i \in 1..(n - 1) : f[i] <= b
    <3> DEFINE g == [i \in 1..(n - 1) |-> f[i]]
    <3>1. g \in [1..(n - 1) -> Int]
      BY <2>3
    <3>2. \E b \in Int : \A i \in 1..(n - 1) : g[i] <= b
      <4> HIDE DEF g
      <4> QED BY <2>4, <2>7, <3>1 DEF Bounded
    <3> QED BY <3>2
  <2>9. f[n] \in Int
    BY <2>3, <2>6
  <2>10. PICK m \in Int : b <= m /\ f[n] <= m
    <3>1. CASE b <= f[n]
      BY <2>9, <3>1
    <3>2. CASE ~(b <= f[n])
      BY <2>9, <3>2
    <3> QED BY <3>1, <3>2
  <2>11. \A i \in 1..n : f[i] <= m
    <3> TAKE i \in 1..n
    <3>1. CASE i = n
      BY <2>10, <3>1
    <3>2. CASE i # n
      <4>1. i \in 1..(n - 1) /\ f[i] \in Int
        BY <2>3, <3>2
      <4> QED BY <2>8, <2>10, <4>1
    <3> QED BY <3>1, <3>2
  <2> QED BY <2>5, <2>11
<1>2. PICK n \in Nat : ExistsSurjection(1..n, S)
  BY FS_NatSurjection
<1>3. PICK f \in Surjection(1..n, S) : TRUE
  BY <1>2 DEF ExistsSurjection
<1>4. f \in [1..n -> Int] /\ \A x \in S : \E i \in 1..n : f[i] = x
  BY <1>3 DEF Surjection
<1>5. Bounded(n)
  BY <1>1
<1> QED BY <1>4, <1>5

(* Max does what its name says.                                            *)
LEMMA MaxIsLargest ==
  ASSUME NEW S \in SUBSET Int, IsFiniteSet(S), S # {}
  PROVE  Max(S) \in S /\ \A x \in S : x <= Max(S)
<1>1. PICK b \in Int : \A x \in S : x <= b
  BY FiniteIsBounded
<1> DEFINE Gaps == {n \in Nat : b - n \in S}
<1>2. Gaps # {}
  <2>1. PICK x \in S : TRUE
    OBVIOUS
  <2>2. x \in Int /\ x <= b
    BY <1>1, <2>1
  <2>3. b - x \in Nat /\ b - (b - x) = x
    BY <2>2
  <2>4. b - x \in Gaps
    BY <2>1, <2>3
  <2> QED BY <2>4
<1>3. PICK n \in Gaps : \A m \in Gaps : ~(<<m, n>> \in OpToRel(<, Nat))
  <2>1. Gaps \subseteq Nat
    OBVIOUS
  <2> HIDE DEF Gaps
  <2> QED BY <1>2, <2>1, NatLessThanWellFounded, WFMin
<1>4. \A m \in Gaps : ~(m < n)
  BY <1>3 DEF OpToRel
<1>5. \A x \in S : b - n >= x
  <2> TAKE x \in S
  <2> n \in Nat
    BY <1>3
  <2>1. x \in Int /\ x <= b
    BY <1>1
  <2>2. b - x \in Nat /\ b - (b - x) = x
    BY <2>1
  <2>3. ~(b - x < n)
    BY <1>4, <2>2
  <2> HIDE DEF Gaps
  <2> QED BY <2>1, <2>3
<1>6. b - n \in S
  BY <1>3
<1>7. Max(S) \in S /\ \A y \in S : Max(S) >= y
  BY <1>5, <1>6 DEF Max
<1> QED BY <1>7

-----------------------------------------------------------------------------
(* Powers of two, as the numbers of subsets: one more element doubles them *)
LEMMA PowersOfTwo ==
  ASSUME NEW e \in Nat
  PROVE  2^e \in Nat /\ e <= 2^e /\ 2^(e + 1) = 2 * 2^e
<1> DEFINE A == SUBSET (1..e)
           B == SUBSET (1..(e + 1))
           C == B \ A
<1>1. IsFiniteSet(A) /\ Cardinality(A) = 2^e /\ Cardinality(A) \in Nat
  <2>1. IsFiniteSet(1..e) /\ Cardinality(1..e) = e
    BY FS_Interval
  <2>2. IsFiniteSet(A) /\ Cardinality(A) = 2^Cardinality(1..e)
    BY <2>1, FS_SUBSET
  <2> QED BY <2>1, <2>2, FS_CardinalityType
<1>2. IsFiniteSet(B) /\ Cardinality(B) = 2^(e + 1)
  <2>1. IsFiniteSet(1..(e + 1)) /\ Cardinality(1..(e + 1)) = e + 1
    BY FS_Interval
  <2>2. IsFiniteSet(B) /\ Cardinality(B) = 2^Cardinality(1..(e + 1))
    BY <2>1, FS_SUBSET
  <2> QED BY <2>1, <2>2
<1>3. e <= 2^e
  <2> DEFINE f == [i \in 1..e |-> {i}]
  <2>1. f \in Injection(1..e, A)
    <3>1. f \in [1..e -> A] /\ \A i \in 1..e : f[i] = {i}
      OBVIOUS
    <3> HIDE DEF f, A
    <3>2. \A i, j \in 1..e : f[i] = f[j] => i = j
      BY <3>1
    <3> QED BY <3>1, <3>2 DEF Injection, IsInjective
  <2>2. Cardinality(1..e) = e
    BY FS_Interval
  <2> HIDE DEF f, A
  <2>3. Cardinality(1..e) <= Cardinality(A)
    BY <1>1, <2>1, FS_Injection
  <2> QED BY <1>1, <2>2, <2>3
<1>4. Cardinality(C) = Cardinality(A) /\ IsFiniteSet(C)
  <2> DEFINE g == [T \in A |-> T \cup {e + 1}]
  <2>1. g \in [A -> C]
    OBVIOUS
  <2>2. \A T, U \in A : g[T] = g[U] => T = U
    OBVIOUS
  <2>3. \A U \in C : \E T \in A : g[T] = U
    <3> TAKE U \in C
    <3>1. e + 1 \in U
      OBVIOUS
    <3>2. U \ {e + 1} \in A
      OBVIOUS
    <3>3. (U \ {e + 1}) \cup {e + 1} = U
      BY <3>1
    <3>4. g[U \ {e + 1}] = U
      BY <3>2, <3>3
    <3> QED BY <3>2, <3>4
  <2>4. g \in Bijection(A, C)
    <3> HIDE DEF g, A, C
    <3>1. g \in Injection(A, C)
      BY <2>1, <2>2 DEF Injection, IsInjective
    <3>2. g \in Surjection(A, C)
      BY <2>1, <2>3 DEF Surjection
    <3> QED BY <3>1, <3>2 DEF Bijection
  <2>5. ExistsBijection(A, C)
    BY <2>4 DEF ExistsBijection
  <2> HIDE DEF A, C
  <2> QED BY <1>1, <2>5, FS_Bijection
<1>5. Cardinality(B) = Cardinality(A) + Cardinality(C)
  <2>1. B = A \cup C /\ A \cap C = {}
    OBVIOUS
  <2> HIDE DEF A, B, C
  <2>2. Cardinality(A \cup C) = Cardinality(A) + Cardinality(C) - Cardinality(A \cap C)
    BY <1>1, <1>4, FS_Union
  <2>3. Cardinality({}) = 0
    BY FS_EmptySet
  <2> QED BY <1>1, <1>4, <2>1, <2>2, <2>3
<1> HIDE DEF A, B, C
<1> QED BY <1>1, <1>2, <1>3, <1>4, <1>5

LEMMA RoundedUp ==
  ASSUME NEW n \in Nat \ {0}
  PROVE  next_power_of_two(n) \in Nat /\ next_power_of_two(n) >= n
<1> DEFINE Enough == {e \in 0..n : 2^e >= n}
<1>1. n \in Enough
  BY PowersOfTwo
<1>2. PICK e \in Enough : \A d \in Enough : ~(<<d, e>> \in OpToRel(<, Nat))
  <2>1. Enough \subseteq Nat /\ Enough # {}
    BY <1>1
  <2> HIDE DEF Enough
  <2> QED BY <2>1, NatLessThanWellFounded, WFMin
<1>3. e \in 0..n /\ 2^e >= n /\ \A d \in 0..n : 2^d >= n => ~(d < e)
  <2>1. Enough \subseteq Nat
    OBVIOUS
  <2>2. \A d \in Enough : ~(d < e)
    <3> HIDE DEF Enough
    <3> QED BY <1>2, <2>1 DEF OpToRel
  <2> QED BY <1>2, <2>2
<1>4. 2^e < 2 * n
  <2>1. CASE e = 0
    <3>1. 2^e = 1
      BY <2>1
    <3> QED BY <3>1
  <2>2. CASE e # 0
    <3>1. PICK d \in 0..n : d + 1 = e /\ d < e
      <4>1. e - 1 \in 0..n /\ (e - 1) + 1 = e /\ e - 1 < e
        BY <1>3, <2>2
      <4> QED BY <4>1
    <3>2. ~(2^d >= n)
      BY <1>3, <3>1
    <3>3. 2^d \in Nat /\ 2^(d + 1) = 2 * 2^d
      BY PowersOfTwo
    <3> QED BY <3>1, <3>2, <3>3
  <2> QED BY <2>1, <2>2
<1>5. \E m \in {2^d : d \in 0..n} : m >= n /\ m < 2 * n
  BY <1>3, <1>4
<1>6. next_power_of_two(n) \in {2^d : d \in 0..n} /\ next_power_of_two(n) >= n
  BY <1>5 DEF next_power_of_two
<1> QED BY <1>6, PowersOfTwo

-----------------------------------------------------------------------------
(* Programs have finitely many instances before the horizon, all of them   *)
(* with keys below the horizon's.                                          *)
LEMMA InstancesFinite ==
  ASSUME NEW p, IsProgram(p)
  PROVE  /\ IsFiniteSet(Instances(p))
         /\ \A e \in Instances(p) :
              /\ e[1] \in 1..Len(p.stmts) /\ e[2] \in Int
              /\ Time(p.stmts[e[1]], e[2]) < Horizon
<1> DEFINE All == (1..Len(p.stmts)) \X (0..(2 * Horizon))
<1>1. Statements(p) = 1..Len(p.stmts) /\ Len(p.stmts) \in Nat
  BY DEF IsProgram, Statements
<1>2. \A e \in Instances(p) :
        /\ e \in All
        /\ Time(p.stmts[e[1]], e[2]) < Horizon
  BY <1>1 DEF Instances
<1>3. IsFiniteSet(All)
  <2>1. IsFiniteSet(1..Len(p.stmts)) /\ IsFiniteSet(0..(2 * Horizon))
    BY <1>1, HorizonAssumption, FS_Interval
  <2> QED BY <2>1, FS_Product
<1>4. IsFiniteSet(Instances(p))
  <2>1. Instances(p) \in SUBSET All
    BY <1>2
  <2> HIDE DEF All
  <2> QED BY <1>3, <2>1, FS_Subset
<1> QED BY <1>2, <1>4, HorizonAssumption

LEMMA BandsBounded ==
  ASSUME NEW p, IsProgram(p), NEW n \in 1..Len(p.stmts)
  PROVE  /\ LastBand(p) \in Nat
         /\ p.stmts[n].band \in Nat /\ p.stmts[n].band <= LastBand(p)
<1> DEFINE band == [m \in 1..Len(p.stmts) |-> p.stmts[m].band]
           B == {band[m] : m \in 1..Len(p.stmts)}
<1>1. Statements(p) = 1..Len(p.stmts) /\ Len(p.stmts) \in Nat
  BY DEF IsProgram, Statements
<1>2. IsFiniteSet(1..Len(p.stmts))
  BY <1>1, FS_Interval
<1>3. IsFiniteSet(B)
  <2> HIDE DEF band
  <2> QED BY <1>2, FiniteImage
<1>4. Bands(p) = B
  BY <1>1 DEF Bands
<1>5. \A m \in 1..Len(p.stmts) : p.stmts[m].band \in Nat
  BY <1>1 DEF IsProgram, IsStatement, Statements
<1>6. B \in SUBSET Nat /\ p.stmts[n].band \in B
  BY <1>5
<1> HIDE DEF B
<1>7. B \in SUBSET Int /\ B # {}
  BY <1>6
<1>8. Max(B) \in B /\ \A b \in B : b <= Max(B)
  BY <1>3, <1>7, MaxIsLargest
<1> QED BY <1>4, <1>5, <1>6, <1>8 DEF LastBand

LEMMA KeysInOrder ==
  ASSUME NEW b \in Nat, NEW last \in Nat, b <= last, NEW t \in Int, t < Horizon,
         NEW len \in Nat, NEW n \in 1..len
  PROVE  (2 * Horizon * b + t) * len + n - 1 < (2 * Horizon * last + Horizon) * len
<1>1. PICK h \in Nat : h = 2 * Horizon
  BY HorizonAssumption
<1>2. h * b \in Int /\ h * last \in Int /\ h * b <= h * last
  BY <1>1, SMT
<1>3. PICK x \in Int, y \in Int :
        x = 2 * Horizon * b + t /\ y = 2 * Horizon * last + Horizon /\ x + 1 <= y
  <2>1. h * b + t \in Int /\ h * last + Horizon \in Int
        /\ (h * b + t) + 1 <= h * last + Horizon
    BY <1>2, HorizonAssumption
  <2> QED BY <1>1, <2>1
<1>4. (x + 1) * len <= y * len
  BY <1>3, SMT
<1>5. (x + 1) * len = x * len + len
  BY <1>3, SMT
<1>6. x * len \in Int /\ y * len \in Int
  BY <1>3
<1> QED BY <1>3, <1>4, <1>5, <1>6

LEMMA KeyBound ==
  ASSUME NEW p, IsProgram(p), NEW e \in Instances(p)
  PROVE  Key(p, e) \in Int /\ Key(p, e) < KeyOfTime(p, Horizon)
<1> DEFINE s == p.stmts[e[1]]
<1>1. e[1] \in 1..Len(p.stmts) /\ e[2] \in Int /\ Time(s, e[2]) < Horizon
  BY InstancesFinite
<1>2. LastBand(p) \in Nat /\ s.band \in Nat /\ s.band <= LastBand(p)
  BY <1>1, BandsBounded
<1>3. Len(p.stmts) \in Nat /\ s.rate \in Int /\ s.start \in Int
  BY <1>1 DEF IsProgram, IsStatement
<1>4. Time(s, e[2]) \in Int
  BY <1>1, <1>3 DEF Time
<1>5. (2 * Horizon * s.band + Time(s, e[2])) * Len(p.stmts) + e[1] - 1
        < (2 * Horizon * LastBand(p) + Horizon) * Len(p.stmts)
  <2> HIDE DEF s
  <2> QED BY <1>1, <1>2, <1>3, <1>4, KeysInOrder
<1>6. 2 * Horizon * s.band + Time(s, e[2]) \in Int
  BY <1>2, <1>4, HorizonAssumption
<1> QED BY <1>1, <1>3, <1>5, <1>6 DEF Key, KeyOfTime

-----------------------------------------------------------------------------
(* What the instances access through acc: finitely many elements, numbered *)
(* by integers, each before the horizon                                    *)
Accessed(p, acc) ==
  UNION {{<<Index(a, e[2]), Key(p, e)>> : a \in acc[e[1]]} : e \in Instances(p)}

LEMMA AccessesFinite ==
  ASSUME NEW p, IsProgram(p), NEW acc,
         \A n \in 1..Len(p.stmts) : IsFiniteSet(acc[n]) /\ acc[n] \subseteq Access
  PROVE  /\ IsFiniteSet(Accessed(p, acc))
         /\ \A c \in Accessed(p, acc) :
              c[1] \in Int /\ c[2] \in Int /\ c[2] < KeyOfTime(p, Horizon)
<1> DEFINE by(e)  == [a \in acc[e[1]] |-> <<Index(a, e[2]), Key(p, e)>>]
           Of(e)  == {by(e)[a] : a \in acc[e[1]]}
           of     == [e \in Instances(p) |-> Of(e)]
           Slices == {of[e] : e \in Instances(p)}
<1>1. \A e \in Instances(p) : IsFiniteSet(Of(e))
  <2> TAKE e \in Instances(p)
  <2>1. IsFiniteSet(acc[e[1]])
    BY InstancesFinite
  <2> HIDE DEF by
  <2> QED BY <2>1, FiniteImage
<1>2. IsFiniteSet(Slices)
  <2>1. IsFiniteSet(Instances(p))
    BY InstancesFinite
  <2> HIDE DEF of
  <2> QED BY <2>1, FiniteImage
<1>3. \A T \in Slices : IsFiniteSet(T)
  <2> HIDE DEF Of
  <2> QED BY <1>1
<1>4. IsFiniteSet(UNION Slices)
  <2> HIDE DEF Slices
  <2> QED BY <1>2, <1>3, FS_UNION
<1>5. Accessed(p, acc) = UNION Slices
  <2>1. \A e \in Instances(p) :
          of[e] = {<<Index(a, e[2]), Key(p, e)>> : a \in acc[e[1]]}
    OBVIOUS
  <2> HIDE DEF of
  <2> QED BY <2>1 DEF Accessed
<1>6. ASSUME NEW c \in Accessed(p, acc)
      PROVE  c[1] \in Int /\ c[2] \in Int /\ c[2] < KeyOfTime(p, Horizon)
  <2>1. PICK e \in Instances(p) :
              \E a \in acc[e[1]] : c = <<Index(a, e[2]), Key(p, e)>>
    BY DEF Accessed
  <2>2. e[1] \in 1..Len(p.stmts) /\ e[2] \in Int
    BY InstancesFinite
  <2>3. PICK a \in acc[e[1]] : c = <<Index(a, e[2]), Key(p, e)>>
    BY <2>1
  <2>4. a.mul \in Int /\ a.off \in Int
    BY <2>2 DEF Access
  <2>5. Index(a, e[2]) \in Int
    BY <2>2, <2>4 DEF Index
  <2> QED BY <2>3, <2>5, KeyBound
<1> QED BY <1>4, <1>5, <1>6

LEMMA FiniteMembers ==
  ASSUME NEW seq \in Seq(Access), NEW array
  PROVE  LET T == {b \in {seq[n] : n \in DOMAIN seq} : b.array = array}
         IN  IsFiniteSet(T) /\ T \subseteq Access
<1> DEFINE R == {seq[n] : n \in DOMAIN seq}
<1>1. DOMAIN seq = 1..Len(seq) /\ Len(seq) \in Nat
  OBVIOUS
<1>2. IsFiniteSet(DOMAIN seq)
  BY <1>1, FS_Interval
<1>3. IsFiniteSet(R)
  BY <1>2, FiniteImage
<1>4. R \subseteq Access
  BY <1>1
<1>5. {b \in R : b.array = array} \in SUBSET R
  OBVIOUS
<1> HIDE DEF R
<1>6. IsFiniteSet({b \in R : b.array = array})
  BY <1>3, <1>5, FS_Subset
<1> QED BY <1>4, <1>6 DEF R

WritersOf(p, array) == [n \in 1..Len(p.stmts) |-> {b \in Writes(p.stmts[n]) : b.array = array}]
ReadersOf(p, array)  == [n \in 1..Len(p.stmts) |-> {b \in Reads(p.stmts[n]) : b.array = array}]
LEMMA AccessesOf ==
  ASSUME NEW p, IsProgram(p), NEW array
  PROVE  /\ Written(p, array) = Accessed(p, WritersOf(p, array))
         /\ ReadOut(p, array) = Accessed(p, ReadersOf(p, array))
         /\ \A n \in DOMAIN p.stmts :
              /\ \A a \in WritersOf(p, array)[n] : a \in Writes(p.stmts[n]) /\ a.array = array
              /\ \A a \in ReadersOf(p, array)[n] : a \in Reads(p.stmts[n]) /\ a.array = array
<1>1. \A e \in Instances(p) : e[1] \in 1..Len(p.stmts)
  BY InstancesFinite
<1>2. Written(p, array) = Accessed(p, WritersOf(p, array))
  <2>1. \A e \in Instances(p) :
          WritersOf(p, array)[e[1]] = {b \in Writes(p.stmts[e[1]]) : b.array = array}
    BY <1>1 DEF WritersOf
  <2> QED BY <2>1 DEF Written, Accessed
<1>3. ReadOut(p, array) = Accessed(p, ReadersOf(p, array))
  <2>1. \A e \in Instances(p) :
          ReadersOf(p, array)[e[1]] = {b \in Reads(p.stmts[e[1]]) : b.array = array}
    BY <1>1 DEF ReadersOf
  <2> QED BY <2>1 DEF ReadOut, Accessed
<1>4. DOMAIN p.stmts = 1..Len(p.stmts)
  BY DEF IsProgram
<1>5. \A n \in DOMAIN p.stmts :
        /\ \A a \in WritersOf(p, array)[n] : a \in Writes(p.stmts[n]) /\ a.array = array
        /\ \A a \in ReadersOf(p, array)[n] : a \in Reads(p.stmts[n]) /\ a.array = array
  BY <1>4 DEF WritersOf, ReadersOf
<1> QED BY <1>2, <1>3, <1>5

LEMMA WrittenFinite ==
  ASSUME NEW p, IsProgram(p), NEW array
  PROVE  /\ IsFiniteSet(Written(p, array)) /\ IsFiniteSet(ReadOut(p, array))
         /\ \A c \in Written(p, array) \cup ReadOut(p, array) :
              c[1] \in Int /\ c[2] \in Int /\ c[2] < KeyOfTime(p, Horizon)
<1> DEFINE w == WritersOf(p, array)
           r == ReadersOf(p, array)
<1>1. \A n \in 1..Len(p.stmts) : p.stmts[n].writes \in Seq(Access) /\ p.stmts[n].reads \in Seq(Access)
  BY DEF IsProgram, IsStatement
<1>2. \A n \in 1..Len(p.stmts) : IsFiniteSet(w[n]) /\ w[n] \subseteq Access
  BY <1>1, FiniteMembers DEF WritersOf, Writes
<1>3. \A n \in 1..Len(p.stmts) : IsFiniteSet(r[n]) /\ r[n] \subseteq Access
  BY <1>1, FiniteMembers DEF ReadersOf, Reads
<1>4. Written(p, array) = Accessed(p, w)
  BY AccessesOf
<1>5. ReadOut(p, array) = Accessed(p, r)
  BY AccessesOf
<1> HIDE DEF w, r
<1>6. /\ IsFiniteSet(Written(p, array))
      /\ \A c \in Written(p, array) :
           c[1] \in Int /\ c[2] \in Int /\ c[2] < KeyOfTime(p, Horizon)
  BY <1>2, <1>4, AccessesFinite
<1>7. /\ IsFiniteSet(ReadOut(p, array))
      /\ \A c \in ReadOut(p, array) :
           c[1] \in Int /\ c[2] \in Int /\ c[2] < KeyOfTime(p, Horizon)
  BY <1>3, <1>5, AccessesFinite
<1> QED BY <1>6, <1>7

(* The distances of finitely many accesses are finitely many.              *)
LEMMA DistancesFinite ==
  ASSUME NEW W, IsFiniteSet(W), NEW R, IsFiniteSet(R),
         \A c \in W \cup R : c[1] \in Int
  PROVE  /\ IsFiniteSet(ConflictDistances(W, R))
         /\ ConflictDistances(W, R) \subseteq Nat
<1> DEFINE first == [c \in W |-> c[1]]
           Elements == {first[c] : c \in W}
           from(x)  == Min({w[2] : w \in {v \in W : v[1] = x}})
           until(x) == Max({r[2] : r \in {v \in R : v[1] = x}})
           life  == [x \in Elements |-> <<x, from(x), until(x)>>]
           Lives == {life[x] : x \in Elements}
           All   == (Lives \X Lives) \cup ((W \X W) \cup (R \X R))
           dist  == [c \in All |-> Distance(c[1][1], c[2][1])]
           Dists == {dist[c] : c \in All}
<1>1. IsFiniteSet(Elements)
  <2> HIDE DEF first
  <2> QED BY FiniteImage
<1>2. IsFiniteSet(Lives)
  <2> HIDE DEF life, Elements
  <2> QED BY <1>1, FiniteImage
<1>3. IsFiniteSet(All)
  <2> HIDE DEF Lives
  <2>1. IsFiniteSet(Lives \X Lives) /\ IsFiniteSet(W \X W) /\ IsFiniteSet(R \X R)
    BY <1>2, FS_Product
  <2> QED BY <2>1, FS_Union
<1>4. IsFiniteSet(Dists)
  <2> HIDE DEF dist, All
  <2> QED BY <1>3, FiniteImage
<1>5. Lifetimes(W, R)
        = {<<x, from(x), until(x)>> : x \in {w[1] : w \in W} \cap {r[1] : r \in R}}
  BY DEF Lifetimes
<1> HIDE DEF from, until
<1>6. Lifetimes(W, R) \subseteq Lives /\ \A l \in Lives : l[1] \in Int
  <2>1. \A x \in {w[1] : w \in W} : x \in Elements
    OBVIOUS
  <2>2. \A x \in Elements : x \in Int /\ life[x] = <<x, from(x), until(x)>>
    OBVIOUS
  <2> HIDE DEF Elements, life
  <2> QED BY <1>5, <2>1, <2>2
<1>7. ConflictDistances(W, R) \subseteq Dists
  <2> SUFFICES ASSUME NEW d \in ConflictDistances(W, R) PROVE d \in Dists
    OBVIOUS
  <2>1. PICK c : /\ c \in Lifetimes(W, R) \X Lifetimes(W, R)
                           \cup ((W \X W) \cup (R \X R))
                 /\ d = Distance(c[1][1], c[2][1])
    <3> HIDE DEF Lives, Elements, life, dist, All
    <3> QED BY DEF ConflictDistances
  <2>2. c \in All
    <3> HIDE DEF Lives
    <3> QED BY <1>6, <2>1
  <2>3. dist[c] = d
    <3> HIDE DEF All
    <3> QED BY <2>1, <2>2
  <2> HIDE DEF All, dist
  <2> QED BY <2>2, <2>3
<1>8. Dists \subseteq Nat
  <2> SUFFICES ASSUME NEW c \in All PROVE dist[c] \in Nat
    OBVIOUS
  <2>1. c[1][1] \in Int /\ c[2][1] \in Int
    <3> HIDE DEF Lives
    <3>1. \A x \in Lives \cup (W \cup R) : x[1] \in Int
      BY <1>6
    <3>2. c[1] \in Lives \cup (W \cup R) /\ c[2] \in Lives \cup (W \cup R)
      OBVIOUS
    <3> QED BY ONLY <3>1, <3>2
  <2>2. dist[c] = Distance(c[1][1], c[2][1])
    <3> HIDE DEF All
    <3> QED OBVIOUS
  <2> HIDE DEF dist
  <2> QED BY <2>1, <2>2 DEF Distance
<1>9. ConflictDistances(W, R) \in SUBSET Dists
  BY <1>7
<1> HIDE DEF Dists
<1>10. IsFiniteSet(ConflictDistances(W, R))
  BY <1>4, <1>9, FS_Subset
<1> QED BY <1>7, <1>8, <1>10

(* No two elements live together at a distance that reaches the buffer's   *)
(* size, as long as that is bounded.                                       *)
LEMMA DistancesWithinSize ==
  ASSUME NEW p, IsProgram(p), NEW tiled, NEW array,
         compute_buffer_size(p, tiled, array) # Unbounded
  PROVE  /\ compute_buffer_size(p, tiled, array) \in Nat \ {0}
         /\ \A d \in ConflictDistances(Written(p, array), ReadOut(p, array)) :
              d \in Nat /\ d < compute_buffer_size(p, tiled, array)
<1> DEFINE W == Written(p, array)
           R == ReadOut(p, array)
           D == ConflictDistances(W, R)
           far == LargestDistance(p, array, KeyOfTime(p, Horizon))
<1>1. /\ IsFiniteSet(W) /\ IsFiniteSet(R)
      /\ \A c \in W \cup R : c[1] \in Int /\ c[2] \in Int /\ c[2] < KeyOfTime(p, Horizon)
  BY WrittenFinite
<1>2. /\ {w \in W : w[2] < KeyOfTime(p, Horizon)} = W
      /\ {r \in R : r[2] < KeyOfTime(p, Horizon)} = R
  <2> HIDE DEF W, R
  <2> QED BY <1>1
<1>3. far = Max({0} \cup D)
  BY <1>2 DEF LargestDistance
<1>4. IsFiniteSet(D) /\ D \subseteq Nat
  <2> HIDE DEF W, R
  <2> QED BY <1>1, DistancesFinite
<1> HIDE DEF D
<1>5. IsFiniteSet({0} \cup D) /\ {0} \cup D \in SUBSET Nat
  <2>1. IsFiniteSet({0})
    BY FS_Singleton
  <2>2. IsFiniteSet({0} \cup D)
    BY <1>4, <2>1, FS_Union
  <2> QED BY <1>4, <2>2
<1>6. far \in {0} \cup D /\ \A d \in {0} \cup D : d <= far
  BY <1>3, <1>5, MaxIsLargest
<1>7. compute_buffer_size(p, tiled, array) = far + 1
  BY DEF compute_buffer_size
<1> HIDE DEF far
<1>8. far \in Nat /\ \A d \in D : d \in Nat /\ d <= far
  BY <1>5, <1>6
<1> QED BY <1>7, <1>8 DEF D

-----------------------------------------------------------------------------
(* Divisibility, and the greatest common divisor and least common multiple *)
(* of scheduling.cpp: that they are what their names say                   *)
Divides(d, n) == \E m \in Int : n = d * m

LEMMA DividesSum ==
  ASSUME NEW d \in Int, NEW m \in Int, NEW n \in Int, NEW l \in Int,
         Divides(d, m), Divides(d, n)
  PROVE  Divides(d, m + n) /\ Divides(d, m - n) /\ Divides(d, m + n * l)
<1>1. PICK a \in Int : m = d * a
  BY DEF Divides
<1>2. PICK b \in Int : n = d * b
  BY DEF Divides
<1>3. m + n = d * (a + b) /\ m - n = d * (a - b)
  BY <1>1, <1>2
<1>4. m + n * l = d * (a + b * l)
  BY <1>1, <1>2
<1>5. a + b \in Int /\ a - b \in Int /\ a + b * l \in Int
  OBVIOUS
<1> QED BY <1>3, <1>4, <1>5 DEF Divides

LEMMA DividesDifference ==
  ASSUME NEW d \in Int, NEW m \in Int, NEW n \in Int, Divides(d, m), Divides(d, n)
  PROVE  Divides(d, n - m)
<1>1. 0 \in Int
  OBVIOUS
<1> QED BY <1>1, DividesSum

LEMMA DividesProduct ==
  ASSUME NEW d \in Int, NEW m \in Int, NEW n \in Int, Divides(d, m)
  PROVE  Divides(d, m * n) /\ Divides(d, n * m)
<1>1. PICK a \in Int : m = d * a
  BY DEF Divides
<1>2. m * n = d * (a * n) /\ n * m = d * (a * n) /\ a * n \in Int
  BY <1>1
<1> QED BY <1>2 DEF Divides

LEMMA DividesTransitive ==
  ASSUME NEW c \in Int, NEW d \in Int, NEW n \in Int, Divides(c, d), Divides(d, n)
  PROVE  Divides(c, n)
<1>1. PICK m \in Int : n = d * m
  BY DEF Divides
<1> QED BY <1>1, DividesProduct

LEMMA Remainders ==
  ASSUME NEW n \in Int, NEW d \in Nat \ {0}
  PROVE  /\ n % d \in 0..(d - 1) /\ n \div d \in Int
         /\ n = d * (n \div d) + (n % d)
         /\ n % d = 0 <=> Divides(d, n)
<1>1. n % d \in 0..(d - 1) /\ n \div d \in Int /\ n = d * (n \div d) + (n % d)
  BY SMT
<1>2. ASSUME n % d = 0 PROVE Divides(d, n)
  <2>1. n = d * (n \div d)
    BY <1>1, <1>2
  <2> QED BY <1>1, <2>1, Zenon DEF Divides
<1>3. ASSUME Divides(d, n) PROVE n % d = 0
  <2>1. PICK m \in Int : n = d * m
    BY <1>3 DEF Divides
  <2>2. PICK q \in Int : q = n \div d
    BY <1>1
  <2>3. PICK r \in Int : r = n % d /\ r < d /\ r >= 0
    BY <1>1
  <2>4. n = d * q + r
    BY <1>1, <2>2, <2>3
  <2>5. r = d * (m - q)
    BY <2>1, <2>4
  <2>6. PICK l \in Int : l = m - q
    OBVIOUS
  <2>7. r = d * l
    BY <2>5, <2>6
  <2>8. l >= 1 => d * l >= d
    OBVIOUS
  <2>9. l <= -1 => d * l <= -d
    OBVIOUS
  <2>10. l = 0
    BY <2>3, <2>7, <2>8, <2>9
  <2>11. r = 0
    BY <2>7, <2>10
  <2> QED BY <2>3, <2>11
<1> QED BY <1>1, <1>2, <1>3

LEMMA DivisorBound ==
  ASSUME NEW d \in Nat, NEW n \in Nat \ {0}, Divides(d, n)
  PROVE  d <= n /\ d # 0
<1>1. PICK m \in Int : n = d * m
  BY DEF Divides
<1>2. m >= 1
  BY <1>1
<1> QED BY <1>1, <1>2

(* The equation of gcd has a solution, so that gcd is one.                 *)
LEMMA GcdEquation ==
  ASSUME NEW a \in Nat, NEW b \in Nat
  PROVE  gcd[<<a, b>>] = IF a = 0 THEN b ELSE gcd[<<b % a, a>>]
<1> DEFINE Common(x, y) == {d \in Nat : Divides(d, x) /\ Divides(d, y)}
           IsGreatest(d, x, y) == d \in Common(x, y) /\ \A e \in Common(x, y) : e <= d
           G(x, y) == IF x = 0 THEN y ELSE CHOOSE d : IsGreatest(d, x, y)
           f == [xy \in Nat \X Nat |-> G(xy[1], xy[2])]
           Solves(g) == g = [xy \in Nat \X Nat |->
                               IF xy[1] = 0 THEN xy[2] ELSE g[<<xy[2] % xy[1], xy[1]>>]]
<1>1. ASSUME NEW x \in Nat \ {0}, NEW y \in Nat
      PROVE  y % x \in Nat /\ G(y % x, x) = G(x, y)
  <2>1. PICK q \in Int : q = y \div x
    BY Remainders
  <2>2. PICK r \in Nat : r = y % x
    BY Remainders
  <2>3. y = x * q + r
    BY <2>1, <2>2, Remainders
  <2>4. \A d : d \in Common(r, x) <=> d \in Common(x, y)
    <3>1. ASSUME NEW d \in Nat, Divides(d, x), Divides(d, r) PROVE Divides(d, y)
      <4>1. r + x * q = y
        BY <2>3
      <4>2. d \in Int /\ x \in Int /\ r \in Int
        OBVIOUS
      <4>3. Divides(d, r + x * q)
        BY <3>1, <4>2, DividesSum
      <4> QED BY <4>1, <4>3
    <3>2. ASSUME NEW d \in Nat, Divides(d, x), Divides(d, y) PROVE Divides(d, r)
      <4>1. PICK l \in Int : l = -q
        BY <2>1
      <4>2. y + x * l = r
        BY <2>3, <4>1
      <4>3. d \in Int /\ x \in Int /\ y \in Int
        OBVIOUS
      <4>4. Divides(d, y + x * l)
        BY <3>2, <4>3, DividesSum
      <4> QED BY <4>2, <4>4
    <3> QED BY <3>1, <3>2
  <2>5. CASE r = 0
    <3>1. x = x * 1 /\ y = x * q
      BY <2>3, <2>5
    <3>2. x \in Common(x, y)
      BY <3>1 DEF Divides
    <3>3. \A d \in Common(x, y) : d \in Nat /\ d <= x
      BY DivisorBound
    <3> HIDE DEF Common
    <3>4. \A d : IsGreatest(d, x, y) => d = x
      BY <3>2, <3>3
    <3>5. IsGreatest(x, x, y)
      BY <3>2, <3>3
    <3> HIDE DEF IsGreatest
    <3>6. (CHOOSE d : IsGreatest(d, x, y)) = x
      BY <3>4, <3>5
    <3> QED BY <2>2, <2>5, <3>6
  <2>6. CASE r # 0
    <3>1. \A d : IsGreatest(d, r, x) <=> IsGreatest(d, x, y)
      BY <2>4
    <3> HIDE DEF IsGreatest
    <3>2. (CHOOSE d : IsGreatest(d, r, x)) = (CHOOSE d : IsGreatest(d, x, y))
      BY <3>1, Zenon
    <3> QED BY <2>2, <2>6, <3>2
  <2> QED BY <2>2, <2>5, <2>6
<1> HIDE DEF G
<1>2. ASSUME NEW x \in Nat, NEW y \in Nat PROVE f[<<x, y>>] = G(x, y)
  OBVIOUS
<1>3. ASSUME NEW xy \in Nat \X Nat
      PROVE  f[xy] = IF xy[1] = 0 THEN xy[2] ELSE f[<<xy[2] % xy[1], xy[1]>>]
  <2>1. PICK x \in Nat, y \in Nat : xy = <<x, y>>
    BY <1>3
  <2>2. f[xy] = G(x, y)
    BY <1>2, <2>1
  <2>3. CASE x = 0
    BY <2>1, <2>2, <2>3 DEF G
  <2>4. CASE x # 0
    <3>1. y % x \in Nat /\ G(y % x, x) = G(x, y)
      BY <1>1, <2>4
    <3>2. f[<<y % x, x>>] = G(y % x, x)
      BY <1>2, <3>1
    <3> HIDE DEF f
    <3> QED BY <2>1, <2>2, <2>4, <3>1, <3>2
  <2> QED BY <2>3, <2>4
<1>4. f = [xy \in Nat \X Nat |-> f[xy]]
  OBVIOUS
<1> HIDE DEF f
<1>5. Solves(f)
  BY <1>3, <1>4, Zenon
<1>6. gcd = CHOOSE g : Solves(g)
  BY DEF gcd
<1> HIDE DEF Solves
<1>7. Solves(gcd)
  BY <1>5, <1>6
<1>8. gcd = [xy \in Nat \X Nat |->
               IF xy[1] = 0 THEN xy[2] ELSE gcd[<<xy[2] % xy[1], xy[1]>>]]
  BY <1>7, Zenon DEF Solves
<1> QED BY <1>8

(* gcd divides both, is a sum of multiples of both, and 0 only of zeros.   *)
IsGcd(d, a, b) ==
  /\ d \in Nat /\ Divides(d, a) /\ Divides(d, b)
  /\ a # 0 \/ b # 0 => d # 0
  /\ \E x \in Int : \E y \in Int : d = a * x + b * y

LEMMA DivisionIs ==
  ASSUME NEW n \in Nat, NEW d \in Nat \ {0}
  PROVE  /\ n % d \in Nat /\ n % d < d /\ n \div d \in Nat
         /\ (n % d) + d * (n \div d) = n
BY SMT

LEMMA GcdStep ==
  ASSUME NEW a \in Nat \ {0}, NEW b \in Nat, NEW d, IsGcd(d, b % a, a)
  PROVE  IsGcd(d, a, b)
<1>1. PICK q \in Int : q = b \div a
  BY DivisionIs
<1>2. PICK r \in Int : r = b % a
  BY DivisionIs
<1>3. r + a * q = b
  BY <1>1, <1>2, DivisionIs
<1>4. d \in Nat /\ Divides(d, r) /\ Divides(d, a) /\ d # 0
  BY <1>2 DEF IsGcd
<1>5. PICK x \in Int : \E y \in Int : d = r * x + a * y
  BY <1>2 DEF IsGcd
<1>6. PICK y \in Int : d = r * x + a * y
  BY <1>5
<1>7. Divides(d, b)
  <2>1. Divides(d, r + a * q)
    <3>1. d \in Int /\ a \in Int
      BY <1>4
    <3> QED BY <1>4, <3>1, DividesSum
  <2> QED BY <1>3, <2>1
<1>8. d = a * (y - q * x) + b * x
  <2>1. a * (y - q * x) + (r + a * q) * x = r * x + a * y
    OBVIOUS
  <2> QED BY <1>3, <1>6, <2>1
<1>9. y - q * x \in Int
  OBVIOUS
<1> QED BY <1>4, <1>7, <1>8, <1>9, Zenon DEF IsGcd

LEMMA GcdIs ==
  ASSUME NEW a \in Nat, NEW b \in Nat
  PROVE  IsGcd(gcd[<<a, b>>], a, b)
<1> DEFINE Bad == {n \in Nat : \E m \in Nat : ~IsGcd(gcd[<<n, m>>], n, m)}
<1>1. SUFFICES ASSUME Bad # {} PROVE FALSE
  OBVIOUS
<1>2. PICK n \in Bad : \A m \in Bad : ~(<<m, n>> \in OpToRel(<, Nat))
  <2>1. Bad \subseteq Nat
    OBVIOUS
  <2> HIDE DEF Bad
  <2> QED BY <1>1, <2>1, NatLessThanWellFounded, WFMin
<1>3. \A m \in Nat : m < n => m \notin Bad
  BY <1>2 DEF OpToRel
<1>4. PICK m \in Nat : ~IsGcd(gcd[<<n, m>>], n, m)
  OBVIOUS
<1>5. n \in Nat
  OBVIOUS
<1>6. CASE n = 0
  <2>1. gcd[<<n, m>>] = m
    BY <1>5, <1>6, GcdEquation
  <2>2. n = m * 0 /\ m = m * 1 /\ m = n * 0 + m * 1
    BY <1>6
  <2>3. Divides(m, n) /\ Divides(m, m)
    BY <2>2, 0 \in Int, 1 \in Int DEF Divides
  <2>4. \E x \in Int : \E y \in Int : m = n * x + m * y
    BY <2>2
  <2>5. IsGcd(m, n, m)
    BY <1>6, <2>3, <2>4 DEF IsGcd
  <2> QED BY <1>4, <2>1, <2>5
<1>7. CASE n # 0
  <2>1. m % n \in Nat /\ m % n < n
    BY <1>5, <1>7, Remainders
  <2>2. m % n \notin Bad
    BY <1>3, <2>1
  <2>3. IsGcd(gcd[<<m % n, n>>], m % n, n)
    BY <1>5, <2>1, <2>2
  <2>4. gcd[<<n, m>>] = gcd[<<m % n, n>>]
    BY <1>5, <1>7, GcdEquation
  <2>5. n \in Nat \ {0}
    BY <1>5, <1>7
  <2>6. IsGcd(gcd[<<n, m>>], n, m)
    BY <2>3, <2>4, <2>5, GcdStep
  <2> QED BY <1>4, <2>6
<1> QED BY <1>6, <1>7

LEMMA Quotients ==
  ASSUME NEW d \in Nat \ {0}, NEW n \in Nat, Divides(d, n)
  PROVE  n \div d \in Nat /\ n = d * (n \div d) /\ (n # 0 => n \div d # 0)
<1>1. n \in Int /\ n \div d \in Int /\ n % d = 0
  BY Remainders
<1>2. PICK q \in Int : q = n \div d
  BY <1>1
<1>3. n = d * q
  BY <1>1, <1>2, Remainders
<1>4. q >= 0
  <2>1. q <= -1 => d * q <= -d
    OBVIOUS
  <2> QED BY <1>3, <2>1
<1> QED BY <1>2, <1>3, <1>4

LEMMA Cancelled ==
  ASSUME NEW d \in Nat \ {0}, NEW m \in Int, NEW n \in Int, d * m = d * n
  PROVE  m = n
<1>1. PICK l \in Int : l = m - n
  OBVIOUS
<1>2. d * l = 0
  BY <1>1
<1>3. l >= 1 => d * l >= d
  OBVIOUS
<1>4. l <= -1 => d * l <= -d
  OBVIOUS
<1>5. l = 0
  BY <1>2, <1>3, <1>4
<1> QED BY <1>1, <1>5

(* lcm is a multiple of both, and divides every multiple of both.          *)
LEMMA LcmIs ==
  ASSUME NEW a \in Nat \ {0}, NEW b \in Nat \ {0}
  PROVE  /\ lcm(a, b) \in Nat \ {0}
         /\ Divides(a, lcm(a, b)) /\ Divides(b, lcm(a, b))
         /\ \A n \in Int : Divides(a, n) /\ Divides(b, n) => Divides(lcm(a, b), n)
<1> DEFINE g == gcd[<<a, b>>]
<1>1. IsGcd(g, a, b) /\ g \in Nat \ {0}
  BY GcdIs DEF IsGcd
<1> HIDE DEF g
<1>2. PICK k \in Nat : k = a \div g /\ a = g * k /\ k # 0
  BY <1>1, Quotients DEF IsGcd
<1>3. PICK l \in Nat : b = g * l
  BY <1>1, Quotients DEF IsGcd
<1>4. lcm(a, b) = k * b
  BY <1>1, <1>2 DEF lcm, g
<1>5. k * b \in Nat \ {0}
  BY <1>2
<1>6. Divides(b, k * b)
  <2>1. k * b = b * k
    OBVIOUS
  <2> QED BY <2>1 DEF Divides
<1>7. Divides(a, k * b)
  <2>1. k * (g * l) = (g * k) * l
    BY <1>1
  <2>2. k * b = a * l
    BY <1>2, <1>3, <2>1
  <2> QED BY <2>2 DEF Divides
<1>8. ASSUME NEW n \in Int, Divides(a, n), Divides(b, n) PROVE Divides(k * b, n)
  <2>1. PICK s \in Int : n = a * s
    BY <1>8 DEF Divides
  <2>2. PICK t \in Int : n = b * t
    BY <1>8 DEF Divides
  <2>3. PICK x \in Int : \E y \in Int : g = a * x + b * y
    BY <1>1 DEF IsGcd
  <2>4. PICK y \in Int : g = a * x + b * y
    BY <2>3
  <2>5. PICK c \in Int : c = x * t + y * s
    OBVIOUS
  <2>6. g * n = a * x * n + b * y * n
    BY <2>4
  <2>7. a * x * n = a * x * (b * t)
    BY <2>2
  <2>8. b * y * n = b * y * (a * s)
    BY <2>1
  <2>9. a * x * (b * t) + b * y * (a * s) = a * (b * (x * t + y * s))
    OBVIOUS
  <2>10. g * n = a * (b * c)
    BY <2>5, <2>6, <2>7, <2>8, <2>9
  <2>11. (g * k) * (b * c) = g * ((k * b) * c)
    BY <1>1
  <2>12. g * n = g * ((k * b) * c)
    BY <1>2, <2>10, <2>11
  <2>13. n = (k * b) * c
    BY <1>1, <1>5, <2>12, Cancelled
  <2> QED BY <2>13 DEF Divides
<1> QED BY <1>4, <1>5, <1>6, <1>7, <1>8

(* If b divides a multiple of a, the part of b that is not in a divides    *)
(* the multiplier.                                                         *)
LEMMA Euclid ==
  ASSUME NEW a \in Nat, NEW b \in Nat \ {0}, NEW n \in Int, Divides(b, a * n)
  PROVE  /\ b \div gcd[<<a, b>>] \in Nat \ {0}
         /\ Divides(b \div gcd[<<a, b>>], n)
<1> DEFINE g == gcd[<<a, b>>]
<1>1. IsGcd(g, a, b) /\ g \in Nat \ {0}
  BY GcdIs DEF IsGcd
<1> HIDE DEF g
<1>2. PICK l \in Nat : l = b \div g /\ b = g * l /\ l # 0
  BY <1>1, Quotients DEF IsGcd
<1>3. PICK s \in Int : a * n = b * s
  BY DEF Divides
<1>4. PICK x \in Int : \E y \in Int : g = a * x + b * y
  BY <1>1 DEF IsGcd
<1>5. PICK y \in Int : g = a * x + b * y
  BY <1>4
<1>6. PICK c \in Int : c = s * x + y * n
  OBVIOUS
<1>7. g * n = (a * n) * x + (b * y) * n
  BY <1>5
<1>8. (b * s) * x + (b * y) * n = b * (s * x + y * n)
  OBVIOUS
<1>9. g * n = b * c
  BY <1>3, <1>6, <1>7, <1>8
<1>10. (g * l) * c = g * (l * c)
  BY <1>1
<1>11. n = l * c
  BY <1>1, <1>2, <1>9, <1>10, Cancelled
<1> QED BY <1>2, <1>11 DEF Divides, g

-----------------------------------------------------------------------------
(* What is inductive: that programs stay programs, and where the sizes of  *)
(* buffers and of their wrapping dimensions come from.                     *)
CInv ==
  /\ IsProgram(prog)
  /\ stage \in {"allocated", "timed", "done"} =>
       \A a \in Arrays(prog) :
         /\ buffer_size[a] = compute_buffer_size(prog, tiling, a)
         /\ buffer_size[a] # Unbounded
  /\ stage = "done" =>
       \A a \in Arrays(prog) :
         code.buffers[a].wraps => code.buffers[a].cells = Rounded(buffer_size[a], opt)

(* The only buffers with indices that wrap are those that hold less than   *)
(* the whole array and are not shifted.                                    *)
LEMMA WrappedAreRounded ==
  ASSUME NEW p, NEW tiled, NEW periods, NEW size, NEW options,
         NEW a \in Arrays(p),
         Generated(p, tiled, periods, size, options).buffers[a].wraps
  PROVE  Generated(p, tiled, periods, size, options).buffers[a].cells
           = Rounded(size[a], options)
<1> DEFINE elements == AccessInPeriod(p, tiled, a).elements
           b == BufferFor(p.arrays[a], size[a], periods[a], elements, options)
           l == Layout(p, tiled, periods, size, options)[a]
<1>1. Generated(p, tiled, periods, size, options).buffers[a] = l
  BY DEF Generated
<1>2. \E s : l = [b EXCEPT !.on_stack = s]
  BY DEF Layout
<1> DEFINE Shape(cells, wraps, shift) ==
             [cells : {cells}, wraps : {wraps}, has_phase : BOOLEAN, shift : {shift},
              on_stack : {FALSE}]
           Made(c) == \E cells, shift :
                        \/ c \in Shape(cells, FALSE, shift)
                        \/ /\ c \in Shape(cells, TRUE, shift)
                           /\ cells = Rounded(size[a], options)
           still == [period_count |-> 1, size |-> 0, source |-> 0]
<1>3. Made(b)
  <2>1. \A n : Plain(n) \in Shape(n, FALSE, still)
    BY DEF Plain
  <2>2. \A n, s : [Plain(n) EXCEPT !.has_phase = TRUE, !.shift = s] \in Shape(n, FALSE, s)
    BY DEF Plain
  <2>3. \A t, n : WrappingBuffer(t, n) \in Shape(n, TRUE, still)
    <3> TAKE t, n
    <3>1. (t % n # 0) \in BOOLEAN
      OBVIOUS
    <3>2. \A phase \in BOOLEAN :
            [Plain(n) EXCEPT !.wraps = TRUE, !.has_phase = phase] \in Shape(n, TRUE, still)
      BY DEF Plain
    <3> HIDE DEF Shape
    <3> QED BY <3>1, <3>2 DEF WrappingBuffer
  <2>4. \A n : [Plain(n) EXCEPT !.wraps = TRUE] \in Shape(n, TRUE, still)
    BY DEF Plain
  <2> HIDE DEF Shape, still
  <2>5. \A n : Made(Plain(n))
    BY <2>1, Zenon
  <2>6. \A n, s : Made([Plain(n) EXCEPT !.has_phase = TRUE, !.shift = s])
    BY <2>2, Zenon
  <2>7. \A t : Made(WrappingBuffer(t, Rounded(size[a], options)))
    BY <2>3, Zenon
  <2>8. Made([Plain(Rounded(size[a], options)) EXCEPT !.wraps = TRUE])
    BY <2>4, Zenon
  <2> HIDE DEF Made
  <2>9. \A t, first, last : Made(ShiftingBuffer(t, first, last))
    BY <2>5, <2>6 DEF ShiftingBuffer
  <2> QED BY <2>5, <2>7, <2>8, <2>9 DEF BufferFor
<1> HIDE DEF b, l
<1>4. PICK cells, shift : \/ b \in Shape(cells, FALSE, shift)
                          \/ /\ b \in Shape(cells, TRUE, shift)
                             /\ cells = Rounded(size[a], options)
  BY <1>3
<1>5. PICK s : l = [b EXCEPT !.on_stack = s]
  BY <1>2
<1>6. CASE b \in Shape(cells, FALSE, shift)
  <2>1. l.wraps = FALSE
    BY <1>5, <1>6
  <2> QED BY <1>1, <2>1
<1>7. CASE b \in Shape(cells, TRUE, shift) /\ cells = Rounded(size[a], options)
  <2>1. l.cells = cells
    BY <1>5, <1>7
  <2> QED BY <1>1, <1>7, <2>1
<1> QED BY <1>4, <1>6, <1>7

(* Dropping instances changes no more than the domains of statements.      *)
LEMMA DroppingKeepsProgram ==
  ASSUME NEW p, IsProgram(p)
  PROVE  IsProgram(DropUnread(p))
<1> DEFINE restricted(s) == IF s.io THEN s ELSE [s EXCEPT !.domain = UsefulDomain(p, s)]
           f == [n \in 1..Len(p.stmts) |-> restricted(p.stmts[n])]
           q == [p EXCEPT !.stmts = f]
<1>1. Len(p.stmts) \in Nat /\ DOMAIN p.stmts = 1..Len(p.stmts)
  BY DEF IsProgram
<1>2. DropUnread(p) = q
  BY <1>1 DEF DropUnread, Statements
<1>3. \A n \in 1..Len(p.stmts) : IsStatement(f[n])
  <2> TAKE n \in 1..Len(p.stmts)
  <2>1. IsStatement(p.stmts[n])
    BY <1>1 DEF IsProgram
  <2>2. PICK d : f[n] = p.stmts[n] \/ f[n] = [p.stmts[n] EXCEPT !.domain = d]
    OBVIOUS
  <2> HIDE DEF f
  <2> QED BY <2>1, <2>2 DEF IsStatement
<1>4. q \in [arrays : {p.arrays}, stmts : {f}] /\ q.stmts = f /\ q.arrays = p.arrays
  <2> HIDE DEF f
  <2> QED BY DEF IsProgram
<1>5. DOMAIN f = 1..Len(f) /\ Len(f) = Len(p.stmts)
  <2>1. f \in Seq({f[n] : n \in 1..Len(p.stmts)})
    <3> HIDE DEF restricted
    <3> QED BY <1>1
  <2>2. DOMAIN f = 1..Len(p.stmts)
    OBVIOUS
  <2> HIDE DEF f
  <2> QED BY <1>1, <2>1, <2>2
<1> HIDE DEF q, f
<1> QED BY <1>1, <1>2, <1>3, <1>4, <1>5 DEF IsProgram

LEMMA CompilerInit == Init => CInv
<1> SUFFICES ASSUME Init PROVE CInv
  OBVIOUS
<1>1. IsProgram(prog) /\ stage = "generated"
  BY ProgramsAssumption DEF Init
<1> QED BY <1>1 DEF CInv

LEMMA CompilerStep == CInv /\ [Next]_vars => CInv'
<1> SUFFICES ASSUME CInv, [Next]_vars PROVE CInv'
  OBVIOUS
<1>1. CASE DropUnreadInstances
  <2>1. stage' = "useful" /\ IsProgram(prog)'
    BY <1>1, DroppingKeepsProgram DEF DropUnreadInstances, CInv
  <2> QED BY <2>1 DEF CInv
<1>2. CASE MakePeriodicSchedule
  BY <1>2 DEF MakePeriodicSchedule, CInv
<1>3. CASE ScheduleOutOfOrder \/ ScheduleNotSteady
  <2>1. stage' \in Errors /\ prog' = prog
    BY <1>3 DEF ScheduleOutOfOrder, ScheduleNotSteady, Fail, Errors
  <2> QED BY <2>1 DEF CInv, Errors, NotLast, NotSteady, TooLong, NeverWritten, NotAccessed
<1>4. CASE AllocateStorage
  <2>1. /\ stage' = "allocated" /\ prog' = prog /\ tiling' = tiling
        /\ buffer_size' = [a \in Arrays(prog) |-> compute_buffer_size(prog, tiling, a)]
    BY <1>4 DEF AllocateStorage
  <2>2. \A a \in Arrays(prog) : compute_buffer_size(prog, tiling, a) # Unbounded
    BY <1>4 DEF AllocateStorage, ArrayError, TooLong, NeverWritten, NotAccessed
  <2> QED BY <2>1, <2>2 DEF CInv
<1>5. CASE AllocationFails
  <2>1. stage' \in Errors /\ prog' = prog
    <3>1. \A a \in Arrays(prog) : ArrayError(a) # "none" => ArrayError(a) \in Errors
      BY DEF ArrayError, Errors
    <3> QED BY <1>5, <3>1 DEF AllocationFails, Fail
  <2> QED BY <2>1 DEF CInv, Errors, NotLast, NotSteady, TooLong, NeverWritten, NotAccessed
<1>6. CASE ComputeIoLatencies
  BY <1>6 DEF ComputeIoLatencies, CInv
<1>7. CASE GenerateCode
  <2>1. /\ stage = "timed" /\ stage' = "done"
        /\ UNCHANGED <<prog, opt, tiling, buffer_size>>
        /\ code' = Generated(prog, tiling, period, buffer_size, opt)
    BY <1>7 DEF GenerateCode
  <2>2. \A a \in Arrays(prog) :
          code'.buffers[a].wraps => code'.buffers[a].cells = Rounded(buffer_size[a], opt)
    BY <2>1, WrappedAreRounded
  <2> QED BY <2>1, <2>2 DEF CInv
<1>8. CASE UNCHANGED vars
  BY <1>8 DEF vars, CInv
<1> QED BY <1>1, <1>2, <1>3, <1>4, <1>5, <1>6, <1>7, <1>8 DEF Next

LEMMA SmallRemainder ==
  ASSUME NEW d \in Nat, NEW n \in Nat, d < n
  PROVE  d % n = d
<1> QED BY SMT

LEMMA ApartInCells == CInv => WrappingKeepsApart
<1> SUFFICES ASSUME CInv, stage = "done",
                    NEW a \in Arrays(prog), code.buffers[a].wraps,
                    NEW d \in ConflictDistances(Written(prog, a), ReadOut(prog, a)),
                    d # 0
             PROVE  d % code.buffers[a].cells # 0
  BY DEF WrappingKeepsApart
<1> DEFINE size == compute_buffer_size(prog, tiling, a)
<1>1. /\ IsProgram(prog) /\ size # Unbounded
      /\ code.buffers[a].cells = Rounded(size, opt)
  BY DEF CInv
<1>2. size \in Nat \ {0} /\ d \in Nat /\ d < size
  BY <1>1, DistancesWithinSize
<1> HIDE DEF size
<1>3. code.buffers[a].cells \in Nat /\ code.buffers[a].cells >= size
  <2>1. next_power_of_two(size) \in Nat /\ next_power_of_two(size) >= size
    BY <1>2, RoundedUp
  <2> QED BY <1>1, <1>2, <2>1 DEF Rounded
<1>4. d < code.buffers[a].cells
  BY <1>2, <1>3
<1>5. d % code.buffers[a].cells = d
  BY <1>2, <1>3, <1>4, SmallRemainder
<1> QED BY <1>5

(* Whatever the program and its schedule, no two elements that live        *)
(* together before the horizon share a cell of a buffer with indices that  *)
(* wrap, also when its size has been rounded up to a power of two.         *)
THEOREM WrappingIsSafe == Spec => []WrappingKeepsApart
BY CompilerInit, CompilerStep, ApartInCells, PTL DEF Spec

-----------------------------------------------------------------------------
(* The pass that drops unread instances: the members of a progression that *)
(* write what another progression reads are a progression again.           *)
LEMMA InProgressionIff ==
  ASSUME NEW g \in Progression, NEW i \in Int
  PROVE  InProgression(i, g) <=> /\ i >= g.first /\ Divides(g.stride, i - g.first)
                                 /\ g.last = Infinite \/ i <= g.last
<1>1. PICK n \in Int : n = i - g.first
  BY DEF Progression
<1>2. g.stride \in Nat \ {0}
  BY DEF Progression
<1>3. n % g.stride = 0 <=> Divides(g.stride, n)
  BY <1>2, Remainders
<1> QED BY <1>1, <1>3 DEF InProgression

LEMMA Reached ==
  ASSUME NEW a \in Access, a.mul > 0, NEW h \in Progression, NEW i \in Int,
         InProgression(i, h)
  PROVE  Reaches(a, h, Index(a, i))
<1>1. a.mul \in Nat \ {0} /\ a.off \in Int
  BY DEF Access
<1>2. PICK m \in Nat \ {0} : m = a.mul
  BY <1>1
<1>3. PICK n \in Int : n = m * i
  OBVIOUS
<1>4. Index(a, i) - a.off = n
  BY <1>1, <1>2, <1>3 DEF Index
<1>5. n % m = 0
  BY <1>3, Remainders DEF Divides
<1>6. PICK q \in Int : q = n \div m
  BY Remainders
<1>7. n = m * q
  BY <1>5, <1>6, Remainders
<1>8. q = i
  BY <1>3, <1>7, Cancelled
<1> QED BY <1>2, <1>4, <1>5, <1>6, <1>8 DEF Reaches

LEMMA ReachedFrom ==
  ASSUME NEW a \in Access, a.mul > 0, NEW h \in Progression, NEW x \in Int,
         Reaches(a, h, x)
  PROVE  \E j \in Int : x = a.mul * j + a.off /\ InProgression(j, h)
<1>1. a.mul \in Nat \ {0} /\ a.off \in Int
  BY DEF Access
<1>2. PICK m \in Nat \ {0} : m = a.mul
  BY <1>1
<1>3. PICK n \in Int : n = x - a.off
  BY <1>1
<1>4. n % m = 0 /\ InProgression(n \div m, h)
  BY <1>2, <1>3 DEF Reaches
<1>5. PICK q \in Int : q = n \div m
  BY Remainders
<1>6. n = m * q
  BY <1>4, <1>5, Remainders
<1>7. x = a.mul * q + a.off
  BY <1>1, <1>2, <1>3, <1>6
<1> QED BY <1>4, <1>5, <1>7

(* From one useful member to the next it is a multiple of the new stride.  *)
Hits(g, w, a, h) ==
  {i \in g.first..(g.first + Horizon) : InProgression(i, g) /\ Reaches(a, h, Index(w, i))}
Skip(g, w, a, h) ==
  LET step == a.mul * h.stride
  IN  IF step = 0 \/ w.mul = 0 THEN g.stride
      ELSE lcm(g.stride, step \div gcd[<<w.mul, step>>])

LEMMA SkipIs ==
  ASSUME NEW g \in Progression, NEW h \in Progression,
         NEW w \in Access, w.mul >= 0, NEW a \in Access, a.mul >= 0
  PROVE  /\ Skip(g, w, a, h) \in Nat \ {0}
         /\ Divides(g.stride, Skip(g, w, a, h))
         /\ \A m, n \in Hits(g, w, a, h) : Divides(Skip(g, w, a, h), n - m)
<1>1. PICK t \in Nat \ {0} : t = g.stride
  BY DEF Progression
<1>2. PICK u \in Nat \ {0} : u = h.stride
  BY DEF Progression
<1>3. PICK v \in Nat : v = w.mul
  BY DEF Access
<1>4. PICK b \in Nat : b = a.mul
  BY DEF Access
<1>5. PICK step \in Nat : step = b * u
  OBVIOUS
<1> DEFINE hits == Hits(g, w, a, h)
<1>6. ASSUME NEW m \in hits, NEW n \in hits
      PROVE  m \in Int /\ n \in Int /\ Divides(t, n - m)
  <2>1. /\ m \in Int /\ n \in Int /\ g.first \in Int
        /\ InProgression(m, g) /\ InProgression(n, g)
    BY DEF Hits, Progression
  <2>2. PICK k \in Int : k = m - g.first
    BY <2>1
  <2>3. PICK l \in Int : l = n - g.first
    BY <2>1
  <2>4. Divides(t, k) /\ Divides(t, l)
    BY <1>1, <2>1, <2>2, <2>3, InProgressionIff
  <2>5. Divides(t, l - k)
    BY <2>4, DividesDifference
  <2>6. l - k = n - m
    BY <2>1, <2>2, <2>3
  <2> QED BY <2>1, <2>5, <2>6
<1>7. CASE step = 0 \/ v = 0
  <2>1. Skip(g, w, a, h) = t
    BY <1>1, <1>2, <1>3, <1>4, <1>5, <1>7 DEF Skip
  <2>2. t = t * 1
    OBVIOUS
  <2>3. Divides(t, t)
    BY <2>2, 1 \in Int DEF Divides
  <2> HIDE DEF hits
  <2>4. \A m, n \in hits : Divides(t, n - m)
    BY <1>6
  <2> QED BY <1>1, <2>1, <2>3, <2>4 DEF hits
<1>8. CASE step # 0 /\ v # 0
  <2> DEFINE part == step \div gcd[<<v, step>>]
  <2>1. Skip(g, w, a, h) = lcm(t, part)
    BY <1>1, <1>2, <1>3, <1>4, <1>5, <1>8 DEF Skip
  <2>2. step \in Nat \ {0} /\ v \in Nat
    BY <1>8
  <2>3. part \in Nat \ {0}
    <3>1. v * 0 = step * 0 /\ 0 \in Int
      OBVIOUS
    <3>2. Divides(step, v * 0)
      BY <3>1 DEF Divides
    <3> QED BY <2>2, <3>1, <3>2, Euclid
  <2>4. ASSUME NEW m \in hits, NEW n \in hits PROVE Divides(part, n - m)
    <3>1. m \in Int /\ n \in Int
      BY <1>6
    <3>2. Index(w, m) \in Int /\ Index(w, n) \in Int
      BY <3>1 DEF Index, Access
    <3>3. Reaches(a, h, Index(w, m)) /\ Reaches(a, h, Index(w, n))
      BY DEF Hits
    <3>4. a.mul > 0
      BY <1>4, <1>5, <1>8
    <3>5. PICK j \in Int : Index(w, m) = a.mul * j + a.off /\ InProgression(j, h)
      BY <3>2, <3>3, <3>4, ReachedFrom
    <3>6. PICK k \in Int : Index(w, n) = a.mul * k + a.off /\ InProgression(k, h)
      BY <3>2, <3>3, <3>4, ReachedFrom
    <3>7. PICK f \in Int : f = h.first
      BY DEF Progression
    <3>8. Divides(u, j - f) /\ Divides(u, k - f)
      BY <1>2, <3>5, <3>6, <3>7, InProgressionIff
    <3>9. Divides(u, (k - f) - (j - f))
      <4>1. j - f \in Int /\ k - f \in Int
        OBVIOUS
      <4> QED BY <3>8, <4>1, DividesDifference
    <3>10. (k - f) - (j - f) = k - j
      OBVIOUS
    <3>11. PICK c \in Int : k - j = u * c
      BY <3>9, <3>10 DEF Divides
    <3>12. PICK wo \in Int, ao \in Int : wo = w.off /\ ao = a.off
      BY DEF Access
    <3>13. v * m + wo = b * j + ao /\ v * n + wo = b * k + ao
      BY <1>3, <1>4, <3>5, <3>6, <3>12 DEF Index
    <3>14. v * (n - m) = b * (k - j)
      BY <3>1, <3>13
    <3>15. b * (u * c) = (b * u) * c
      OBVIOUS
    <3>16. PICK d \in Int : d = n - m
      BY <3>1
    <3>17. v * d = step * c
      BY <1>5, <3>11, <3>14, <3>15, <3>16
    <3>18. Divides(step, v * d)
      BY <3>17 DEF Divides
    <3>19. Divides(part, d)
      BY <2>2, <3>18, Euclid
    <3> QED BY <3>16, <3>19
  <2> HIDE DEF part, hits
  <2>5. /\ lcm(t, part) \in Nat \ {0} /\ Divides(t, lcm(t, part))
        /\ \A l \in Int : Divides(t, l) /\ Divides(part, l) => Divides(lcm(t, part), l)
    BY <2>3, LcmIs
  <2>6. ASSUME NEW m \in hits, NEW n \in hits PROVE Divides(lcm(t, part), n - m)
    <3>1. PICK l \in Int : l = n - m
      BY <1>6
    <3>2. Divides(t, l) /\ Divides(part, l)
      BY <1>6, <2>4, <3>1
    <3> QED BY <2>5, <3>1, <3>2
  <2> QED BY <1>1, <2>1, <2>5, <2>6 DEF hits
<1> QED BY <1>7, <1>8

LEMMA HitsAre ==
  ASSUME NEW g \in Progression, NEW w, NEW a, NEW h, Hits(g, w, a, h) # {}
  PROVE  /\ Min(Hits(g, w, a, h)) \in Hits(g, w, a, h)
         /\ Max(Hits(g, w, a, h)) \in Hits(g, w, a, h)
         /\ \A i \in Hits(g, w, a, h) :
              /\ i \in Nat /\ InProgression(i, g) /\ i >= g.first
              /\ Min(Hits(g, w, a, h)) <= i /\ i <= Max(Hits(g, w, a, h))
<1> DEFINE hits == Hits(g, w, a, h)
<1>1. g.first \in Nat /\ Horizon \in Nat
  BY HorizonAssumption DEF Progression
<1>2. hits \subseteq g.first..(g.first + Horizon) /\ \A i \in hits : InProgression(i, g)
  BY DEF Hits
<1> HIDE DEF hits
<1>3. IsFiniteSet(g.first..(g.first + Horizon))
  BY <1>1, FS_Interval
<1>4. IsFiniteSet(hits)
  BY <1>2, <1>3, FS_Subset
<1>5. hits \in SUBSET Int /\ hits \subseteq Nat /\ hits # {}
  BY <1>1, <1>2 DEF hits
<1>6. Max(hits) \in hits /\ \A i \in hits : i <= Max(hits)
  BY <1>4, <1>5, MaxIsLargest
<1>7. Min(hits) \in hits /\ \A i \in hits : Min(hits) <= i
  <2>1. PICK n \in hits : \A m \in hits : ~(<<m, n>> \in OpToRel(<, Nat))
    BY <1>5, NatLessThanWellFounded, WFMin
  <2>2. \A m \in hits : ~(m < n)
    BY <1>5, <2>1 DEF OpToRel
  <2>3. \A m \in hits : n <= m
    BY <1>5, <2>2
  <2> QED BY <2>3 DEF Min
<1> QED BY <1>1, <1>2, <1>5, <1>6, <1>7 DEF hits

(* What UsefulPart makes of a progression: one that starts at its first    *)
(* useful member and goes on to the last, or without end.                  *)
LEMMA UsefulPartIs ==
  ASSUME NEW g \in Progression, NEW h \in Progression,
         NEW w \in Access, w.mul >= 0, NEW a \in Access, a.mul >= 0
  PROVE  /\ Hits(g, w, a, h) = {} => UsefulPart(g, w, a, h) = {}
         /\ Hits(g, w, a, h) # {} =>
              \E u \in Progression :
                /\ UsefulPart(g, w, a, h) = {u}
                /\ u.first = Min(Hits(g, w, a, h)) /\ u.stride = Skip(g, w, a, h)
                /\ u.last = g.last \/ u.last = Max(Hits(g, w, a, h))
                /\ w.mul # 0 /\ (a.mul = 0 \/ h.last # Infinite)
                     => u.last = Max(Hits(g, w, a, h))
<1> DEFINE hits == Hits(g, w, a, h)
           step == a.mul * h.stride
           endless == g.last = Infinite /\ h.last = Infinite /\ step > 0
           last == IF endless \/ w.mul = 0 THEN g.last ELSE Max(hits)
           u == [first |-> Min(hits), stride |-> Skip(g, w, a, h), last |-> last]
<1>1. UsefulPart(g, w, a, h) = IF hits = {} THEN {} ELSE {u}
  BY DEF UsefulPart, Hits, Skip
<1>2. ASSUME hits # {} PROVE u \in Progression
  <2>1. Min(hits) \in Nat /\ Max(hits) \in Nat
    BY <1>2, HitsAre
  <2>2. Skip(g, w, a, h) \in Nat \ {0}
    BY SkipIs
  <2>3. g.last \in Nat \cup {Infinite}
    BY DEF Progression
  <2> HIDE DEF hits, endless
  <2> QED BY <2>1, <2>2, <2>3 DEF Progression
<1>3. u.first = Min(hits) /\ u.stride = Skip(g, w, a, h) /\ (u.last = g.last \/ u.last = Max(hits))
  OBVIOUS
<1>4. w.mul # 0 /\ (a.mul = 0 \/ h.last # Infinite) => u.last = Max(hits)
  <2>1. h.stride \in Nat
    BY DEF Progression
  <2>2. a.mul = 0 => ~(step > 0)
    BY <2>1
  <2> QED BY <2>2
<1> HIDE DEF u
<1> QED BY <1>1, <1>2, <1>3, <1>4

LEMMA UsefulAreMembers ==
  ASSUME NEW g \in Progression, NEW h \in Progression,
         NEW w \in Access, w.mul >= 0, NEW a \in Access, a.mul >= 0,
         NEW u \in UsefulPart(g, w, a, h)
  PROVE  /\ u \in Progression /\ u.first >= g.first
         /\ \A i \in Int : InProgression(i, u) => InProgression(i, g)
<1> DEFINE hits == Hits(g, w, a, h)
           min  == Min(hits)
           skip == Skip(g, w, a, h)
<1>1. hits # {}
  BY UsefulPartIs
<1>2. /\ u \in Progression /\ u.first = min /\ u.stride = skip
      /\ u.last = g.last \/ u.last = Max(hits)
  BY <1>1, UsefulPartIs
<1>3. /\ min \in Nat /\ InProgression(min, g) /\ min >= g.first
      /\ Max(hits) \in Nat /\ InProgression(Max(hits), g)
  BY <1>1, HitsAre
<1>4. skip \in Nat \ {0} /\ Divides(g.stride, skip)
  BY SkipIs
<1> HIDE DEF hits, min, skip
<1>5. ASSUME NEW i \in Int, InProgression(i, u) PROVE InProgression(i, g)
  <2>1. g.first \in Nat /\ g.stride \in Nat \ {0} /\ g.last \in Int
    BY DEF Progression, Infinite
  <2>2. i >= min /\ Divides(skip, i - min) /\ (u.last = Infinite \/ i <= u.last)
    BY <1>2, <1>5, InProgressionIff
  <2>3. PICK k \in Int : k = i - min
    BY <1>3
  <2>4. PICK l \in Int : l = min - g.first
    BY <1>3, <2>1
  <2>5. Divides(g.stride, k)
    BY <1>4, <2>1, <2>2, <2>3, DividesTransitive
  <2>6. Divides(g.stride, l)
    BY <1>3, <2>4, InProgressionIff
  <2>7. Divides(g.stride, k + l)
    BY <2>1, <2>5, <2>6, 0 \in Int, DividesSum
  <2>8. k + l = i - g.first
    BY <1>3, <2>1, <2>3, <2>4
  <2>9. g.last = Infinite \/ i <= g.last
    <3>1. CASE u.last = g.last
      BY <2>2, <3>1
    <3>2. CASE u.last = Max(hits)
      <4>1. g.last = Infinite \/ Max(hits) <= g.last
        BY <1>3, InProgressionIff
      <4>2. i <= Max(hits)
        BY <1>3, <2>2, <3>2 DEF Infinite
      <4> QED BY <1>3, <2>1, <4>1, <4>2
    <3> QED BY <1>2, <3>1, <3>2
  <2> QED BY <1>3, <2>1, <2>2, <2>7, <2>8, <2>9, InProgressionIff
<1> QED BY <1>2, <1>3, <1>5

LEMMA HitsStay ==
  ASSUME NEW g \in Progression, NEW h \in Progression,
         NEW w \in Access, w.mul >= 0, NEW a \in Access, a.mul >= 0,
         NEW i \in Hits(g, w, a, h)
  PROVE  \E u \in UsefulPart(g, w, a, h) : InProgression(i, u)
<1> DEFINE hits == Hits(g, w, a, h)
           min  == Min(hits)
           skip == Skip(g, w, a, h)
<1>1. hits # {} /\ i \in hits
  OBVIOUS
<1>2. PICK u \in Progression :
        /\ UsefulPart(g, w, a, h) = {u} /\ u.first = min /\ u.stride = skip
        /\ u.last = g.last \/ u.last = Max(hits)
  BY <1>1, UsefulPartIs
<1>3. /\ min \in hits /\ min \in Nat /\ i \in Nat /\ InProgression(i, g)
      /\ min <= i /\ i <= Max(hits)
  BY <1>1, HitsAre
<1>4. Divides(skip, i - min)
  BY <1>3, SkipIs
<1> HIDE DEF hits, min, skip
<1>5. g.last = Infinite \/ i <= g.last
  BY <1>3, InProgressionIff
<1>6. u.last = Infinite \/ i <= u.last
  BY <1>2, <1>3, <1>5
<1>7. InProgression(i, u)
  BY <1>2, <1>3, <1>4, <1>6, InProgressionIff
<1> QED BY <1>2, <1>7

LEMMA Dropped ==
  ASSUME NEW p, IsProgram(p)
  PROVE  /\ DOMAIN DropUnread(p).stmts = DOMAIN p.stmts
         /\ Len(DropUnread(p).stmts) = Len(p.stmts)
         /\ \A n \in DOMAIN p.stmts :
              LET s == p.stmts[n]
                  t == DropUnread(p).stmts[n]
              IN  /\ t.band = s.band /\ t.rate = s.rate /\ t.start = s.start
                  /\ t.reads = s.reads /\ t.writes = s.writes
                  /\ t.domain = IF s.io THEN s.domain ELSE UsefulDomain(p, s)
<1> DEFINE restricted(s) == IF s.io THEN s ELSE [s EXCEPT !.domain = UsefulDomain(p, s)]
           f == [n \in 1..Len(p.stmts) |-> restricted(p.stmts[n])]
<1>1. Len(p.stmts) \in Nat /\ DOMAIN p.stmts = 1..Len(p.stmts)
  BY DEF IsProgram
<1>2. DropUnread(p) = [p EXCEPT !.stmts = f]
  BY <1>1 DEF DropUnread, Statements
<1>3. DropUnread(p).stmts = f
  <2> HIDE DEF f
  <2> QED BY <1>2 DEF IsProgram
<1>4. DOMAIN f = 1..Len(f) /\ Len(f) = Len(p.stmts)
  <2>1. f \in Seq({f[n] : n \in 1..Len(p.stmts)})
    <3> HIDE DEF restricted
    <3> QED BY <1>1
  <2>2. DOMAIN f = 1..Len(p.stmts)
    OBVIOUS
  <2> HIDE DEF f
  <2> QED BY <1>1, <2>1, <2>2
<1>5. ASSUME NEW n \in DOMAIN p.stmts
      PROVE  LET s == p.stmts[n]
             IN  /\ f[n].band = s.band /\ f[n].rate = s.rate /\ f[n].start = s.start
                 /\ f[n].reads = s.reads /\ f[n].writes = s.writes
                 /\ f[n].domain = IF s.io THEN s.domain ELSE UsefulDomain(p, s)
  <2>1. IsStatement(p.stmts[n])
    BY DEF IsProgram
  <2>2. f[n] = IF p.stmts[n].io THEN p.stmts[n]
               ELSE [p.stmts[n] EXCEPT !.domain = UsefulDomain(p, p.stmts[n])]
    BY <1>1
  <2> HIDE DEF f
  <2>3. CASE p.stmts[n].io
    BY <2>2, <2>3
  <2>4. CASE ~p.stmts[n].io
    <3>1. f[n] = [p.stmts[n] EXCEPT !.domain = UsefulDomain(p, p.stmts[n])]
      BY <2>2, <2>4
    <3> QED BY <2>1, <2>4, <3>1 DEF IsStatement
  <2> QED BY <2>3, <2>4
<1> HIDE DEF f
<1> QED BY <1>1, <1>3, <1>4, <1>5

(* Every statement of a scheduled program, and its accesses                *)
LEMMA StatementParts ==
  ASSUME NEW p, IsProgram(p), IsScheduled(p), NEW n \in DOMAIN p.stmts
  PROVE  LET s == p.stmts[n]
         IN  /\ s.band \in Nat /\ s.rate \in Nat \ {0} /\ s.start \in Int
             /\ \A g \in s.domain : g \in Progression /\ Time(s, g.first) >= 0
             /\ \A a \in Reads(s) \cup Writes(s) :
                  a \in Access /\ a.mul \in Nat /\ a.off \in Int
<1> DEFINE s == p.stmts[n]
<1>1. IsStatement(s)
  BY DEF IsProgram
<1>2. /\ s.rate > 0
      /\ \A g \in s.domain : g \in Progression /\ Time(s, g.first) >= 0
      /\ \A a \in Reads(s) \cup Writes(s) : a.mul >= 0
  BY DEF IsScheduled
<1> HIDE DEF s
<1>3. s.band \in Nat /\ s.rate \in Nat /\ s.start \in Int
  BY <1>1 DEF IsStatement
<1>4. s.reads \in Seq(Access) /\ s.writes \in Seq(Access)
  BY <1>1 DEF IsStatement
<1>5. \A a \in Reads(s) \cup Writes(s) : a \in Access
  BY <1>4 DEF Reads, Writes
<1>6. \A a \in Access : a.mul \in Int /\ a.off \in Int
  BY DEF Access
<1> QED BY <1>2, <1>3, <1>5, <1>6 DEF s

(* No instance is added, and those that write what is read stay.           *)
LEMMA FewerInstances ==
  ASSUME NEW p, IsProgram(p), IsScheduled(p)
  PROVE  Instances(DropUnread(p)) \subseteq Instances(p)
<1> DEFINE q == DropUnread(p)
<1>1. SUFFICES ASSUME NEW n \in DOMAIN p.stmts, NEW i \in 0..(2 * Horizon),
                      InDomain(i, q.stmts[n])
               PROVE  InDomain(i, p.stmts[n])
  <2> SUFFICES ASSUME NEW e \in Instances(q) PROVE e \in Instances(p)
    OBVIOUS
  <2>1. /\ e = <<e[1], e[2]>> /\ e[1] \in DOMAIN q.stmts /\ e[2] \in 0..(2 * Horizon)
        /\ InDomain(e[2], q.stmts[e[1]]) /\ Time(q.stmts[e[1]], e[2]) < Horizon
    BY DEF Instances, Statements
  <2>2. e[1] \in DOMAIN p.stmts
    BY <2>1, Dropped
  <2>3. Time(p.stmts[e[1]], e[2]) < Horizon
    BY <2>1, <2>2, Dropped DEF Time
  <2>4. InDomain(e[2], p.stmts[e[1]])
    BY <1>1, <2>1, <2>2
  <2> HIDE DEF q
  <2> QED BY <2>1, <2>2, <2>3, <2>4 DEF Instances, Statements
<1> DEFINE s == p.stmts[n]
<1>2. PICK u \in q.stmts[n].domain : InProgression(i, u)
  BY <1>1 DEF InDomain
<1>3. CASE s.io
  BY <1>2, <1>3, Dropped DEF InDomain
<1>4. CASE ~s.io
  <2>1. u \in UsefulDomain(p, s)
    BY <1>4, Dropped
  <2>2. PICK c \in s.domain \X Writes(s) \X ReadAccesses(p) :
          u \in UsefulPart(c[1], c[2], c[3][1], c[3][2])
    BY <2>1 DEF UsefulDomain
  <2>3. PICK m \in DOMAIN p.stmts : c[3] \in Reads(p.stmts[m]) \X p.stmts[m].domain
    BY <2>2 DEF ReadAccesses, Statements
  <2>4. /\ c[1] \in s.domain /\ c[1] \in Progression /\ c[3][2] \in Progression
        /\ c[2] \in Access /\ c[2].mul >= 0 /\ c[3][1] \in Access /\ c[3][1].mul >= 0
    <3>1. c[1] \in s.domain /\ c[2] \in Writes(s)
      BY <2>2
    <3>2. c[3][1] \in Reads(p.stmts[m]) /\ c[3][2] \in p.stmts[m].domain
      BY <2>3
    <3> QED BY <3>1, <3>2, StatementParts
  <2>5. InProgression(i, c[1])
    BY <1>1, <1>2, <2>2, <2>4, UsefulAreMembers
  <2> QED BY <2>4, <2>5 DEF InDomain
<1> QED BY <1>3, <1>4

LEMMA WritersStay ==
  ASSUME NEW p, IsProgram(p), IsScheduled(p),
         NEW r \in Instances(p), NEW a \in Reads(p.stmts[r[1]]),
         NEW w \in Instances(p), NEW b \in Writes(p.stmts[w[1]]),
         b.array = a.array, Index(b, w[2]) = Index(a, r[2])
  PROVE  w \in Instances(DropUnread(p))
<1> DEFINE q == DropUnread(p)
           s == p.stmts[w[1]]
<1>1. /\ w = <<w[1], w[2]>> /\ w[1] \in DOMAIN p.stmts /\ w[2] \in 0..(2 * Horizon)
      /\ InDomain(w[2], s) /\ Time(s, w[2]) < Horizon
  BY DEF Instances, Statements
<1>2. r[1] \in DOMAIN p.stmts /\ r[2] \in 0..(2 * Horizon) /\ InDomain(r[2], p.stmts[r[1]])
  BY DEF Instances, Statements
<1>3. PICK i \in Nat : i = w[2]
  BY <1>1, HorizonAssumption
<1>4. PICK k \in Nat : k = r[2]
  BY <1>2, HorizonAssumption
<1>5. InDomain(i, q.stmts[w[1]])
  <2>1. CASE s.io
    BY <1>1, <1>3, <2>1, Dropped DEF InDomain
  <2>2. CASE ~s.io
    <3>1. PICK g \in s.domain : InProgression(i, g)
      BY <1>1, <1>3 DEF InDomain
    <3>2. PICK h \in p.stmts[r[1]].domain : InProgression(k, h)
      BY <1>2, <1>4 DEF InDomain
    <3>3. /\ g \in Progression /\ Time(s, g.first) >= 0 /\ h \in Progression
          /\ s.rate \in Nat \ {0} /\ s.start \in Int
          /\ b \in Access /\ b.mul \in Nat /\ a \in Access /\ a.mul \in Nat /\ a.off \in Int
      BY <1>1, <1>2, StatementParts
    <3>4. i <= g.first + Horizon /\ i >= g.first
      <4>1. PICK f \in Nat : f = g.first
        BY <3>3 DEF Progression
      <4>2. PICK v \in Nat \ {0}, t \in Int : v = s.rate /\ t = s.start
        BY <3>3
      <4>3. v * i + t < Horizon /\ v * f + t >= 0
        BY <1>1, <1>3, <3>3, <4>1, <4>2 DEF Time
      <4>4. i >= f
        BY <3>1, <4>1 DEF InProgression
      <4>5. PICK d \in Nat : d = i - f
        BY <4>4
      <4>6. v * d < Horizon
        <5>1. i = f + d
          BY <4>5
        <5>2. v * (f + d) = v * f + v * d
          OBVIOUS
        <5>3. PICK vf \in Int, vd \in Int : vf = v * f /\ vd = v * d
          OBVIOUS
        <5>4. vf + vd + t < Horizon /\ vf + t >= 0
          BY <4>3, <5>1, <5>2, <5>3
        <5>5. vd < Horizon
          BY <5>4, HorizonAssumption
        <5> QED BY <5>3, <5>5
      <4>7. d <= v * d
        OBVIOUS
      <4> QED BY <4>1, <4>4, <4>5, <4>6, <4>7, HorizonAssumption
    <3>5. Reaches(a, h, Index(b, i))
      <4>1. Index(b, i) = Index(a, k)
        BY <1>3, <1>4
      <4>2. CASE a.mul = 0
        <5>1. Index(a, k) = a.off
          BY <3>3, <4>2 DEF Index
        <5> QED BY <4>1, <4>2, <5>1 DEF Reaches
      <4>3. CASE a.mul > 0
        BY <3>2, <3>3, <4>1, <4>3, Reached
      <4> QED BY <3>3, <4>2, <4>3
    <3>6. i \in Hits(g, b, a, h)
      <4>1. g.first \in Nat
        BY <3>3 DEF Progression
      <4> QED BY <3>1, <3>4, <3>5, <4>1, HorizonAssumption DEF Hits
    <3>7. PICK u \in UsefulPart(g, b, a, h) : InProgression(i, u)
      BY <3>3, <3>6, HitsStay
    <3>8. u \in UsefulDomain(p, s)
      <4>1. <<a, h>> \in ReadAccesses(p)
        BY <1>2, <3>2 DEF ReadAccesses, Statements
      <4>2. PICK c : c = <<g, b, <<a, h>>>>
        OBVIOUS
      <4>3. /\ c \in s.domain \X Writes(s) \X ReadAccesses(p)
            /\ c[2].array = c[3][1].array
            /\ u \in UsefulPart(c[1], c[2], c[3][1], c[3][2])
        BY <3>1, <3>7, <4>1, <4>2
      <4> QED BY <4>3 DEF UsefulDomain
    <3>9. u \in q.stmts[w[1]].domain
      BY <1>1, <2>2, <3>8, Dropped
    <3> QED BY <3>7, <3>9 DEF InDomain
  <2> QED BY <2>1, <2>2
<1>6. DOMAIN q.stmts = DOMAIN p.stmts
  BY Dropped
<1>7. Time(q.stmts[w[1]], w[2]) < Horizon
  BY <1>1, Dropped DEF Time
<1> HIDE DEF q
<1>8. w \in Instances(q)
  BY <1>1, <1>3, <1>5, <1>6, <1>7 DEF Instances, Statements
<1> QED BY <1>8 DEF q

LEMMA FlowKept ==
  ASSUME NEW p, IsProgram(p), IsScheduled(p), RespectsDataFlow(p)
  PROVE  RespectsDataFlow(DropUnread(p))
<1> DEFINE q == DropUnread(p)
<1>1. \A e \in Instances(p) :
        /\ Reads(q.stmts[e[1]]) = Reads(p.stmts[e[1]])
        /\ Writes(q.stmts[e[1]]) = Writes(p.stmts[e[1]])
        /\ Key(q, e) = Key(p, e)
  <2>1. \A e \in Instances(p) : e[1] \in DOMAIN p.stmts
    BY DEF Instances, Statements
  <2> QED BY <2>1, Dropped DEF Reads, Writes, Key, Time
<1>2. Instances(q) \subseteq Instances(p)
  BY FewerInstances
<1>3. SUFFICES ASSUME NEW r \in Instances(q), NEW a \in Reads(q.stmts[r[1]])
               PROVE  \E w \in Instances(q) : \E b \in Writes(q.stmts[w[1]]) :
                        /\ b.array = a.array /\ Index(b, w[2]) = Index(a, r[2])
                        /\ Key(q, w) < Key(q, r)
  BY DEF RespectsDataFlow
<1>4. r \in Instances(p) /\ a \in Reads(p.stmts[r[1]])
  BY <1>1, <1>2
<1>5. PICK w \in Instances(p) : \E b \in Writes(p.stmts[w[1]]) :
        /\ b.array = a.array /\ Index(b, w[2]) = Index(a, r[2])
        /\ Key(p, w) < Key(p, r)
  BY <1>4 DEF RespectsDataFlow
<1>6. w \in Instances(q)
  BY <1>4, <1>5, WritersStay
<1> HIDE DEF q
<1> QED BY <1>1, <1>4, <1>5, <1>6

(* The program that is worked on is the generated one until the pass, and  *)
(* what the pass made of it ever after.                                    *)
DInv ==
  /\ IsProgram(source) /\ IsScheduled(source)
  /\ prog = IF stage = "generated" THEN source ELSE DropUnread(source)

LEMMA DroppedOnce == Spec => []DInv
<1>1. Init => DInv
  BY ProgramsAssumption DEF Init, DInv
<1>2. DInv /\ [Next]_vars => DInv'
  <2> SUFFICES ASSUME DInv, [Next]_vars PROVE DInv'
    OBVIOUS
  <2>1. CASE DropUnreadInstances
    BY <2>1 DEF DropUnreadInstances, DInv
  <2>2. CASE MakePeriodicSchedule \/ AllocateStorage \/ ComputeIoLatencies \/ GenerateCode
    BY <2>2 DEF MakePeriodicSchedule, AllocateStorage, ComputeIoLatencies, GenerateCode, DInv
  <2>3. CASE ScheduleOutOfOrder \/ ScheduleNotSteady
    BY <2>3 DEF ScheduleOutOfOrder, ScheduleNotSteady, Fail, DInv, NotLast, NotSteady
  <2>4. CASE AllocationFails
    <3>1. stage = "scheduled" /\ UNCHANGED <<source, prog>> /\ stage' \in Errors
      <4>1. \A a \in Arrays(prog) : ArrayError(a) # "none" => ArrayError(a) \in Errors
        BY DEF ArrayError, Errors
      <4> QED BY <2>4, <4>1 DEF AllocationFails, Fail
    <3>2. stage' # "generated"
      BY <3>1 DEF Errors, NotLast, NotSteady, TooLong, NeverWritten, NotAccessed
    <3> QED BY <3>1, <3>2 DEF DInv
  <2>5. CASE UNCHANGED vars
    BY <2>5 DEF vars, DInv
  <2> QED BY <2>1, <2>2, <2>3, <2>4, <2>5 DEF Next
<1> QED BY <1>1, <1>2, PTL DEF Spec

(* If, in the order of the schedule, all that is read has been written     *)
(* before, it still has when the instances are gone whose elements nobody  *)
(* reads: the pass keeps every instance that anyone depends on, however    *)
(* strides and multipliers of its writes and of the reads compare.         *)
THEOREM NothingNeededIsDropped == Spec => []NothingMissing
<1>1. DInv => NothingMissing
  BY FlowKept DEF DInv, NothingMissing
<1> QED BY <1>1, DroppedOnce, PTL

(* The congruence of indices once more, the other way round: a stride on   *)
(* from a member that writes what is read there is another one.            *)
LEMMA StrideReaches ==
  ASSUME NEW t \in Nat \ {0}, NEW v \in Nat \ {0}, NEW step \in Nat \ {0}, NEW d \in Int,
         Divides(lcm(t, step \div gcd[<<v, step>>]), d)
  PROVE  Divides(step, v * d)
<1> DEFINE f == gcd[<<v, step>>]
<1>1. IsGcd(f, v, step) /\ f \in Nat \ {0}
  BY GcdIs DEF IsGcd
<1> HIDE DEF f
<1>2. PICK part \in Nat \ {0} : part = step \div f /\ step = f * part
  BY <1>1, Quotients DEF IsGcd
<1>3. PICK k \in Int : v = f * k
  BY <1>1 DEF IsGcd, Divides
<1>4. Divides(part, d)
  <2>1. lcm(t, part) \in Nat \ {0} /\ Divides(part, lcm(t, part))
    BY LcmIs
  <2>2. Divides(lcm(t, part), d)
    BY <1>2 DEF f
  <2> QED BY <2>1, <2>2, DividesTransitive
<1>5. PICK c \in Int : d = part * c
  BY <1>4 DEF Divides
<1>6. (f * k) * (part * c) = (f * part) * (k * c)
  BY <1>1
<1>7. v * d = step * (k * c)
  BY <1>2, <1>3, <1>5, <1>6
<1>8. k * c \in Int
  OBVIOUS
<1> QED BY <1>7, <1>8 DEF Divides

(* All that UsefulPart keeps of a progression writes what is read, also    *)
(* far behind the members that it has looked at.                           *)
LEMMA UsefulAreRead ==
  ASSUME NEW g \in Progression, NEW h \in Progression,
         NEW w \in Access, w.mul >= 0, NEW a \in Access, a.mul >= 0,
         NEW u \in UsefulPart(g, w, a, h), NEW i \in Int, InProgression(i, u)
  PROVE  Reaches(a, h, Index(w, i))
<1> DEFINE hits == Hits(g, w, a, h)
           min  == Min(hits)
           max  == Max(hits)
<1>1. hits # {}
  BY UsefulPartIs
<1>2. /\ u \in Progression /\ u.first = min /\ u.stride = Skip(g, w, a, h)
      /\ w.mul # 0 /\ (a.mul = 0 \/ h.last # Infinite) => u.last = max
  BY <1>1, UsefulPartIs
<1>3. min \in hits /\ max \in hits /\ min \in Nat /\ max \in Nat
  BY <1>1, HitsAre
<1>4. Reaches(a, h, Index(w, min)) /\ Reaches(a, h, Index(w, max))
  BY <1>3 DEF Hits
<1> HIDE DEF hits, min, max
<1>5. i >= min /\ Divides(Skip(g, w, a, h), i - min) /\ (u.last = Infinite \/ i <= u.last)
  BY <1>2, <1>3, InProgressionIff
<1>6. PICK v \in Nat, o \in Int : v = w.mul /\ o = w.off
  BY DEF Access
<1>7. PICK b \in Nat, ao \in Int : b = a.mul /\ ao = a.off
  BY DEF Access
<1>8. CASE v = 0
  <2>1. Index(w, i) = o /\ Index(w, min) = o
    BY <1>3, <1>6, <1>8 DEF Index
  <2> QED BY <1>4, <2>1
<1>9. CASE v # 0 /\ b = 0
  <2>1. Index(w, min) = ao /\ Index(w, max) = ao
    BY <1>4, <1>7, <1>9 DEF Reaches
  <2>2. v * min + o = v * max + o
    BY <1>6, <2>1 DEF Index
  <2>3. v * min = v * max
    <3>1. PICK x \in Int, y \in Int : x = v * min /\ y = v * max
      BY <1>3
    <3> QED BY <2>2, <3>1
  <2>4. min = max
    BY <1>3, <1>9, <2>3, Cancelled
  <2>5. i <= max
    BY <1>2, <1>3, <1>5, <1>6, <1>7, <1>9 DEF Infinite
  <2>6. i = min
    BY <1>3, <1>5, <2>4, <2>5
  <2> QED BY <1>4, <2>6
<1>10. CASE v # 0 /\ b # 0
  <2>1. a.mul > 0
    BY <1>7, <1>10
  <2>2. Index(w, min) \in Int /\ Index(w, max) \in Int
    BY <1>3, <1>6 DEF Index
  <2>3. PICK j \in Int : Index(w, min) = a.mul * j + a.off /\ InProgression(j, h)
    BY <1>4, <2>1, <2>2, ReachedFrom
  <2>4. PICK l \in Int : Index(w, max) = a.mul * l + a.off /\ InProgression(l, h)
    BY <1>4, <2>1, <2>2, ReachedFrom
  <2>5. PICK t \in Nat \ {0}, s \in Nat \ {0} : t = g.stride /\ s = h.stride
    BY DEF Progression
  <2>6. PICK step \in Nat \ {0} : step = b * s
    BY <1>10
  <2>7. Skip(g, w, a, h) = lcm(t, step \div gcd[<<v, step>>])
    BY <1>6, <1>7, <1>10, <2>5, <2>6 DEF Skip
  <2>8. PICK d \in Nat : d = i - min
    BY <1>3, <1>5
  <2>9. Divides(step, v * d)
    <3>1. Divides(lcm(t, step \div gcd[<<v, step>>]), d)
      BY <1>5, <2>7, <2>8
    <3> QED BY <1>10, <3>1, StrideReaches
  <2>10. PICK e \in Int : v * d = step * e
    BY <2>9 DEF Divides
  <2>11. PICK se \in Int : se = s * e
    OBVIOUS
  <2>12. v * d = b * se
    <3>1. (b * s) * e = b * (s * e)
      OBVIOUS
    <3> QED BY <2>6, <2>10, <2>11, <3>1
  <2>13. se >= 0
    <3>1. v * d >= 0
      OBVIOUS
    <3>2. se <= -1 => b * se <= -b
      OBVIOUS
    <3> QED BY <1>10, <2>12, <3>1, <3>2
  <2> DEFINE k == j + se
  <2>14. Index(w, i) = Index(a, k)
    <3>1. v * min + o = b * j + ao
      BY <1>6, <1>7, <2>3 DEF Index
    <3>2. v * i = v * min + v * d
      BY <1>3, <2>8
    <3>3. b * (j + se) = b * j + b * se
      OBVIOUS
    <3>4. PICK x \in Int, y \in Int, z \in Int : x = v * min /\ y = b * j /\ z = v * d
      BY <1>3
    <3>5. Index(w, i) = (x + z) + o /\ Index(a, k) = (y + z) + ao
      BY <1>6, <1>7, <2>12, <3>2, <3>3, <3>4 DEF Index
    <3> QED BY <3>1, <3>4, <3>5
  <2>15. InProgression(k, h)
    <3>1. PICK f \in Nat : f = h.first
      BY DEF Progression
    <3>2. j >= f /\ Divides(s, j - f) /\ (h.last = Infinite \/ l <= h.last)
      BY <2>3, <2>4, <2>5, <3>1, InProgressionIff
    <3>3. Divides(s, se)
      BY <2>11 DEF Divides
    <3>4. Divides(s, k - f)
      <4>1. PICK x \in Int : x = j - f
        OBVIOUS
      <4>2. Divides(s, x + se)
        <5>1. Divides(s, x)
          BY <3>2, <4>1
        <5>2. s \in Int
          OBVIOUS
        <5> QED BY <3>3, <5>1, <5>2, DividesSum
      <4>3. PICK y \in Int : y = k - f
        OBVIOUS
      <4>4. x + se = y
        BY <4>1, <4>3
      <4>5. Divides(s, y)
        BY <4>2, <4>4
      <4> QED BY <4>3, <4>5
    <3>5. h.last = Infinite \/ k <= h.last
      <4>1. CASE h.last # Infinite
        <5>1. i <= max
          BY <1>2, <1>3, <1>5, <1>6, <1>10, <4>1 DEF Infinite
        <5>2. v * i <= v * max
          <6>1. PICK x \in Nat : x = max - i
            BY <1>3, <5>1
          <6>2. v * max = v * i + v * x /\ v * x >= 0
            BY <1>3, <6>1
          <6> QED BY <1>3, <6>2
        <5>3. b * k <= b * l
          <6>1. v * max + o = b * l + ao /\ v * i + o = b * k + ao
            BY <1>6, <1>7, <2>4, <2>14 DEF Index
          <6>2. PICK x \in Int, y \in Int, z \in Int, q \in Int :
                  x = v * max /\ y = b * l /\ z = v * i /\ q = b * k
            BY <1>3
          <6> QED BY <5>2, <6>1, <6>2
        <5>4. k <= l
          <6>1. k - l >= 1 => b * (k - l) >= b
            OBVIOUS
          <6>2. b * k = b * l + b * (k - l)
            OBVIOUS
          <6>3. PICK x \in Int, y \in Int, z \in Int : x = b * k /\ y = b * l /\ z = b * (k - l)
            OBVIOUS
          <6> QED BY <1>10, <5>3, <6>1, <6>2, <6>3
        <5>5. h.last \in Int
          BY <4>1 DEF Progression
        <5> QED BY <3>2, <4>1, <5>4, <5>5
      <4> QED BY <4>1
    <3> QED BY <2>5, <2>13, <3>1, <3>2, <3>4, <3>5, InProgressionIff
  <2> HIDE DEF k
  <2>16. k \in Int
    BY DEF k
  <2> QED BY <2>1, <2>14, <2>15, <2>16, Reached
<1> QED BY <1>8, <1>9, <1>10

LEMMA KeptAreRead ==
  ASSUME NEW p, IsProgram(p), IsScheduled(p), NEW n \in DOMAIN p.stmts, ~p.stmts[n].io,
         NEW i \in Int, InDomain(i, DropUnread(p).stmts[n])
  PROVE  \E b \in Writes(p.stmts[n]) : IsRead(p, b.array, Index(b, i))
<1> DEFINE s == p.stmts[n]
<1>1. PICK u \in UsefulDomain(p, s) : InProgression(i, u)
  BY Dropped DEF InDomain
<1>2. PICK c \in s.domain \X Writes(s) \X ReadAccesses(p) :
        u \in UsefulPart(c[1], c[2], c[3][1], c[3][2]) /\ c[2].array = c[3][1].array
  BY DEF UsefulDomain
<1>3. PICK m \in DOMAIN p.stmts : c[3] \in Reads(p.stmts[m]) \X p.stmts[m].domain
  BY <1>2 DEF ReadAccesses, Statements
<1>4. /\ c[1] \in s.domain /\ c[1] \in Progression /\ c[3][2] \in Progression
      /\ c[2] \in Access /\ c[2].mul >= 0 /\ c[3][1] \in Access /\ c[3][1].mul >= 0
  <2>1. c[1] \in s.domain /\ c[2] \in Writes(s)
    BY <1>2
  <2>2. c[3][1] \in Reads(p.stmts[m]) /\ c[3][2] \in p.stmts[m].domain
    BY <1>3
  <2> QED BY <2>1, <2>2, StatementParts
<1>5. Reaches(c[3][1], c[3][2], Index(c[2], i))
  BY <1>1, <1>2, <1>4, UsefulAreRead
<1>6. c[3] \in ReadAccesses(p) /\ c[2] \in Writes(s)
  BY <1>2
<1>7. IsRead(p, c[2].array, Index(c[2], i))
  BY <1>2, <1>5, <1>6 DEF IsRead
<1> QED BY <1>6, <1>7

(* The pass looks at the reads of the program as it was, so it goes all    *)
(* the way only if no reader goes with it; and it leaves inputs alone.     *)
ReadersStay(p) ==
  \A a \in Nat : \A x \in Int : IsRead(p, a, x) => IsRead(DropUnread(p), a, x)
InputsRead(p) ==
  \A e \in Instances(p) : p.stmts[e[1]].io =>
    \A a \in Writes(p.stmts[e[1]]) : IsRead(p, a.array, Index(a, e[2]))
OneWrite(p) ==
  \A n \in DOMAIN p.stmts : \A v, w \in Writes(p.stmts[n]) : v = w

LEMMA DroppedWell ==
  ASSUME NEW p, IsProgram(p), IsScheduled(p), OneWrite(p), InputsRead(p), ReadersStay(p)
  PROVE  NoUnrelatedWrites(DropUnread(p))
<1> DEFINE q == DropUnread(p)
<1> SUFFICES ASSUME NEW e \in Instances(q), NEW a \in Writes(q.stmts[e[1]])
             PROVE  IsRead(q, a.array, Index(a, e[2]))
  BY DEF NoUnrelatedWrites
<1>1. e \in Instances(p)
  BY FewerInstances
<1>2. /\ e[1] \in DOMAIN q.stmts /\ e[2] \in 0..(2 * Horizon) /\ InDomain(e[2], q.stmts[e[1]])
  BY DEF Instances, Statements
<1>3. e[1] \in DOMAIN p.stmts /\ Writes(q.stmts[e[1]]) = Writes(p.stmts[e[1]])
  BY <1>2, Dropped DEF Writes
<1>4. PICK i \in Nat : i = e[2]
  BY <1>2, HorizonAssumption
<1>5. a \in Writes(p.stmts[e[1]]) /\ a.array \in Nat /\ a.mul \in Nat /\ a.off \in Int
  <2>1. a \in Writes(p.stmts[e[1]])
    BY <1>3
  <2>2. a \in Access /\ a.mul \in Nat /\ a.off \in Int
    BY <1>3, <2>1, StatementParts
  <2> QED BY <2>1, <2>2 DEF Access
<1>6. IsRead(p, a.array, Index(a, e[2]))
  <2>1. CASE p.stmts[e[1]].io
    BY <1>1, <1>5, <2>1 DEF InputsRead
  <2>2. CASE ~p.stmts[e[1]].io
    <3>1. PICK b \in Writes(p.stmts[e[1]]) : IsRead(p, b.array, Index(b, i))
      BY <1>2, <1>3, <1>4, <2>2, KeptAreRead
    <3>2. b = a
      BY <1>3, <1>5 DEF OneWrite
    <3> QED BY <1>4, <3>1, <3>2
  <2> QED BY <2>1, <2>2
<1>7. Index(a, e[2]) \in Int
  BY <1>4, <1>5 DEF Index
<1> QED BY <1>5, <1>6, <1>7 DEF ReadersStay

(* What the pass keeps, other than inputs and outputs, writes something    *)
(* that was read: strides, ends and multipliers of the writes that it      *)
(* works out are not too generous, in any domain.                          *)
THEOREM NothingUnreadIsKept ==
  Spec => [](stage # "generated" =>
               \A e \in Instances(prog) :
                 source.stmts[e[1]].io
                   \/ \E a \in Writes(source.stmts[e[1]]) : IsRead(source, a.array, Index(a, e[2])))
<1>1. ASSUME DInv, stage # "generated", NEW e \in Instances(prog), ~source.stmts[e[1]].io
      PROVE  \E a \in Writes(source.stmts[e[1]]) : IsRead(source, a.array, Index(a, e[2]))
  <2>1. prog = DropUnread(source) /\ IsProgram(source) /\ IsScheduled(source)
    BY <1>1 DEF DInv
  <2>2. /\ e[1] \in DOMAIN prog.stmts /\ e[2] \in 0..(2 * Horizon)
        /\ InDomain(e[2], prog.stmts[e[1]])
    BY DEF Instances, Statements
  <2>3. e[1] \in DOMAIN source.stmts
    BY <2>1, <2>2, Dropped
  <2>4. PICK i \in Int : i = e[2]
    BY <2>2, HorizonAssumption
  <2> QED BY <1>1, <2>1, <2>2, <2>3, <2>4, KeptAreRead
<1>2. DInv => (stage # "generated" =>
                 \A e \in Instances(prog) :
                   source.stmts[e[1]].io
                     \/ \E a \in Writes(source.stmts[e[1]]) :
                          IsRead(source, a.array, Index(a, e[2])))
  BY <1>1
<1> QED BY <1>2, DroppedOnce, PTL

(* The storage allocator's assumption holds of every program whose inputs  *)
(* are read and whose readers are all of use to someone themselves.        *)
THEOREM AllThatIsWrittenIsRead ==
  Spec => [](OneWrite(source) /\ InputsRead(source) /\ ReadersStay(source) => WritesAreRead)
<1>1. DInv => (OneWrite(source) /\ InputsRead(source) /\ ReadersStay(source) => WritesAreRead)
  BY DroppedWell DEF DInv, WritesAreRead
<1> QED BY <1>1, DroppedOnce, PTL

-----------------------------------------------------------------------------
(* Folds over sequences: the equation of a fold has a solution, whose value *)
(* for a sequence comes step by step from its values for shorter ones.     *)
LEMMA MaxOfInterval ==
  ASSUME NEW k \in Nat, NEW s \in SUBSET (1..k), s # {}
  PROVE  /\ Max(s) \in s /\ s \ {Max(s)} \in SUBSET (1..k)
         /\ k \in s => Max(s) = k
<1>1. IsFiniteSet(s) /\ s \in SUBSET Int
  <2>1. 1 \in Int /\ k \in Int
    OBVIOUS
  <2>2. IsFiniteSet(1..k)
    BY <2>1, FS_Interval
  <2>3. IsFiniteSet(s)
    BY <2>2, FS_Subset
  <2>4. s \in SUBSET Int
    OBVIOUS
  <2> QED BY <2>3, <2>4
<1>2. Max(s) \in s /\ \A x \in s : x <= Max(s)
  BY <1>1, MaxIsLargest
<1>3. ASSUME k \in s PROVE Max(s) = k
  <2>1. PICK m \in 1..k : m = Max(s)
    BY <1>2
  <2>2. k <= m
    BY <1>2, <1>3, <2>1
  <2> QED BY <2>1, <2>2
<1> QED BY <1>2, <1>3

Solution(g, n, V, base, step) ==
  /\ g \in [SUBSET (1..n) -> V]
  /\ \A s \in SUBSET (1..n) :
       g[s] = IF s = {} THEN base ELSE step[Max(s)][g[s \ {Max(s)}]]

LEMMA FoldSolution ==
  ASSUME NEW n \in Nat, NEW V, NEW base \in V, NEW step \in [1..n -> [V -> V]]
  PROVE  \E g : Solution(g, n, V, base, step)
<1> DEFINE Solves(g, k) ==
             /\ g \in [SUBSET (1..k) -> V]
             /\ g[{}] = base
             /\ \A s \in SUBSET (1..k) : s # {} => g[s] = step[Max(s)][g[s \ {Max(s)}]]
           Bad == {k \in 0..n : \A g : ~Solves(g, k)}
<1>1. Bad = {}
  <2> SUFFICES ASSUME Bad # {} PROVE FALSE
    OBVIOUS
  <2>1. PICK m \in Bad : \A k \in Bad : ~(<<k, m>> \in OpToRel(<, Nat))
    <3>1. Bad \subseteq Nat
      OBVIOUS
    <3> HIDE DEF Bad
    <3> QED BY <3>1, NatLessThanWellFounded, WFMin
  <2>2. m \in 0..n /\ \A g : ~Solves(g, m)
    OBVIOUS
  <2>3. CASE m = 0
    <3> DEFINE g == [s \in SUBSET (1..0) |-> base]
    <3>1. 1..0 = {} /\ {} \in SUBSET (1..0) /\ \A s \in SUBSET (1..0) : s = {}
      OBVIOUS
    <3>2. Solves(g, 0)
      BY <3>1
    <3> HIDE DEF Solves
    <3> QED BY <2>2, <2>3, <3>2
  <2>4. CASE m # 0
    <3>1. m - 1 \in 0..n /\ m - 1 < m /\ m \in 1..n /\ m - 1 \in Nat /\ m \in Nat
      BY <2>2, <2>4
    <3>2. m - 1 \notin Bad
      <4> HIDE DEF Bad
      <4> QED BY <2>1, <3>1 DEF OpToRel
    <3>3. PICK g : Solves(g, m - 1)
      <4> HIDE DEF Solves
      <4> QED BY <3>1, <3>2
    <3> DEFINE h == [s \in SUBSET (1..m) |->
                       IF m \in s THEN step[m][g[s \ {m}]] ELSE g[s]]
    <3>4. ASSUME NEW s \in SUBSET (1..m)
          PROVE  /\ m \in s => s \ {m} \in SUBSET (1..(m - 1))
                 /\ m \notin s => s \in SUBSET (1..(m - 1))
      BY <3>1
    <3>5. h \in [SUBSET (1..m) -> V]
      <4>1. step[m] \in [V -> V]
        BY <3>1
      <4>2. \A s \in SUBSET (1..m) : (IF m \in s THEN step[m][g[s \ {m}]] ELSE g[s]) \in V
        BY <3>3, <3>4, <4>1
      <4> QED BY <4>2
    <3>6. h[{}] = base
      <4>1. {} \in SUBSET (1..m)
        OBVIOUS
      <4> QED BY <3>3, <4>1
    <3>7. ASSUME NEW s \in SUBSET (1..m), s # {}
          PROVE  h[s] = step[Max(s)][h[s \ {Max(s)}]]
      <4>1. CASE m \in s
        <5>1. Max(s) = m
          BY <3>1, <3>7, <4>1, MaxOfInterval
        <5>2. s \ {m} \in SUBSET (1..m) /\ m \notin s \ {m}
          OBVIOUS
        <5>3. h[s \ {m}] = g[s \ {m}]
          BY <5>2
        <5> QED BY <4>1, <5>1, <5>3
      <4>2. CASE m \notin s
        <5>1. s \in SUBSET (1..(m - 1))
          BY <3>4, <4>2
        <5>2. g[s] = step[Max(s)][g[s \ {Max(s)}]]
          BY <3>3, <3>7, <5>1
        <5>3. s \ {Max(s)} \in SUBSET (1..m) /\ m \notin s \ {Max(s)}
          BY <4>2
        <5>4. h[s] = g[s] /\ h[s \ {Max(s)}] = g[s \ {Max(s)}]
          BY <4>2, <5>3
        <5> QED BY <5>2, <5>4
      <4> QED BY <4>1, <4>2
    <3> HIDE DEF h
    <3>8. Solves(h, m)
      BY <3>5, <3>6, <3>7
    <3> HIDE DEF Solves
    <3> QED BY <2>2, <3>8
  <2> QED BY <2>3, <2>4
<1>2. n \in 0..n
  OBVIOUS
<1>3. PICK g : Solves(g, n)
  <2> HIDE DEF Solves
  <2> QED BY <1>1, <1>2
<1>4. {} \in SUBSET (1..n)
  OBVIOUS
<1>5. Solution(g, n, V, base, step)
  BY <1>3, <1>4 DEF Solution
<1> QED BY <1>5

(* What is known of a fold that need not stay among the values V           *)
Folds(iter, n, V, base, step) ==
  /\ iter[{}] = base
  /\ \A s \in SUBSET (1..n) :
       s # {} /\ iter[s \ {Max(s)}] \in V => iter[s] = step[Max(s)][iter[s \ {Max(s)}]]
StepByStep(iter, n, V, base, step) ==
  /\ iter[1..n] \in V /\ iter[1..0] = base
  /\ \A k \in 1..n : iter[1..(k - 1)] \in V /\ iter[1..k] = step[k][iter[1..(k - 1)]]

LEMMA FoldSteps ==
  ASSUME NEW n \in Nat, NEW V, NEW base \in V, NEW step \in [1..n -> [V -> V]],
         NEW iter, Folds(iter, n, V, base, step)
  PROVE  StepByStep(iter, n, V, base, step)
<1> USE DEF Folds
<1>1. 1..0 = {}
  OBVIOUS
<1>2. ASSUME NEW k \in 1..n, iter[1..(k - 1)] \in V
      PROVE  iter[1..k] = step[k][iter[1..(k - 1)]] /\ iter[1..k] \in V
  <2>1. (1..k) \in SUBSET (1..n) /\ 1..k # {} /\ k \in Nat /\ k \in 1..k
    OBVIOUS
  <2>2. Max(1..k) = k
    BY <2>1, MaxOfInterval
  <2>3. (1..k) \ {k} = 1..(k - 1)
    OBVIOUS
  <2>4. iter[1..k] = step[k][iter[1..(k - 1)]]
    BY <1>2, <2>1, <2>2, <2>3
  <2>5. step[k] \in [V -> V]
    OBVIOUS
  <2> QED BY <1>2, <2>4, <2>5
<1> DEFINE Bad == {k \in 0..n : iter[1..k] \notin V}
<1>3. Bad = {}
  <2> SUFFICES ASSUME Bad # {} PROVE FALSE
    OBVIOUS
  <2>1. PICK m \in Bad : \A k \in Bad : ~(<<k, m>> \in OpToRel(<, Nat))
    <3>1. Bad \subseteq Nat
      OBVIOUS
    <3> HIDE DEF Bad
    <3> QED BY <3>1, NatLessThanWellFounded, WFMin
  <2>2. m \in 0..n /\ iter[1..m] \notin V
    OBVIOUS
  <2>3. m # 0
    BY <1>1, <2>2
  <2>4. m \in 1..n /\ m - 1 \in 0..n /\ m - 1 < m /\ m - 1 \in Nat /\ m \in Nat
    BY <2>2, <2>3
  <2>5. m - 1 \notin Bad
    <3> HIDE DEF Bad
    <3> QED BY <2>1, <2>4 DEF OpToRel
  <2>6. iter[1..(m - 1)] \in V
    BY <2>4, <2>5
  <2> QED BY <1>2, <2>2, <2>4, <2>6
<1>4. \A k \in 0..n : iter[1..k] \in V
  BY <1>3
<1>5. \A k \in 1..n : k - 1 \in 0..n
  OBVIOUS
<1>6. iter[1..0] = base
  BY <1>1
<1>7. n \in 0..n
  OBVIOUS
<1> QED BY <1>2, <1>4, <1>5, <1>6, <1>7 DEF StepByStep

(* Concatenation of sequences of sequences                                 *)
LEMMA Flattened ==
  ASSUME NEW T, NEW seqs \in Seq(Seq(T))
  PROVE  /\ FlattenSeq(seqs) \in Seq(T)
         /\ \A k \in 1..Len(seqs) : \A m \in 1..Len(seqs[k]) :
              \E l \in 1..Len(FlattenSeq(seqs)) : FlattenSeq(seqs)[l] = seqs[k][m]
<1> DEFINE n == Len(seqs)
           Solves(g, k) == /\ g \in [1..k -> Seq(T)]
                           /\ \A i \in 1..k : g[i] = IF i = 1 THEN seqs[i] ELSE g[i - 1] \o seqs[i]
           Bad == {k \in 0..n : \A g : ~Solves(g, k)}
<1>1. n \in Nat /\ \A i \in 1..n : seqs[i] \in Seq(T)
  OBVIOUS
<1> HIDE DEF n
<1>2. Bad = {}
  <2> SUFFICES ASSUME Bad # {} PROVE FALSE
    OBVIOUS
  <2>1. PICK m \in Bad : \A k \in Bad : ~(<<k, m>> \in OpToRel(<, Nat))
    <3>1. Bad \subseteq Nat
      BY <1>1
    <3> HIDE DEF Bad
    <3> QED BY <3>1, NatLessThanWellFounded, WFMin
  <2>2. m \in 0..n /\ \A g : ~Solves(g, m)
    OBVIOUS
  <2>3. m # 0
    <3>1. Solves([i \in 1..0 |-> <<>>], 0)
      OBVIOUS
    <3> HIDE DEF Solves
    <3> QED BY <2>2, <3>1
  <2>4. m \in 1..n /\ m - 1 \in 0..n /\ m - 1 < m /\ m - 1 \in Nat /\ m \in Nat
    BY <1>1, <2>2, <2>3
  <2>5. m - 1 \notin Bad
    <3> HIDE DEF Bad
    <3> QED BY <2>1, <2>4 DEF OpToRel
  <2>6. PICK g : Solves(g, m - 1)
    <3> HIDE DEF Solves
    <3> QED BY <2>4, <2>5
  <2> DEFINE last == IF m = 1 THEN seqs[m] ELSE g[m - 1] \o seqs[m]
             h == [i \in 1..m |-> IF i = m THEN last ELSE g[i]]
  <2>7. last \in Seq(T)
    <3>1. CASE m = 1
      BY <1>1, <2>4, <3>1
    <3>2. CASE m # 1
      <4>1. m - 1 \in 1..(m - 1)
        BY <2>4, <3>2
      <4>2. g[m - 1] \in Seq(T) /\ seqs[m] \in Seq(T)
        BY <1>1, <2>4, <2>6, <4>1
      <4> QED BY <3>2, <4>2
    <3> QED BY <3>1, <3>2
  <2>8. h \in [1..m -> Seq(T)]
    <3>1. \A i \in 1..m : i # m => g[i] \in Seq(T)
      BY <2>4, <2>6
    <3> HIDE DEF last
    <3> QED BY <2>7, <3>1
  <2>9. ASSUME NEW i \in 1..m
        PROVE  h[i] = IF i = 1 THEN seqs[i] ELSE h[i - 1] \o seqs[i]
    <3>1. CASE i = m
      <4>1. h[m] = last
        BY <2>4
      <4>2. m # 1 => h[m - 1] = g[m - 1]
        BY <2>4
      <4> HIDE DEF h
      <4> QED BY <3>1, <4>1, <4>2
    <3>2. CASE i # m
      <4>1. i \in 1..(m - 1) /\ h[i] = g[i]
        BY <2>4, <3>2
      <4>2. i # 1 => i - 1 \in 1..m /\ h[i - 1] = g[i - 1]
        BY <2>4, <3>2
      <4>3. g[i] = IF i = 1 THEN seqs[i] ELSE g[i - 1] \o seqs[i]
        BY <2>6, <4>1
      <4> HIDE DEF h
      <4> QED BY <4>1, <4>2, <4>3
    <3> QED BY <3>1, <3>2
  <2> HIDE DEF h
  <2>10. Solves(h, m)
    BY <2>8, <2>9
  <2> HIDE DEF Solves
  <2> QED BY <2>2, <2>10
<1>3. PICK g : Solves(g, n)
  <2>1. n \in 0..n
    BY <1>1
  <2> HIDE DEF Solves
  <2> QED BY <1>2, <2>1
<1> DEFINE Eq(f) == f = [i \in 1..n |-> IF i = 1 THEN seqs[i] ELSE f[i - 1] \o seqs[i]]
           f == CHOOSE f : Eq(f)
<1>4. Eq(g)
  BY <1>3
<1>5. Eq(f)
  <2> HIDE DEF Eq
  <2> QED BY <1>4
<1>6. \A i \in 1..n : f[i] = IF i = 1 THEN seqs[i] ELSE f[i - 1] \o seqs[i]
  BY <1>5, Zenon
<1>7. FlattenSeq(seqs) = IF n = 0 THEN seqs ELSE f[n]
  BY DEF FlattenSeq, n
<1> HIDE DEF f
<1> DEFINE Holds(k) ==
             /\ f[k] \in Seq(T)
             /\ \A i \in 1..k : \A m \in 1..Len(seqs[i]) :
                  \E l \in 1..Len(f[k]) : f[k][l] = seqs[i][m]
           Wrong == {k \in 1..n : ~Holds(k)}
<1>8. Wrong = {}
  <2> SUFFICES ASSUME Wrong # {} PROVE FALSE
    OBVIOUS
  <2>1. PICK k \in Wrong : \A i \in Wrong : ~(<<i, k>> \in OpToRel(<, Nat))
    <3>1. Wrong \subseteq Nat
      BY <1>1
    <3> HIDE DEF Wrong
    <3> QED BY <3>1, NatLessThanWellFounded, WFMin
  <2>2. k \in 1..n /\ ~Holds(k)
    OBVIOUS
  <2>3. CASE k = 1
    <3>1. f[k] = seqs[k] /\ seqs[k] \in Seq(T)
      BY <1>1, <1>6, <2>2, <2>3
    <3>2. \A i \in 1..k : i = k
      BY <2>3
    <3>3. Holds(k)
      BY <3>1, <3>2
    <3> QED BY <2>2, <3>3
  <2>4. CASE k # 1
    <3>1. k - 1 \in 1..n /\ k - 1 < k /\ k - 1 \in Nat /\ k \in Nat
      BY <1>1, <2>2, <2>4
    <3>2. k - 1 \notin Wrong
      <4> HIDE DEF Wrong
      <4> QED BY <2>1, <3>1 DEF OpToRel
    <3>3. Holds(k - 1)
      <4> HIDE DEF Holds
      <4> QED BY <3>1, <3>2
    <3>4. PICK a \in Seq(T) : a = f[k - 1]
      BY <3>3
    <3>5. PICK b \in Seq(T) : b = seqs[k]
      BY <1>1, <2>2
    <3>6. f[k] = a \o b
      BY <1>6, <2>2, <2>4, <3>4, <3>5
    <3>7. /\ a \o b \in Seq(T) /\ Len(a \o b) = Len(a) + Len(b)
          /\ \A i \in 1..Len(a) : i \in 1..Len(a \o b) /\ (a \o b)[i] = a[i]
          /\ \A i \in 1..Len(b) : i + Len(a) \in 1..Len(a \o b) /\ (a \o b)[i + Len(a)] = b[i]
      OBVIOUS
    <3>8. ASSUME NEW i \in 1..k, NEW m \in 1..Len(seqs[i])
          PROVE  \E l \in 1..Len(a \o b) : (a \o b)[l] = seqs[i][m]
      <4>1. CASE i = k
        BY <3>5, <3>7, <4>1
      <4>2. CASE i # k
        <5>1. i \in 1..(k - 1)
          BY <3>1, <4>2
        <5>2. PICK l \in 1..Len(a) : a[l] = seqs[i][m]
          BY <3>3, <3>4, <5>1
        <5> QED BY <3>7, <5>2
      <4> QED BY <4>1, <4>2
    <3> QED BY <2>2, <3>6, <3>7, <3>8
  <2> QED BY <2>3, <2>4
<1> HIDE DEF Holds
<1>9. \A k \in 1..n : Holds(k)
  BY <1>8
<1>10. CASE n = 0
  <2>1. seqs \in Seq(T)
    <3>1. seqs = <<>>
      BY <1>10 DEF n
    <3> QED BY <3>1
  <2> QED BY <1>7, <1>10, <2>1 DEF n
<1>11. CASE n # 0
  <2>1. n \in 1..n
    BY <1>1, <1>11
  <2>2. Holds(n) /\ FlattenSeq(seqs) = f[n]
    BY <1>7, <1>9, <1>11, <2>1
  <2> QED BY <2>2 DEF Holds, n
<1> QED BY <1>10, <1>11

LEMMA SetAsSequence ==
  ASSUME NEW S, IsFiniteSet(S)
  PROVE  /\ SetToSeq(S) \in Seq(S)
         /\ \A x \in S : \E i \in 1..Len(SetToSeq(S)) : SetToSeq(S)[i] = x
<1> DEFINE n == Cardinality(S)
           f == SetToSeq(S)
<1>1. n \in Nat /\ ExistsBijection(1..n, S)
  BY FS_CardinalityType
<1>2. PICK b : b \in Bijection(1..n, S)
  BY <1>1 DEF ExistsBijection
<1>3. b \in [1..n -> S] /\ IsInjective(b)
  BY <1>2 DEF Bijection, Injection, IsInjective
<1>4. f \in [1..n -> S] /\ IsInjective(f)
  BY <1>3 DEF SetToSeq
<1> HIDE DEF f
<1>5. f \in Injection(1..n, S)
  BY <1>4 DEF Injection, IsInjective
<1>6. Cardinality(1..n) = n
  <2>1. 1 \in Int /\ n \in Int
    BY <1>1
  <2>2. Cardinality(1..n) = IF 1 > n THEN 0 ELSE n - 1 + 1
    BY <2>1, FS_Interval
  <2> HIDE DEF n
  <2> QED BY <1>1, <2>2
<1>7. f \in Surjection(1..n, S)
  BY <1>5, <1>6, FS_Injection
<1>8. \A x \in S : \E i \in 1..n : f[i] = x
  BY <1>7 DEF Surjection
<1> HIDE DEF n
<1>9. f \in Seq(S) /\ Len(f) = n
  BY <1>1, <1>4
<1> QED BY <1>8, <1>9 DEF f

(* What is known of an access, and where it comes from                     *)
Info == [array : Nat, time_period : Nat, data_offset : Nat, first_time : Nat, last_time : Int]
MadeFrom(p, info) ==
  \E n \in DOMAIN p.stmts :
    /\ p.stmts[n].band = LastBand(p)
    /\ \E a \in Reads(p.stmts[n]) \cup Writes(p.stmts[n]) :
       \E g \in p.stmts[n].domain : info = AccessInfo(p.stmts[n], a, g)

LEMMA InfoParts ==
  ASSUME NEW p, IsProgram(p), IsScheduled(p), NEW n \in DOMAIN p.stmts,
         NEW a \in Reads(p.stmts[n]) \cup Writes(p.stmts[n]), NEW g \in p.stmts[n].domain
  PROVE  AccessInfo(p.stmts[n], a, g) \in Info
<1> DEFINE s == p.stmts[n]
<1>1. /\ s.rate \in Nat \ {0} /\ s.start \in Int
      /\ g \in Progression /\ Time(s, g.first) >= 0
      /\ a \in Access /\ a.mul \in Nat
  BY StatementParts
<1> HIDE DEF s
<1>2. g.first \in Nat /\ g.stride \in Nat \ {0} /\ g.last \in Int /\ a.array \in Nat
  BY <1>1 DEF Progression, Access, Infinite
<1>3. Time(s, g.first) \in Nat /\ Time(s, g.last) \in Int
  BY <1>1, <1>2 DEF Time
<1>4. s.rate * g.stride \in Nat /\ a.mul * g.stride \in Nat
  BY <1>1, <1>2
<1> QED BY <1>2, <1>3, <1>4 DEF AccessInfo, Info, Infinite, s

AccessList(s) == s.reads \o s.writes
LEMMA AccessListed ==
  ASSUME NEW s, IsStatement(s)
  PROVE  /\ AccessList(s) \in Seq(Reads(s) \cup Writes(s))
         /\ \A a \in Reads(s) \cup Writes(s) :
              \E k \in 1..Len(AccessList(s)) : AccessList(s)[k] = a
<1> DEFINE R == s.reads
           W == s.writes
           A == Reads(s) \cup Writes(s)
<1>1. R \in Seq(Access) /\ W \in Seq(Access)
  BY DEF IsStatement
<1>2. R \in Seq(A) /\ W \in Seq(A)
  BY <1>1 DEF Reads, Writes
<1>3. \A a \in A : \/ \E k \in 1..Len(R) : R[k] = a
                   \/ \E k \in 1..Len(W) : W[k] = a
  BY <1>1 DEF Reads, Writes
<1> HIDE DEF R, W, A
<1>4. /\ R \o W \in Seq(A)
      /\ \A k \in 1..Len(R) : k \in 1..Len(R \o W) /\ (R \o W)[k] = R[k]
      /\ \A k \in 1..Len(W) : k + Len(R) \in 1..Len(R \o W) /\ (R \o W)[k + Len(R)] = W[k]
  BY <1>2
<1>5. \A a \in A : \E k \in 1..Len(R \o W) : (R \o W)[k] = a
  BY <1>3, <1>4
<1> QED BY <1>4, <1>5 DEF R, W, A, AccessList

LEMMA InfosOfAre ==
  ASSUME NEW p, IsProgram(p), IsScheduled(p), NEW S
  PROVE  /\ InfosOf(p, S) \in Seq({i \in Info : MadeFrom(p, i)})
         /\ \A n \in DOMAIN p.stmts : n \in S /\ p.stmts[n].band = LastBand(p) =>
              \A a \in Reads(p.stmts[n]) \cup Writes(p.stmts[n]) :
              \A g \in p.stmts[n].domain :
                \E l \in 1..Len(InfosOf(p, S)) :
                  InfosOf(p, S)[l] = AccessInfo(p.stmts[n], a, g)
<1> DEFINE T == {i \in Info : MadeFrom(p, i)}
           accesses(s) == AccessList(s)
           pieces(s) == SetToSeq(s.domain)
           row(s, k) == [m \in DOMAIN pieces(s) |-> AccessInfo(s, accesses(s)[k], pieces(s)[m])]
           rows(s) == [k \in DOMAIN accesses(s) |-> row(s, k)]
           part(n) == IF n \in S /\ p.stmts[n].band = LastBand(p)
                      THEN FlattenSeq(rows(p.stmts[n])) ELSE <<>>
           parts == [n \in Statements(p) |-> part(n)]
<1>1. InfosOf(p, S) = FlattenSeq(parts)
  BY DEF InfosOf, AccessList
<1>2. Len(p.stmts) \in Nat /\ DOMAIN p.stmts = 1..Len(p.stmts)
  BY DEF IsProgram
<1>3. ASSUME NEW n \in DOMAIN p.stmts, p.stmts[n].band = LastBand(p)
      PROVE  /\ FlattenSeq(rows(p.stmts[n])) \in Seq(T)
             /\ \A a \in Reads(p.stmts[n]) \cup Writes(p.stmts[n]) :
                \A g \in p.stmts[n].domain :
                  \E l \in 1..Len(FlattenSeq(rows(p.stmts[n]))) :
                    FlattenSeq(rows(p.stmts[n]))[l] = AccessInfo(p.stmts[n], a, g)
  <2> DEFINE s == p.stmts[n]
             A == Reads(s) \cup Writes(s)
  <2>1. IsFiniteSet(s.domain)
    BY DEF IsScheduled
  <2>2. /\ pieces(s) \in Seq(s.domain)
        /\ \A g \in s.domain : \E m \in 1..Len(pieces(s)) : pieces(s)[m] = g
    BY <2>1, SetAsSequence
  <2>3. /\ accesses(s) \in Seq(A)
        /\ \A a \in A : \E k \in 1..Len(accesses(s)) : accesses(s)[k] = a
    <3>1. IsStatement(s)
      BY DEF IsProgram
    <3> HIDE DEF s
    <3> QED BY <3>1, AccessListed, Zenon
  <2>4. \A a \in A : \A g \in s.domain : AccessInfo(s, a, g) \in T
    BY <1>3, InfoParts DEF MadeFrom
  <2> HIDE DEF s, A, T, pieces, accesses
  <2>5. ASSUME NEW k \in 1..Len(accesses(s))
        PROVE  row(s, k) \in Seq(T) /\ Len(row(s, k)) = Len(pieces(s))
    <3>1. accesses(s)[k] \in A
      BY <2>3
    <3>2. Len(pieces(s)) \in Nat /\ DOMAIN pieces(s) = 1..Len(pieces(s))
      BY <2>2
    <3>3. \A m \in 1..Len(pieces(s)) : AccessInfo(s, accesses(s)[k], pieces(s)[m]) \in T
      BY <2>2, <2>4, <3>1
    <3> QED BY <3>2, <3>3
  <2>6. Len(accesses(s)) \in Nat /\ DOMAIN accesses(s) = 1..Len(accesses(s))
    BY <2>3
  <2>7. rows(s) \in Seq(Seq(T)) /\ Len(rows(s)) = Len(accesses(s))
    <3> HIDE DEF row
    <3> QED BY <2>5, <2>6
  <2> DEFINE flat == FlattenSeq(rows(s))
  <2>8. /\ flat \in Seq(T)
        /\ \A k \in 1..Len(rows(s)) : \A m \in 1..Len(rows(s)[k]) :
             \E l \in 1..Len(flat) : flat[l] = rows(s)[k][m]
    <3> HIDE DEF rows
    <3> QED BY <2>7, Flattened
  <2>9. ASSUME NEW a \in A, NEW g \in s.domain
        PROVE  \E l \in 1..Len(flat) : flat[l] = AccessInfo(s, a, g)
    <3>1. PICK k \in 1..Len(accesses(s)) : accesses(s)[k] = a
      BY <2>3
    <3>2. PICK m \in 1..Len(pieces(s)) : pieces(s)[m] = g
      BY <2>2
    <3>3. rows(s)[k] = row(s, k) /\ k \in 1..Len(rows(s))
      BY <2>6, <2>7
    <3>4. row(s, k)[m] = AccessInfo(s, a, g)
      BY <2>2, <3>1, <3>2
    <3>5. m \in 1..Len(row(s, k))
      BY <2>5
    <3> HIDE DEF rows, row, flat
    <3>6. m \in 1..Len(rows(s)[k]) /\ rows(s)[k][m] = AccessInfo(s, a, g)
      BY <3>3, <3>4, <3>5, Zenon
    <3>7. PICK l \in 1..Len(flat) : flat[l] = rows(s)[k][m]
      BY <2>8, <3>3, <3>6, Zenon
    <3> QED BY <3>6, <3>7, Zenon
  <2> HIDE DEF flat
  <2> QED BY <2>8, <2>9 DEF s, A, flat
<1>4. ASSUME NEW n \in DOMAIN p.stmts PROVE part(n) \in Seq(T)
  <2>1. <<>> \in Seq(T)
    OBVIOUS
  <2> HIDE DEF T, rows
  <2> QED BY <1>3, <2>1
<1> HIDE DEF T, rows
<1>5. parts \in Seq(Seq(T)) /\ Len(parts) = Len(p.stmts)
  <2> HIDE DEF part
  <2> QED BY <1>2, <1>4 DEF Statements
<1>6. \A n \in DOMAIN p.stmts : parts[n] = part(n)
  <2> HIDE DEF part
  <2> QED BY DEF Statements
<1> HIDE DEF parts
<1>7. /\ FlattenSeq(parts) \in Seq(T)
      /\ \A n \in 1..Len(parts) : \A m \in 1..Len(parts[n]) :
           \E l \in 1..Len(FlattenSeq(parts)) : FlattenSeq(parts)[l] = parts[n][m]
  BY <1>5, Flattened
<1>8. ASSUME NEW n \in DOMAIN p.stmts, n \in S, p.stmts[n].band = LastBand(p),
             NEW a \in Reads(p.stmts[n]) \cup Writes(p.stmts[n]), NEW g \in p.stmts[n].domain
      PROVE  \E l \in 1..Len(InfosOf(p, S)) :
               InfosOf(p, S)[l] = AccessInfo(p.stmts[n], a, g)
  <2>1. parts[n] = FlattenSeq(rows(p.stmts[n])) /\ n \in 1..Len(parts)
    BY <1>2, <1>5, <1>6, <1>8
  <2>2. PICK m \in 1..Len(parts[n]) : parts[n][m] = AccessInfo(p.stmts[n], a, g)
    BY <1>3, <1>8, <2>1
  <2> QED BY <1>1, <1>7, <2>1, <2>2
<1>9. InfosOf(p, S) \in Seq(T)
  BY <1>1, <1>7
<1> QED BY <1>8, <1>9 DEF T

LEMMA Joined ==
  ASSUME NEW T, NEW a \in Seq(T), NEW b \in Seq(T)
  PROVE  /\ a \o b \in Seq(T)
         /\ \A l \in 1..Len(a) : l \in 1..Len(a \o b) /\ (a \o b)[l] = a[l]
         /\ \A l \in 1..Len(b) : /\ l + Len(a) \in 1..Len(a \o b)
                                /\ (a \o b)[l + Len(a)] = b[l]
OBVIOUS

LEMMA InfosAre ==
  ASSUME NEW p, IsProgram(p), IsScheduled(p)
  PROVE  /\ AccessInfos(p) \in Seq({i \in Info : MadeFrom(p, i)})
         /\ \A n \in DOMAIN p.stmts : p.stmts[n].band = LastBand(p) =>
              \A a \in Reads(p.stmts[n]) \cup Writes(p.stmts[n]) :
              \A g \in p.stmts[n].domain :
                \E l \in 1..Len(AccessInfos(p)) :
                  AccessInfos(p)[l] = AccessInfo(p.stmts[n], a, g)
<1> DEFINE T == {i \in Info : MadeFrom(p, i)}
           io == {n \in Statements(p) : p.stmts[n].io}
           rest == Statements(p) \ io
           first == InfosOf(p, io)
           then == InfosOf(p, rest)
           infos == first \o then
<1>1. AccessInfos(p) = infos
  BY DEF AccessInfos
<1>2. \A n \in DOMAIN p.stmts : n \in io \/ n \in rest
  <2> HIDE DEF io
  <2> QED BY DEF Statements
<1> HIDE DEF io, rest
<1>3. first \in Seq(T) /\ then \in Seq(T)
  BY InfosOfAre
<1>4. ASSUME NEW n \in DOMAIN p.stmts, p.stmts[n].band = LastBand(p),
             NEW a \in Reads(p.stmts[n]) \cup Writes(p.stmts[n]), NEW g \in p.stmts[n].domain
      PROVE  \E l \in 1..Len(infos) : infos[l] = AccessInfo(p.stmts[n], a, g)
  <2> DEFINE info == AccessInfo(p.stmts[n], a, g)
  <2>1. CASE n \in io
    <3>1. PICK l \in 1..Len(first) : first[l] = info
      BY <1>4, <2>1, InfosOfAre, Zenon
    <3> HIDE DEF first, then, T, info
    <3>2. l \in 1..Len(infos) /\ infos[l] = first[l]
      BY <1>3, Joined, Zenon
    <3> QED BY <3>1, <3>2, Zenon DEF info
  <2>2. CASE n \in rest
    <3>1. PICK l \in 1..Len(then) : then[l] = info
      BY <1>4, <2>2, InfosOfAre, Zenon
    <3> HIDE DEF first, then, T, info
    <3>2. l + Len(first) \in 1..Len(infos) /\ infos[l + Len(first)] = then[l]
      BY <1>3, <3>1, Joined
    <3> QED BY <3>1, <3>2, Zenon DEF info
  <2> QED BY <1>2, <2>1, <2>2, Zenon
<1> HIDE DEF T, first, then
<1>5. infos \in Seq(T)
  BY <1>3, Joined, Zenon
<1> QED BY <1>1, <1>4, <1>5, Zenon DEF T

LEMMA LeastOf ==
  ASSUME NEW S \in SUBSET Nat, S # {}
  PROVE  \E m \in S : \A k \in Nat : k < m => k \notin S
<1>1. PICK m \in S : \A k \in S : ~(<<k, m>> \in OpToRel(<, Nat))
  BY NatLessThanWellFounded, WFMin
<1> QED BY <1>1 DEF OpToRel

(* The size of the period: every statement repeats in it.                  *)
LEMMA CommonPeriod ==
  ASSUME NEW infos \in Seq(Info), NEW o, o.period_scale \in Nat \ {0}
  PROVE  LET size == find_periodic_tiling(infos, o).size
         IN  /\ size \in Nat \ {0}
             /\ \A n \in 1..Len(infos) :
                  infos[n].time_period # 0 => Divides(infos[n].time_period, size)
<1> DEFINE n == Len(infos)
           V == Nat \ {0}
           t(k) == infos[k].time_period
           next(v, k) == IF t(k) = 0 THEN v ELSE lcm(v, t(k))
           step == [k \in 1..n |-> [v \in V |-> next(v, k)]]
           Eq(f) == f = [s \in SUBSET (1..n) |->
                           IF s = {} THEN 1 ELSE next(f[s \ {Max(s)}], Max(s))]
           iter == CHOOSE f : Eq(f)
<1>1. n \in Nat /\ DOMAIN infos = 1..n /\ \A k \in 1..n : t(k) \in Nat
  <2>1. \A i \in Info : i.time_period \in Nat
    BY DEF Info
  <2>2. n \in Nat /\ DOMAIN infos = 1..n /\ \A k \in 1..n : infos[k] \in Info
    OBVIOUS
  <2> QED BY <2>1, <2>2
<1>2. find_periodic_tiling(infos, o).size = iter[1..n] * o.period_scale
  BY <1>1 DEF find_periodic_tiling, FoldLeft, MapThenFoldSet
<1> HIDE DEF n, t
<1>3. ASSUME NEW v \in V, NEW k \in 1..n
      PROVE  /\ next(v, k) \in V /\ Divides(v, next(v, k))
             /\ t(k) # 0 => Divides(t(k), next(v, k))
  <2>1. CASE t(k) = 0
    <3>1. v = v * 1
      OBVIOUS
    <3> QED BY <2>1, <3>1 DEF Divides
  <2>2. CASE t(k) # 0
    <3>1. t(k) \in Nat \ {0}
      BY <1>1, <2>2
    <3> QED BY <2>2, <3>1, LcmIs
  <2> QED BY <2>1, <2>2
<1>4. step \in [1..n -> [V -> V]] /\ 1 \in V
  <2> HIDE DEF next
  <2> QED BY <1>3
<1>5. PICK g : Solution(g, n, V, 1, step)
  <2> HIDE DEF step, V
  <2> QED BY <1>1, <1>4, FoldSolution
<1>6. \A s \in SUBSET (1..n) : s # {} => Max(s) \in 1..n /\ s \ {Max(s)} \in SUBSET (1..n)
  BY <1>1, MaxOfInterval
<1>7. Eq(g)
  <2>1. \A s \in SUBSET (1..n) :
          g[s] = IF s = {} THEN 1 ELSE next(g[s \ {Max(s)}], Max(s))
    <3> HIDE DEF next, V
    <3> QED BY <1>5, <1>6 DEF Solution
  <2> HIDE DEF next, V
  <2> QED BY <1>5, <2>1 DEF Solution
<1>8. Eq(iter)
  <2> HIDE DEF Eq
  <2> QED BY <1>7
<1> HIDE DEF iter
<1>9. iter[{}] = 1
  BY <1>8
<1>10. ASSUME NEW s \in SUBSET (1..n), s # {}, iter[s \ {Max(s)}] \in V
       PROVE  iter[s] = step[Max(s)][iter[s \ {Max(s)}]]
  <2> HIDE DEF next, V
  <2> QED BY <1>6, <1>8, <1>10
<1> HIDE DEF step, Eq
<1>11. StepByStep(iter, n, V, 1, step)
  <2> HIDE DEF V
  <2>1. Folds(iter, n, V, 1, step)
    BY <1>9, <1>10 DEF Folds
  <2> QED BY <1>1, <1>4, <2>1, FoldSteps
<1>12. \A k \in 1..n : iter[1..k] = next(iter[1..(k - 1)], k)
  <2> HIDE DEF next, V
  <2> QED BY <1>11 DEF step, StepByStep
<1> DEFINE Divided(k) == \A i \in 1..k : t(i) # 0 => Divides(t(i), iter[1..k])
           Wrong == {k \in 0..n : ~Divided(k)}
<1>13. Wrong = {}
  <2> SUFFICES ASSUME Wrong # {} PROVE FALSE
    OBVIOUS
  <2>1. PICK k \in Wrong : \A i \in Nat : i < k => i \notin Wrong
    <3>1. Wrong \in SUBSET Nat
      BY <1>1
    <3> HIDE DEF Wrong
    <3> QED BY <3>1, LeastOf
  <2>2. k \in 0..n /\ ~Divided(k)
    OBVIOUS
  <2>3. k # 0
    BY <2>2
  <2>4. k \in 1..n /\ k - 1 \in 0..n /\ k - 1 < k /\ k - 1 \in Nat
    BY <1>1, <2>2, <2>3
  <2>5. Divided(k - 1)
    <3>1. k - 1 \notin Wrong
      BY <2>1, <2>4
    <3> HIDE DEF Divided
    <3> QED BY <2>4, <3>1
  <2>6. PICK v \in V : v = iter[1..(k - 1)]
    BY <1>11, <2>4 DEF StepByStep
  <2>7. iter[1..k] = next(v, k)
    BY <1>12, <2>4, <2>6
  <2>8. ASSUME NEW i \in 1..k, t(i) # 0 PROVE Divides(t(i), next(v, k))
    <3>1. next(v, k) \in V /\ Divides(v, next(v, k)) /\ (t(k) # 0 => Divides(t(k), next(v, k)))
      BY <1>3, <2>4
    <3> HIDE DEF next
    <3>2. CASE i = k
      BY <2>8, <3>1, <3>2
    <3>3. CASE i # k
      <4>1. i \in 1..(k - 1) /\ i \in 1..n
        BY ONLY <1>1, <2>4, <3>3, i \in 1..k
      <4>2. Divides(t(i), v) /\ t(i) \in Int
        BY <1>1, <2>5, <2>6, <2>8, <4>1
      <4> QED BY <3>1, <4>2, DividesTransitive
    <3> QED BY <3>2, <3>3
  <2> HIDE DEF next
  <2> QED BY <2>2, <2>7, <2>8
<1>14. \A i \in 1..n : t(i) # 0 => Divides(t(i), iter[1..n])
  <2>1. n \in 0..n
    BY <1>1
  <2>2. Divided(n)
    <3> HIDE DEF Divided
    <3> QED BY <1>13, <2>1
  <2> QED BY <2>2
<1>15. PICK v \in V : v = iter[1..n]
  BY <1>11 DEF StepByStep
<1>16. PICK c \in V : c = o.period_scale
  OBVIOUS
<1>17. v * c \in V
  OBVIOUS
<1>18. ASSUME NEW i \in 1..n, t(i) # 0 PROVE Divides(t(i), v * c)
  <2>1. t(i) \in Int
    BY <1>1
  <2>2. Divides(t(i), iter[1..n])
    BY <1>14, <1>18
  <2>3. Divides(t(i), v) /\ v \in Int /\ c \in Int
    BY <1>15, <2>2
  <2> QED BY <2>1, <2>3, DividesProduct
<1> QED BY <1>2, <1>15, <1>16, <1>17, <1>18 DEF n, t

(* Its offset: from there on there is nothing but repetition.              *)
LEMMA LatestOnset ==
  ASSUME NEW infos \in Seq(Info), NEW o, o.period_offset \in Nat
  PROVE  LET offset == find_periodic_tiling(infos, o).offset
         IN  /\ offset \in Nat
             /\ \A n \in 1..Len(infos) :
                  find_period_onset(infos[n]) \in Int /\ find_period_onset(infos[n]) <= offset
<1> DEFINE onset == [n \in 1..Len(infos) |-> find_period_onset(infos[n])]
           all == {onset[n] : n \in 1..Len(infos)}
<1>1. DOMAIN infos = 1..Len(infos) /\ Len(infos) \in Nat
  OBVIOUS
<1>2. \A n \in 1..Len(infos) : find_period_onset(infos[n]) \in Int
  <2>1. \A n \in 1..Len(infos) : infos[n] \in Info
    OBVIOUS
  <2>2. \A i \in Info : find_period_onset(i) \in Int
    BY DEF Info, find_period_onset
  <2> QED BY <2>1, <2>2
<1>3. IsFiniteSet(all)
  <2>1. 1 \in Int /\ Len(infos) \in Int
    BY <1>1
  <2>2. IsFiniteSet(1..Len(infos))
    BY <2>1, FS_Interval
  <2> HIDE DEF onset
  <2> QED BY <2>2, FiniteImage
<1>4. \A n \in 1..Len(infos) : onset[n] = find_period_onset(infos[n])
  OBVIOUS
<1>5. all = {find_period_onset(infos[n]) : n \in 1..Len(infos)}
  BY <1>4
<1>6. all \in SUBSET Int
  BY <1>2, <1>5
<1>7. \A n \in 1..Len(infos) : find_period_onset(infos[n]) \in all
  BY <1>5
<1> HIDE DEF all, onset
<1> DEFINE from == {0} \cup all
<1>8. IsFiniteSet(from) /\ from \in SUBSET Int /\ 0 \in from
  <2>1. IsFiniteSet({0})
    BY FS_Singleton
  <2>2. IsFiniteSet({0} \cup all)
    BY <1>3, <2>1, FS_Union
  <2> QED BY <1>6, <2>2
<1>9. Max(from) \in from /\ \A x \in from : x <= Max(from)
  <2> HIDE DEF from
  <2> QED BY <1>8, MaxIsLargest
<1>10. find_periodic_tiling(infos, o).offset = Max(from) + o.period_offset
  BY <1>1, <1>5 DEF find_periodic_tiling
<1>11. PICK m \in Nat : m = Max(from)
  <2> HIDE DEF from
  <2>1. PICK m \in Int : m = Max(from)
    BY <1>8, <1>9
  <2>2. 0 <= m
    BY <1>8, <1>9, <2>1
  <2>3. m \in Nat
    BY <2>2
  <2> QED BY <2>1, <2>3
<1>12. \A n \in 1..Len(infos) : find_period_onset(infos[n]) <= m
  BY <1>7, <1>9, <1>11
<1> HIDE DEF from
<1>13. PICK e \in Nat : e = o.period_offset
  OBVIOUS
<1>14. find_periodic_tiling(infos, o).offset = m + e
  BY <1>10, <1>11, <1>13
<1>15. m + e \in Nat /\ \A x \in Int : x <= m => x <= m + e
  OBVIOUS
<1> QED BY <1>2, <1>12, <1>14, <1>15

-----------------------------------------------------------------------------
(* Dropping instances leaves a schedule of the same kind.                  *)
LEMMA AccessSetsFinite ==
  ASSUME NEW s, IsStatement(s)
  PROVE  IsFiniteSet(Reads(s)) /\ IsFiniteSet(Writes(s))
<1>1. s.reads \in Seq(Access) /\ s.writes \in Seq(Access)
  BY DEF IsStatement
<1>2. ASSUME NEW q \in Seq(Access) PROVE IsFiniteSet({q[n] : n \in DOMAIN q})
  <2>1. DOMAIN q = 1..Len(q) /\ 1 \in Int /\ Len(q) \in Int
    OBVIOUS
  <2>2. IsFiniteSet(DOMAIN q)
    BY <2>1, FS_Interval
  <2> QED BY <2>2, FiniteImage
<1> QED BY <1>1, <1>2 DEF Reads, Writes

LEMMA ReadAccessesFinite ==
  ASSUME NEW p, IsProgram(p), IsScheduled(p)
  PROVE  IsFiniteSet(ReadAccesses(p))
<1> DEFINE of == [n \in Statements(p) |-> Reads(p.stmts[n]) \X p.stmts[n].domain]
           all == {of[n] : n \in Statements(p)}
<1>1. \A n \in Statements(p) : of[n] = Reads(p.stmts[n]) \X p.stmts[n].domain
  OBVIOUS
<1>2. ASSUME NEW n \in Statements(p) PROVE IsFiniteSet(of[n])
  <2>1. IsStatement(p.stmts[n]) /\ IsFiniteSet(p.stmts[n].domain)
    BY DEF IsProgram, IsScheduled, Statements
  <2>2. IsFiniteSet(Reads(p.stmts[n]))
    BY <2>1, AccessSetsFinite
  <2> HIDE DEF of
  <2> QED BY <1>1, <2>1, <2>2, FS_Product
<1>3. ReadAccesses(p) = UNION all
  BY <1>1 DEF ReadAccesses
<1> HIDE DEF of
<1>4. IsFiniteSet(Statements(p))
  <2>1. Statements(p) = 1..Len(p.stmts) /\ 1 \in Int /\ Len(p.stmts) \in Int
    BY DEF IsProgram, Statements
  <2> QED BY <2>1, FS_Interval
<1>5. IsFiniteSet(all) /\ \A S \in all : IsFiniteSet(S)
  BY <1>2, <1>4, FiniteImage
<1> HIDE DEF all
<1> QED BY <1>3, <1>5, FS_UNION

LEMMA UsefulDomainFinite ==
  ASSUME NEW p, IsProgram(p), IsScheduled(p), NEW s, IsStatement(s), IsFiniteSet(s.domain)
  PROVE  IsFiniteSet(UsefulDomain(p, s))
<1> DEFINE R == ReadAccesses(p)
           W == Writes(s)
           pairs == s.domain \X (W \X R)
           triple == [c \in pairs |-> <<c[1], c[2][1], c[2][2]>>]
           triples == {triple[c] : c \in pairs}
           chosen == {d \in s.domain \X W \X R : d[2].array = d[3][1].array}
           part == [c \in chosen |-> UsefulPart(c[1], c[2], c[3][1], c[3][2])]
           parts == {part[c] : c \in chosen}
<1>1. UsefulDomain(p, s) = UNION parts
  <2>1. \A c \in chosen : part[c] = UsefulPart(c[1], c[2], c[3][1], c[3][2])
    OBVIOUS
  <2> HIDE DEF part
  <2> QED BY <2>1 DEF UsefulDomain
<1>2. \A c \in chosen : IsFiniteSet(part[c])
  <2> SUFFICES ASSUME NEW c \in chosen PROVE IsFiniteSet(part[c])
    OBVIOUS
  <2>1. part[c] = UsefulPart(c[1], c[2], c[3][1], c[3][2])
    OBVIOUS
  <2>2. part[c] = {} \/ \E u : part[c] = {u}
    <3> HIDE DEF part, chosen
    <3> QED BY <2>1 DEF UsefulPart
  <2> HIDE DEF part, chosen
  <2>3. CASE part[c] = {}
    BY <2>3, FS_EmptySet
  <2>4. CASE \E u : part[c] = {u}
    <3>1. PICK u : part[c] = {u}
      BY <2>4
    <3>2. IsFiniteSet({u})
      BY FS_Singleton
    <3> QED BY <3>1, <3>2
  <2> QED BY <2>2, <2>3, <2>4
<1> HIDE DEF part
<1>3. IsFiniteSet(W) /\ IsFiniteSet(R)
  BY AccessSetsFinite, ReadAccessesFinite
<1>4. chosen \subseteq triples
  <2> SUFFICES ASSUME NEW d \in chosen PROVE d \in triples
    OBVIOUS
  <2>0. d \in s.domain \X W \X R
    OBVIOUS
  <2> HIDE DEF W, R, chosen
  <2>1. PICK x \in s.domain, w \in W, r \in R : d = <<x, w, r>>
    <3>1. d[1] \in s.domain /\ d[2] \in W /\ d[3] \in R /\ d = <<d[1], d[2], d[3]>>
      BY <2>0
    <3> QED BY <3>1
  <2>2. <<x, <<w, r>>>> \in pairs
    OBVIOUS
  <2>3. triple[<<x, <<w, r>>>>] = d
    BY <2>1, <2>2
  <2> HIDE DEF triple, pairs
  <2> QED BY <2>2, <2>3
<1> HIDE DEF W, R, triple
<1>5. IsFiniteSet(pairs)
  <2>1. IsFiniteSet(W \X R)
    BY <1>3, FS_Product
  <2> QED BY <2>1, FS_Product
<1> HIDE DEF pairs
<1>6. IsFiniteSet(triples)
  BY <1>5, FiniteImage
<1> HIDE DEF triples, chosen
<1>7. IsFiniteSet(chosen)
  BY <1>4, <1>6, FS_Subset
<1>8. IsFiniteSet(parts) /\ \A S \in parts : IsFiniteSet(S)
  BY <1>2, <1>7, FiniteImage
<1> HIDE DEF parts
<1> QED BY <1>1, <1>8, FS_UNION

LEMMA DroppingKeepsSchedule ==
  ASSUME NEW p, IsProgram(p), IsScheduled(p)
  PROVE  IsScheduled(DropUnread(p))
<1> DEFINE q == DropUnread(p)
<1>1. SUFFICES ASSUME NEW n \in DOMAIN p.stmts
               PROVE  LET s == q.stmts[n] IN
                      /\ s.rate > 0 /\ s.start >= -Horizon
                      /\ IsFiniteSet(s.domain)
                      /\ \A g \in s.domain : g \in Progression /\ Time(s, g.first) >= 0
                      /\ \A a \in Reads(s) \cup Writes(s) : a.mul >= 0
  BY Dropped DEF IsScheduled
<1> DEFINE s == p.stmts[n]
           t == q.stmts[n]
<1>2. /\ t.rate = s.rate /\ t.start = s.start
      /\ Reads(t) = Reads(s) /\ Writes(t) = Writes(s)
      /\ t.domain = IF s.io THEN s.domain ELSE UsefulDomain(p, s)
      /\ \A i : Time(t, i) = Time(s, i)
  BY Dropped DEF Reads, Writes, Time
<1>3. /\ s.rate > 0 /\ s.start >= -Horizon /\ IsFiniteSet(s.domain)
      /\ \A g \in s.domain : g \in Progression /\ Time(s, g.first) >= 0
      /\ \A a \in Reads(s) \cup Writes(s) : a.mul >= 0
  BY DEF IsScheduled
<1>4. IsStatement(s) /\ s.rate \in Nat \ {0} /\ s.start \in Int
  BY StatementParts DEF IsProgram
<1>5. IsFiniteSet(UsefulDomain(p, s))
  BY <1>3, <1>4, UsefulDomainFinite
<1>6. ASSUME NEW u \in UsefulDomain(p, s) PROVE u \in Progression /\ Time(s, u.first) >= 0
  <2>1. PICK c \in s.domain \X Writes(s) \X ReadAccesses(p) :
          u \in UsefulPart(c[1], c[2], c[3][1], c[3][2])
    BY DEF UsefulDomain
  <2>2. PICK m \in DOMAIN p.stmts : c[3] \in Reads(p.stmts[m]) \X p.stmts[m].domain
    BY <2>1 DEF ReadAccesses, Statements
  <2>3. /\ c[1] \in s.domain /\ c[1] \in Progression /\ c[3][2] \in Progression
        /\ c[2] \in Access /\ c[2].mul >= 0 /\ c[3][1] \in Access /\ c[3][1].mul >= 0
    <3>1. c[1] \in s.domain /\ c[2] \in Writes(s)
      BY <2>1
    <3>2. c[3][1] \in Reads(p.stmts[m]) /\ c[3][2] \in p.stmts[m].domain
      BY <2>2
    <3> QED BY <3>1, <3>2, StatementParts
  <2>4. u \in Progression /\ u.first >= c[1].first
    BY <2>1, <2>3, UsefulAreMembers
  <2>5. Time(s, c[1].first) >= 0
    BY <1>3, <2>3
  <2>6. PICK f \in Int : f = c[1].first
    BY <2>3 DEF Progression
  <2>7. PICK d \in Nat : d = u.first - f
    BY <2>4, <2>6 DEF Progression
  <2>8. PICK v \in Nat : v = s.rate
    BY <1>4
  <2>9. v * d >= 0 /\ v * (f + d) = v * f + v * d /\ u.first = f + d
    BY <2>4, <2>6, <2>7 DEF Progression
  <2>10. PICK vf \in Int, vd \in Int : vf = v * f /\ vd = v * d
    OBVIOUS
  <2>11. Time(s, u.first) = vf + vd + s.start /\ Time(s, c[1].first) = vf + s.start
    BY <2>6, <2>8, <2>9, <2>10 DEF Time
  <2> QED BY <1>4, <2>4, <2>5, <2>9, <2>10, <2>11
<1>7. IsFiniteSet(t.domain)
  BY <1>2, <1>3, <1>5
<1>8. \A g \in t.domain : g \in Progression /\ Time(s, g.first) >= 0
  BY <1>2, <1>3, <1>6
<1> HIDE DEF s, t
<1>9. /\ t.rate > 0 /\ t.start >= -Horizon
      /\ \A a \in Reads(t) \cup Writes(t) : a.mul >= 0
      /\ \A g \in t.domain : g \in Progression /\ Time(t, g.first) >= 0
  BY <1>2, <1>3, <1>8
<1> QED BY <1>7, <1>9 DEF t

-----------------------------------------------------------------------------
(* The passes in order: what each relies on.                               *)
LEMMA TilingIsTyped ==
  ASSUME NEW p, IsProgram(p), IsScheduled(p), NEW o \in Options
  PROVE  LET found == find_periodic_tiling(IF Periodic(p) THEN AccessInfos(p) ELSE <<>>, o)
         IN  found.offset \in Nat /\ found.size \in Nat \ {0}
<1> DEFINE infos == IF Periodic(p) THEN AccessInfos(p) ELSE <<>>
<1>1. infos \in Seq(Info)
  <2>1. AccessInfos(p) \in Seq({i \in Info : MadeFrom(p, i)})
    BY InfosAre
  <2>2. AccessInfos(p) \in Seq(Info)
    BY <2>1
  <2>3. << >> \in Seq(Info)
    OBVIOUS
  <2> QED BY <2>2, <2>3
<1>2. o.period_offset \in Nat /\ o.period_scale \in Nat \ {0}
  BY OptionsAssumption
<1> HIDE DEF infos
<1>3. find_periodic_tiling(infos, o).offset \in Nat
  BY <1>1, <1>2, LatestOnset
<1>4. find_periodic_tiling(infos, o).size \in Nat \ {0}
  BY <1>1, <1>2, CommonPeriod
<1> QED BY <1>3, <1>4 DEF infos

(* Without shifting, a buffer has as many cells as were allocated, or that *)
(* many rounded up.                                                        *)
LEMMA CellsSuffice ==
  ASSUME NEW p, NEW tiled, NEW periods, NEW size, NEW options,
         NEW a \in Arrays(p), size[a] \in Nat \ {0},
         ~options.buffer_data_shifting
  PROVE  Generated(p, tiled, periods, size, options).buffers[a].cells >= size[a]
<1> DEFINE elements == AccessInPeriod(p, tiled, a).elements
           n == size[a]
           m == Rounded(n, options)
           b == BufferFor(p.arrays[a], n, periods[a], elements, options)
           l == Layout(p, tiled, periods, size, options)[a]
           still == [period_count |-> 1, size |-> 0, source |-> 0]
           Shape(cells) == [cells : {cells}, wraps : BOOLEAN, has_phase : BOOLEAN,
                            shift : {still}, on_stack : {FALSE}]
<1>1. Generated(p, tiled, periods, size, options).buffers[a] = l
  BY DEF Generated
<1>2. \E s : l = [b EXCEPT !.on_stack = s]
  BY DEF Layout
<1>3. b \in Shape(n) \/ b \in Shape(m)
  <2>1. \A k : Plain(k) \in Shape(k) /\ [Plain(k) EXCEPT !.wraps = TRUE] \in Shape(k)
    BY DEF Plain
  <2>2. \A t, k : WrappingBuffer(t, k) \in Shape(k)
    <3> TAKE t, k
    <3>1. (t % k # 0) \in BOOLEAN
      OBVIOUS
    <3>2. \A phase \in BOOLEAN :
            [Plain(k) EXCEPT !.wraps = TRUE, !.has_phase = phase] \in Shape(k)
      BY DEF Plain
    <3> HIDE DEF Shape
    <3> QED BY <3>1, <3>2 DEF WrappingBuffer
  <2> HIDE DEF Shape, n, elements, b
  <2>3. \/ b = Plain(n)
        \/ b = WrappingBuffer(periods[a], m)
        \/ b = [Plain(m) EXCEPT !.wraps = TRUE]
    <3>1. \/ b = Plain(n)
          \/ b = WrappingBuffer(periods[a], Rounded(n, options))
          \/ b = [Plain(Rounded(n, options)) EXCEPT !.wraps = TRUE]
      BY DEF b, BufferFor
    <3> QED BY <3>1
  <2> HIDE DEF m
  <2>4. CASE b = Plain(n)
    BY <2>1, <2>4, Zenon
  <2>5. CASE b = WrappingBuffer(periods[a], m)
    BY <2>2, <2>5, Zenon
  <2>6. CASE b = [Plain(m) EXCEPT !.wraps = TRUE]
    BY <2>1, <2>6, Zenon
  <2> QED BY <2>3, <2>4, <2>5, <2>6
<1>4. m >= n
  <2>1. n \in Nat \ {0}
    OBVIOUS
  <2> HIDE DEF n
  <2>2. next_power_of_two(n) \in Nat /\ next_power_of_two(n) >= n
    BY <2>1, RoundedUp
  <2> QED BY <2>1, <2>2 DEF Rounded
<1> HIDE DEF b, l, n, m
<1>5. PICK s : l = [b EXCEPT !.on_stack = s]
  BY <1>2
<1>6. \A k : b \in Shape(k) => l.cells = k
  BY <1>5
<1> HIDE DEF Shape
<1>7. l.cells = n \/ l.cells = m
  BY <1>3, <1>6
<1>8. n >= n
  BY DEF n
<1> QED BY <1>1, <1>4, <1>7, <1>8 DEF n

Stages == {"generated", "useful", "scheduled", "allocated", "timed", "done"} \cup Errors

(* TypeOK without its last line, which is about the buffers                *)
Typed ==
  /\ source \in Programs
  /\ opt \in Options
  /\ stage \in Stages
  /\ stage \in {"scheduled", "allocated", "timed", "done"} =>
       tiling.offset \in Nat /\ tiling.size \in Nat \ {0}
  /\ stage \in {"allocated", "timed", "done"} => buffer_size \in [Arrays(prog) -> Nat \ {0}]
  /\ stage \in {"timed", "done"} => DOMAIN latency = Inputs(prog)

LargeEnough ==
  stage = "done" /\ ~opt.buffer_data_shifting =>
    \A a \in Arrays(prog) : code.buffers[a].cells >= buffer_size[a]

LEMMA TypedFromTheStart == Init => Typed /\ LargeEnough
<1> SUFFICES ASSUME Init PROVE Typed /\ LargeEnough
  OBVIOUS
<1>1. source \in Programs /\ opt \in Options /\ stage = "generated"
  BY DEF Init
<1> QED BY <1>1 DEF Typed, LargeEnough, Stages

LEMMA TypedStep == DInv /\ Typed /\ LargeEnough /\ [Next]_vars => Typed' /\ LargeEnough'
<1> SUFFICES ASSUME DInv, Typed, LargeEnough, [Next]_vars PROVE Typed' /\ LargeEnough'
  OBVIOUS
<1>1. source \in Programs /\ opt \in Options /\ stage \in Stages
  BY DEF Typed
<1>2. IsProgram(prog) /\ IsScheduled(prog)
  BY DroppingKeepsProgram, DroppingKeepsSchedule DEF DInv
<1>3. CASE DropUnreadInstances
  <2>1. UNCHANGED <<source, opt>> /\ stage' = "useful"
    BY <1>3 DEF DropUnreadInstances
  <2> QED BY <1>1, <2>1 DEF Typed, LargeEnough, Stages
<1>4. CASE MakePeriodicSchedule
  <2>1. /\ UNCHANGED <<source, opt, prog>> /\ stage' = "scheduled"
        /\ tiling' = find_periodic_tiling(IF Periodic(prog) THEN AccessInfos(prog)
                                          ELSE <<>>, opt)
    BY <1>4 DEF MakePeriodicSchedule
  <2>2. tiling'.offset \in Nat /\ tiling'.size \in Nat \ {0}
    BY <1>1, <1>2, <2>1, TilingIsTyped
  <2> QED BY <1>1, <2>1, <2>2 DEF Typed, LargeEnough, Stages
<1>5. CASE ScheduleOutOfOrder \/ ScheduleNotSteady \/ AllocationFails
  <2>1. UNCHANGED <<source, opt>> /\ stage' \in Errors
    <3>1. \A a \in Arrays(prog) : ArrayError(a) # "none" => ArrayError(a) \in Errors
      BY DEF ArrayError, Errors
    <3> QED BY <1>5, <3>1
      DEF ScheduleOutOfOrder, ScheduleNotSteady, AllocationFails, Fail, Errors
  <2>2. stage' \notin {"scheduled", "allocated", "timed", "done"}
    BY <2>1 DEF Errors, NotLast, NotSteady, TooLong, NeverWritten, NotAccessed
  <2> QED BY <1>1, <2>1, <2>2 DEF Typed, LargeEnough, Stages
<1>6. CASE AllocateStorage
  <2>1. /\ UNCHANGED <<source, opt, prog, tiling>>
        /\ stage = "scheduled" /\ stage' = "allocated"
        /\ buffer_size' = [a \in Arrays(prog) |-> compute_buffer_size(prog, tiling, a)]
    BY <1>6 DEF AllocateStorage
  <2>2. \A a \in Arrays(prog) : compute_buffer_size(prog, tiling, a) # Unbounded
    BY <1>6 DEF AllocateStorage, ArrayError, TooLong, NeverWritten, NotAccessed
  <2>3. \A a \in Arrays(prog) : compute_buffer_size(prog, tiling, a) \in Nat \ {0}
    BY <1>2, <2>2, DistancesWithinSize
  <2>4. buffer_size' \in [Arrays(prog) -> Nat \ {0}]
    BY <2>1, <2>3
  <2>5. tiling.offset \in Nat /\ tiling.size \in Nat \ {0}
    BY <2>1 DEF Typed
  <2> QED BY <1>1, <2>1, <2>4, <2>5 DEF Typed, LargeEnough, Stages
<1>7. CASE ComputeIoLatencies
  <2>1. /\ UNCHANGED <<source, opt, prog, tiling, buffer_size>>
        /\ stage = "allocated" /\ stage' = "timed"
        /\ DOMAIN latency' = Inputs(prog)
    BY <1>7 DEF ComputeIoLatencies, compute_io_latencies
  <2>2. /\ tiling.offset \in Nat /\ tiling.size \in Nat \ {0}
        /\ buffer_size \in [Arrays(prog) -> Nat \ {0}]
    BY <2>1 DEF Typed
  <2>3. Arrays(prog)' = Arrays(prog) /\ Inputs(prog)' = Inputs(prog)
    BY <2>1
  <2> QED BY <1>1, <2>1, <2>2, <2>3 DEF Typed, LargeEnough, Stages
<1>8. CASE GenerateCode
  <2>1. /\ UNCHANGED <<source, opt, prog, tiling, buffer_size, latency>>
        /\ stage = "timed" /\ stage' = "done"
        /\ code' = Generated(prog, tiling, period, buffer_size, opt)
    BY <1>8 DEF GenerateCode
  <2>2. /\ tiling.offset \in Nat /\ tiling.size \in Nat \ {0}
        /\ buffer_size \in [Arrays(prog) -> Nat \ {0}]
        /\ DOMAIN latency = Inputs(prog)
    BY <2>1 DEF Typed
  <2>3. Arrays(prog)' = Arrays(prog) /\ Inputs(prog)' = Inputs(prog)
    BY <2>1
  <2>4. ~opt.buffer_data_shifting =>
          \A a \in Arrays(prog) : code'.buffers[a].cells >= buffer_size[a]
    BY <2>1, <2>2, CellsSuffice
  <2>5. LargeEnough'
    BY <2>1, <2>3, <2>4 DEF LargeEnough
  <2> QED BY <1>1, <2>1, <2>2, <2>3, <2>5 DEF Typed, Stages
<1>9. CASE UNCHANGED vars
  BY <1>9 DEF vars, Typed, LargeEnough
<1> QED BY <1>3, <1>4, <1>5, <1>6, <1>7, <1>8, <1>9 DEF Next

(* Whatever the programs and the options, each pass finds what it relies   *)
(* on: a period that is not empty, a size for every array, a latency for   *)
(* every input; and no buffer is generated smaller than it was allocated,  *)
(* unless buffers are laid out for shifting, by other rules.               *)
THEOREM CompilerTypes == Spec => [](Typed /\ (~opt.buffer_data_shifting => TypeOK))
<1>1. Typed /\ LargeEnough => Typed /\ (~opt.buffer_data_shifting => TypeOK)
  BY DEF Typed, LargeEnough, TypeOK, Stages
<1> QED BY <1>1, TypedFromTheStart, TypedStep, DroppedOnce, PTL DEF Spec

-----------------------------------------------------------------------------
(* The schedule repeats from the offset on.                                *)
LEMMA WholePeriods ==
  ASSUME NEW t \in Nat \ {0}, NEW size \in Nat \ {0}, Divides(t, size)
  PROVE  size \div t \in Nat \ {0} /\ size = t * (size \div t)
<1>1. size \div t \in Int /\ size = t * (size \div t)
  <2>1. /\ size % t \in 0..(t - 1) /\ size \div t \in Int
        /\ size = t * (size \div t) + (size % t) /\ size % t = 0
    BY Remainders
  <2>2. PICK q \in Int : q = size \div t
    BY <2>1
  <2> QED BY <2>1, <2>2
<1>2. PICK q \in Int : q = size \div t
  BY <1>1
<1>3. size = t * q
  BY <1>1, <1>2
<1>4. q <= 0 => t * q <= 0
  OBVIOUS
<1>5. q >= 1
  BY <1>3, <1>4
<1> QED BY <1>1, <1>2, <1>5

(* What is made of the offsets by which accesses to an array move, if they *)
(* are not found inconsistent: all of them are that offset, unless some of *)
(* the accesses move and others do not.                                    *)
Offset(size, info) == info.data_offset * (size \div info.time_period)
Repeats(info, array) == info.time_period # 0 /\ info.array = array
IsCommonPeriod(size, infos) ==
  \A k \in 1..Len(infos) : infos[k].time_period # 0 => Divides(infos[k].time_period, size)

(* The offset is found by going through the accesses one by one.           *)
NextOffset(size, array, v, info) ==
  IF ~Repeats(info, array) THEN v
  ELSE IF v = Inconsistent THEN Inconsistent
  ELSE IF v = 0 THEN Offset(size, info)
  ELSE IF v # Offset(size, info) THEN Inconsistent
  ELSE v
OffsetBySteps(iter, infos, found, array) ==
  /\ iter[1..0] = 0
  /\ InterTileOffset(found, infos, array) = iter[1..Len(infos)]
  /\ iter[1..Len(infos)] \in Nat \cup {Inconsistent}
  /\ \A k \in 1..Len(infos) :
       /\ iter[1..(k - 1)] \in Nat \cup {Inconsistent}
       /\ iter[1..k] = NextOffset(found.size, array, iter[1..(k - 1)], infos[k])

LEMMA OffsetFolds ==
  ASSUME NEW infos \in Seq(Info), NEW found, found.size \in Nat \ {0}, NEW array,
         IsCommonPeriod(found.size, infos)
  PROVE  /\ \E iter : OffsetBySteps(iter, infos, found, array)
         /\ \A k \in 1..Len(infos) : Repeats(infos[k], array) =>
              /\ Offset(found.size, infos[k]) \in Nat
              /\ Offset(found.size, infos[k]) = 0 <=> infos[k].data_offset = 0
<1> DEFINE n == Len(infos)
           V == Nat \cup {Inconsistent}
           off(k) == Offset(found.size, infos[k])
           skips(k) == infos[k].time_period = 0 \/ infos[k].array # array
           next(v, k) == IF skips(k) THEN v
                         ELSE IF v = Inconsistent THEN Inconsistent
                         ELSE IF v = 0 THEN off(k)
                         ELSE IF v # off(k) THEN Inconsistent
                         ELSE v
           step == [k \in 1..n |-> [v \in V |-> next(v, k)]]
           Eq(f) == f = [s \in SUBSET (1..n) |->
                           IF s = {} THEN 0 ELSE next(f[s \ {Max(s)}], Max(s))]
           iter == CHOOSE f : Eq(f)
<1>1. n \in Nat /\ DOMAIN infos = 1..n /\ \A k \in 1..n : infos[k] \in Info
  OBVIOUS
<1>2. InterTileOffset(found, infos, array) = iter[1..n]
  BY <1>1 DEF InterTileOffset, FoldLeft, MapThenFoldSet, Offset
<1>3. \A k \in 1..n : skips(k) <=> ~Repeats(infos[k], array)
  BY DEF Repeats
<1>4. ASSUME NEW k \in 1..n, ~skips(k)
      PROVE  off(k) \in Nat /\ (off(k) = 0 <=> infos[k].data_offset = 0)
  <2>1. PICK t \in Nat, d \in Nat : t = infos[k].time_period /\ d = infos[k].data_offset
    BY <1>1 DEF Info
  <2>2. t # 0 /\ Divides(t, found.size)
    BY <1>1, <1>4, <2>1 DEF IsCommonPeriod
  <2>3. found.size \div t \in Nat \ {0}
    BY <2>1, <2>2, WholePeriods
  <2>4. PICK q \in Nat \ {0} : q = found.size \div t
    BY <2>3
  <2>5. d * q \in Nat /\ (d * q = 0 <=> d = 0)
    OBVIOUS
  <2> QED BY <2>1, <2>4, <2>5 DEF Offset
<1>5. \A k \in 1..n : ~skips(k) => off(k) \in Nat
  BY <1>4
<1> HIDE DEF n, off, skips
<1>6. step \in [1..n -> [V -> V]] /\ 0 \in V
  BY <1>5
<1>7. PICK g : Solution(g, n, V, 0, step)
  <2> HIDE DEF step, V
  <2> QED BY <1>1, <1>6, FoldSolution
<1>8. \A s \in SUBSET (1..n) : s # {} => Max(s) \in 1..n /\ s \ {Max(s)} \in SUBSET (1..n)
  BY <1>1, MaxOfInterval
<1>9. Eq(g)
  <2>1. \A s \in SUBSET (1..n) :
          g[s] = IF s = {} THEN 0 ELSE next(g[s \ {Max(s)}], Max(s))
    <3> HIDE DEF next, V
    <3> QED BY <1>7, <1>8 DEF Solution
  <2> HIDE DEF next, V
  <2> QED BY <1>7, <2>1 DEF Solution
<1>10. Eq(iter)
  <2> HIDE DEF Eq
  <2> QED BY <1>9
<1> HIDE DEF iter
<1>11. iter[{}] = 0
  BY <1>10
<1>12. ASSUME NEW s \in SUBSET (1..n), s # {}, iter[s \ {Max(s)}] \in V
       PROVE  iter[s] = step[Max(s)][iter[s \ {Max(s)}]]
  <2> HIDE DEF next, V
  <2> QED BY <1>8, <1>10, <1>12
<1> HIDE DEF step, Eq
<1>13. StepByStep(iter, n, V, 0, step)
  <2> HIDE DEF V
  <2>1. Folds(iter, n, V, 0, step)
    BY <1>11, <1>12 DEF Folds
  <2> QED BY <1>1, <1>6, <2>1, FoldSteps
<1>14. \A k \in 1..n : iter[1..k] = next(iter[1..(k - 1)], k)
  <2> HIDE DEF next, V
  <2> QED BY <1>13 DEF step, StepByStep
<1>15. OffsetBySteps(iter, infos, found, array)
  <2>1. \A v, k : k \in 1..n => next(v, k) = NextOffset(found.size, array, v, infos[k])
    BY <1>3 DEF NextOffset, off
  <2> HIDE DEF next, V
  <2> QED BY <1>2, <1>13, <1>14, <2>1 DEF OffsetBySteps, StepByStep, n, V
<1> QED BY <1>3, <1>4, <1>15 DEF n, off

LEMMA OffsetsAgree ==
  ASSUME NEW infos \in Seq(Info), NEW found, found.size \in Nat \ {0}, NEW array,
         IsCommonPeriod(found.size, infos),
         \A i, j \in 1..Len(infos) :
           Repeats(infos[i], array) /\ Repeats(infos[j], array) =>
             (infos[i].data_offset = 0 <=> infos[j].data_offset = 0),
         InterTileOffset(found, infos, array) # Inconsistent
  PROVE  \A i \in 1..Len(infos) : Repeats(infos[i], array) =>
           Offset(found.size, infos[i]) = InterTileOffset(found, infos, array)
<1> DEFINE n == Len(infos)
           V == Nat \cup {Inconsistent}
           off(k) == Offset(found.size, infos[k])
           skips(k) == ~Repeats(infos[k], array)
           next(v, k) == IF skips(k) THEN v
                         ELSE IF v = Inconsistent THEN Inconsistent
                         ELSE IF v = 0 THEN off(k)
                         ELSE IF v # off(k) THEN Inconsistent
                         ELSE v
<1>1. n \in Nat
  OBVIOUS
<1>2. PICK iter : OffsetBySteps(iter, infos, found, array)
  BY OffsetFolds
<1>3. \A k \in 1..n : skips(k) <=> ~Repeats(infos[k], array)
  OBVIOUS
<1>4. ASSUME NEW k \in 1..n, ~skips(k)
      PROVE  off(k) \in Nat /\ (off(k) = 0 <=> infos[k].data_offset = 0)
  BY <1>4, OffsetFolds
<1>5. /\ iter[1..0] = 0 /\ InterTileOffset(found, infos, array) = iter[1..n]
      /\ \A k \in 1..n : iter[1..(k - 1)] \in V
  BY <1>2 DEF OffsetBySteps
<1>14. \A k \in 1..n : iter[1..k] = next(iter[1..(k - 1)], k)
  BY <1>2 DEF OffsetBySteps, NextOffset
<1> HIDE DEF n, off, skips
<1> DEFINE Agree(k) == \/ iter[1..k] = Inconsistent
                       \/ \A i \in 1..k : ~skips(i) => off(i) = iter[1..k]
           Wrong == {k \in 0..n : ~Agree(k)}
<1>15. Wrong = {}
  <2> SUFFICES ASSUME Wrong # {} PROVE FALSE
    OBVIOUS
  <2>1. PICK k \in Wrong : \A i \in Nat : i < k => i \notin Wrong
    <3>1. Wrong \in SUBSET Nat
      BY <1>1
    <3> HIDE DEF Wrong
    <3> QED BY <3>1, LeastOf
  <2>2. k \in 0..n /\ ~Agree(k)
    OBVIOUS
  <2>3. k # 0
    BY <2>2
  <2>4. k \in 1..n /\ k - 1 \in 0..n /\ k - 1 < k /\ k - 1 \in Nat
    BY <1>1, <2>2, <2>3
  <2>5. Agree(k - 1)
    <3>1. k - 1 \notin Wrong
      BY <2>1, <2>4
    <3> HIDE DEF Agree
    <3> QED BY <2>4, <3>1
  <2>6. PICK v \in V : v = iter[1..(k - 1)]
    BY <1>5, <2>4
  <2>7. iter[1..k] = next(v, k)
    BY <1>14, <2>4, <2>6
  <2>8. v = Inconsistent \/ \A i \in 1..(k - 1) : ~skips(i) => off(i) = v
    BY <2>5, <2>6
  <2>9. \A i \in 1..k : i = k \/ i \in 1..(k - 1)
    BY <1>1, <2>4
  <2>10. next(v, k) = Inconsistent \/ \A i \in 1..k : ~skips(i) => off(i) = next(v, k)
    <3>1. CASE v = Inconsistent
      BY <3>1
    <3>2. CASE v # Inconsistent /\ skips(k)
      BY <2>8, <2>9, <3>2
    <3>3. CASE v # Inconsistent /\ ~skips(k) /\ v # 0
      BY <2>8, <2>9, <3>3
    <3>4. CASE ~skips(k) /\ v = 0
      <4>1. next(v, k) = off(k)
        BY <3>4 DEF Inconsistent
      <4>2. ASSUME NEW i \in 1..(k - 1), ~skips(i) PROVE off(i) = off(k)
        <5>1. i \in 1..n /\ off(i) = 0
          BY <1>1, <2>4, <2>8, <3>4, <4>2 DEF Inconsistent
        <5>2. infos[i].data_offset = 0
          BY <1>4, <4>2, <5>1
        <5>3. Repeats(infos[i], array) /\ Repeats(infos[k], array)
          BY <1>3, <2>4, <3>4, <4>2, <5>1
        <5>4. infos[k].data_offset = 0
          BY <2>4, <5>1, <5>2, <5>3 DEF n
        <5> QED BY <1>4, <2>4, <3>4, <5>1, <5>4
      <4> QED BY <2>9, <4>1, <4>2
    <3> QED BY <3>1, <3>2, <3>3, <3>4
  <2> HIDE DEF next
  <2> QED BY <2>2, <2>7, <2>10
<1>16. Agree(n)
  <2>1. n \in 0..n
    BY <1>1
  <2> HIDE DEF Agree
  <2> QED BY <1>15, <2>1
<1>17. \A i \in 1..n : ~skips(i) => off(i) = iter[1..n]
  BY <1>5, <1>16
<1> QED BY <1>3, <1>5, <1>17 DEF n, off

(* Which instances are in the infinite part from time t on: keys tell      *)
LEMMA KeysCompare ==
  ASSUME NEW x \in Int, NEW y \in Int, NEW len \in Nat, NEW n \in 1..len
  PROVE  x * len + n - 1 >= y * len <=> x >= y
<1>1. x * len \in Int /\ y * len \in Int
  OBVIOUS
<1>2. ASSUME x >= y PROVE x * len >= y * len
  <2>1. PICK d \in Nat : d = x - y
    BY <1>2
  <2>2. x * len = y * len + d * len /\ d * len >= 0
    BY <2>1
  <2> QED BY <1>1, <2>2
<1>3. ASSUME ~(x >= y) PROVE x * len + len <= y * len
  <2>1. PICK d \in Nat : y = x + 1 + d
    <3>1. y - x - 1 \in Nat /\ y = x + 1 + (y - x - 1)
      BY <1>3
    <3> QED BY <3>1
  <2>2. (x + 1 + d) * len = x * len + len + d * len /\ d * len >= 0
    OBVIOUS
  <2> QED BY <1>1, <2>1, <2>2
<1>4. PICK u \in Int, v \in Int : u = x * len /\ v = y * len
  BY <1>1
<1> QED BY <1>2, <1>3, <1>4

LEMMA KeyIs ==
  ASSUME NEW p, IsProgram(p), NEW n \in DOMAIN p.stmts, NEW i \in Int, NEW t \in Int
  PROVE  LET s == p.stmts[n] IN
         /\ Time(s, i) \in Int /\ Key(p, <<n, i>>) \in Int /\ KeyOfTime(p, t) \in Int
         /\ s.band = LastBand(p) =>
              (Key(p, <<n, i>>) >= KeyOfTime(p, t) <=> Time(s, i) >= t)
         /\ s.band # LastBand(p) /\ Time(s, i) < Horizon /\ t >= 0 =>
              Key(p, <<n, i>>) < KeyOfTime(p, t)
<1> DEFINE s == p.stmts[n]
<1>1. /\ Len(p.stmts) \in Nat /\ n \in 1..Len(p.stmts)
      /\ s.rate \in Int /\ s.start \in Int /\ s.band \in Nat
  BY DEF IsProgram, IsStatement
<1>2. LastBand(p) \in Nat /\ s.band <= LastBand(p)
  BY <1>1, BandsBounded
<1>3. Time(s, i) \in Int
  BY <1>1 DEF Time
<1>4. PICK h \in Nat : h = 2 * Horizon /\ h = Horizon + Horizon
  BY HorizonAssumption
<1>5. PICK b \in Nat, last \in Nat, u \in Int, len \in Nat :
        b = s.band /\ last = LastBand(p) /\ u = Time(s, i) /\ len = Len(p.stmts)
  BY <1>1, <1>2, <1>3
<1>6. PICK hb \in Int, hl \in Int : hb = h * b /\ hl = h * last
  OBVIOUS
<1>7. /\ Key(p, <<n, i>>) = (hb + u) * len + n - 1
      /\ KeyOfTime(p, t) = (hl + t) * len
  BY <1>4, <1>5, <1>6 DEF Key, KeyOfTime
<1>8. hb + u \in Int /\ hl + t \in Int /\ (hb + u) * len \in Int /\ (hl + t) * len \in Int
  OBVIOUS
<1>9. (hb + u) * len + n - 1 >= (hl + t) * len <=> hb + u >= hl + t
  BY <1>1, <1>5, <1>8, KeysCompare
<1>10. ASSUME b # last, u < Horizon, t >= 0 PROVE ~(hb + u >= hl + t)
  <2>1. PICK d \in Nat : last = b + 1 + d
    <3>1. b < last
      BY <1>2, <1>5, <1>10
    <3>2. last - b - 1 \in Nat /\ last = b + 1 + (last - b - 1)
      BY ONLY b \in Nat, last \in Nat, <3>1
    <3> QED BY <3>2
  <2>2. h * (b + 1 + d) = h * b + h + h * d /\ h * d \in Nat
    OBVIOUS
  <2>3. hl >= hb + h
    BY <1>6, <2>1, <2>2
  <2> QED BY <1>4, <1>10, <2>3, HorizonAssumption
<1>11. b = last => hb = hl
  BY <1>6
<1>12. (hb + u) * len + n - 1 \in Int
  <2>1. PICK x \in Int : x = (hb + u) * len
    BY <1>8, Zenon
  <2>2. n \in Int
    BY <1>1
  <2>3. x + n - 1 \in Int
    BY ONLY <2>2, x \in Int
  <2> QED BY <2>1, <2>3, Zenon
<1> HIDE DEF s
<1>13. s.band = LastBand(p) => (Key(p, <<n, i>>) >= KeyOfTime(p, t) <=> Time(s, i) >= t)
  <2> SUFFICES ASSUME s.band = LastBand(p)
               PROVE  Key(p, <<n, i>>) >= KeyOfTime(p, t) <=> Time(s, i) >= t
    OBVIOUS
  <2>1. hb = hl
    BY <1>5, <1>11, Zenon
  <2>2. hb + u >= hl + t <=> u >= t
    BY ONLY hb \in Int, u \in Int, t \in Int, <2>1
  <2>3. Key(p, <<n, i>>) >= KeyOfTime(p, t) <=> hb + u >= hl + t
    BY <1>7, <1>9, Zenon
  <2> QED BY <1>5, <2>2, <2>3, Zenon
<1>14. s.band # LastBand(p) /\ Time(s, i) < Horizon /\ t >= 0 =>
         Key(p, <<n, i>>) < KeyOfTime(p, t)
  <2> SUFFICES ASSUME s.band # LastBand(p), Time(s, i) < Horizon, t >= 0
               PROVE  Key(p, <<n, i>>) < KeyOfTime(p, t)
    OBVIOUS
  <2>1. ~((hb + u) * len + n - 1 >= (hl + t) * len)
    BY <1>5, <1>9, <1>10
  <2>2. PICK x \in Int, y \in Int : x = (hb + u) * len + n - 1 /\ y = (hl + t) * len
    BY <1>8, <1>12, Zenon
  <2>3. ~(x >= y)
    BY <2>1, <2>2, Zenon
  <2>4. x < y
    BY ONLY <2>3, x \in Int, y \in Int
  <2> QED BY <1>7, <2>2, <2>4, Zenon
<1>15. Key(p, <<n, i>>) \in Int /\ KeyOfTime(p, t) \in Int
  BY <1>7, <1>8, <1>12, Zenon
<1> QED BY <1>3, <1>13, <1>14, <1>15, Zenon DEF s

(* The accesses that the code's check of the offsets can tell apart: since *)
(* an offset of 0 also stands for none yet, an access that stays where it  *)
(* is goes unnoticed if one that moves in the same array is listed later.  *)
EndlessAccesses(p) ==
  UNION {Reads(p.stmts[n]) \cup Writes(p.stmts[n]) :
           n \in {m \in Statements(p) : IsInfinite(p.stmts[m])}}
MoveAlike(p) ==
  \A a, b \in EndlessAccesses(p) : a.array = b.array => (a.mul = 0 <=> b.mul = 0)

LEMMA InfosMoveAlike ==
  ASSUME NEW p, IsProgram(p), IsScheduled(p), MoveAlike(p), NEW array,
         NEW i \in Info, MadeFrom(p, i), Repeats(i, array),
         NEW j \in Info, MadeFrom(p, j), Repeats(j, array)
  PROVE  i.data_offset = 0 <=> j.data_offset = 0
<1>1. ASSUME NEW k \in Info, MadeFrom(p, k), Repeats(k, array)
      PROVE  \E a \in EndlessAccesses(p) :
               a.array = array /\ (k.data_offset = 0 <=> a.mul = 0)
  <2>1. PICK n \in DOMAIN p.stmts :
          \E a \in Reads(p.stmts[n]) \cup Writes(p.stmts[n]) :
          \E g \in p.stmts[n].domain : k = AccessInfo(p.stmts[n], a, g)
    BY <1>1 DEF MadeFrom
  <2>0. PICK a \in Reads(p.stmts[n]) \cup Writes(p.stmts[n]) :
          \E g \in p.stmts[n].domain : k = AccessInfo(p.stmts[n], a, g)
    BY <2>1
  <2>2. PICK g \in p.stmts[n].domain : k = AccessInfo(p.stmts[n], a, g)
    BY <2>0
  <2>3. g \in Progression /\ a.mul \in Nat
    BY StatementParts
  <2>4. g.last = Infinite /\ a.array = array /\ k.data_offset = a.mul * g.stride
    BY <1>1, <2>2 DEF Repeats, AccessInfo
  <2>5. PICK m \in Nat, t \in Nat \ {0} : m = a.mul /\ t = g.stride
    BY <2>3 DEF Progression
  <2>6. m * t = 0 <=> m = 0
    OBVIOUS
  <2>7. a \in EndlessAccesses(p)
    BY <2>4 DEF EndlessAccesses, IsInfinite, Statements
  <2> QED BY <2>4, <2>5, <2>6, <2>7
<1>2. PICK a \in EndlessAccesses(p) : a.array = array /\ (i.data_offset = 0 <=> a.mul = 0)
  BY <1>1
<1>3. PICK b \in EndlessAccesses(p) : b.array = array /\ (j.data_offset = 0 <=> b.mul = 0)
  BY <1>1
<1> QED BY <1>2, <1>3 DEF MoveAlike

LEMMA GoesOn ==
  ASSUME NEW g \in Progression, g.last = Infinite, NEW i \in Int, InProgression(i, g),
         NEW k \in Nat, NEW d \in Nat, d = g.stride * k
  PROVE  /\ InProgression(i + d, g)
         /\ i - d > g.first - g.stride => InProgression(i - d, g) /\ i - d >= 0
<1>1. PICK f \in Nat, t \in Nat \ {0} : f = g.first /\ t = g.stride
  BY DEF Progression
<1>2. i >= f /\ Divides(t, i - f)
  BY <1>1, InProgressionIff
<1>3. PICK m \in Int : i - f = t * m
  BY <1>2 DEF Divides
<1>4. (i + d) - f = t * (m + k) /\ (i - d) - f = t * (m - k)
  <2>1. t * (m + k) = t * m + t * k /\ t * (m - k) = t * m - t * k
    OBVIOUS
  <2>2. PICK u \in Int, v \in Int : u = t * m /\ v = t * k
    OBVIOUS
  <2> QED BY <1>1, <1>3, <2>1, <2>2
<1>5. Divides(t, (i + d) - f) /\ Divides(t, (i - d) - f)
  <2>1. m + k \in Int /\ m - k \in Int
    OBVIOUS
  <2> QED BY <1>4, <2>1 DEF Divides
<1>6. i + d \in Int /\ i - d \in Int /\ i + d >= f
  BY <1>2
<1>7. InProgression(i + d, g)
  BY <1>1, <1>5, <1>6, InProgressionIff
<1>8. ASSUME i - d > f - t PROVE i - d >= f
  <2>1. PICK l \in Int : l = m - k
    OBVIOUS
  <2>2. (i - d) - f = t * l
    BY <1>4, <2>1
  <2>3. l <= -1 => t * l <= -t
    OBVIOUS
  <2>4. l >= 0
    BY <1>8, <2>2, <2>3
  <2>5. t * l >= 0
    BY <2>4
  <2> QED BY <2>2, <2>5
<1>9. ASSUME i - d > f - t PROVE InProgression(i - d, g) /\ i - d >= 0
  <2>1. i - d >= f
    BY <1>8, <1>9
  <2>2. InProgression(i - d, g)
    BY <1>1, <1>5, <1>6, <2>1, InProgressionIff
  <2> QED BY <2>1, <2>2
<1> QED BY <1>1, <1>7, <1>9

LEMMA InfoFields ==
  ASSUME NEW s, NEW a, NEW g
  PROVE  LET info == AccessInfo(s, a, g) IN
         /\ info.array = a.array /\ info.first_time = Time(s, g.first)
         /\ g.last = Infinite => /\ info.time_period = s.rate * g.stride
                                /\ info.data_offset = a.mul * g.stride
         /\ g.last # Infinite => info.time_period = 0 /\ info.last_time = Time(s, g.last)
<1> QED BY DEF AccessInfo

(* In the periods, an access is along a progression without end, which the *)
(* period is a multiple of, and which begins early enough.                 *)
Along(p, found, infos, n, a, i, g, l) ==
  /\ InProgression(i, g) /\ g.last = Infinite
  /\ infos[l] = AccessInfo(p.stmts[n], a, g)
  /\ Divides(p.stmts[n].rate * g.stride, found.size)
  /\ Time(p.stmts[n], g.first) - p.stmts[n].rate * g.stride + 1 <= found.offset

LEMMA EndlessThere ==
  ASSUME NEW p, IsProgram(p), IsScheduled(p),
         NEW o, o.period_offset \in Nat, o.period_scale \in Nat \ {0},
         NEW infos, infos = AccessInfos(p),
         NEW found, found = find_periodic_tiling(infos, o),
         NEW n \in DOMAIN p.stmts, p.stmts[n].band = LastBand(p),
         NEW a \in Reads(p.stmts[n]) \cup Writes(p.stmts[n]),
         NEW i \in Int, InDomain(i, p.stmts[n]), Time(p.stmts[n], i) >= found.offset
  PROVE  /\ found.offset \in Nat /\ found.size \in Nat \ {0}
         /\ \E g \in p.stmts[n].domain : \E l \in 1..Len(infos) :
              Along(p, found, infos, n, a, i, g, l)
<1> DEFINE s == p.stmts[n]
<1>0. Time(s, i) >= found.offset
  OBVIOUS
<1>1. PICK g \in s.domain : InProgression(i, g)
  BY DEF InDomain
<1>2. /\ s.rate \in Nat \ {0} /\ s.start \in Int
      /\ g \in Progression /\ Time(s, g.first) >= 0
      /\ a \in Access /\ a.mul \in Nat
  BY StatementParts
<1>4. infos \in Seq({j \in Info : MadeFrom(p, j)})
  BY InfosAre
<1>6. infos \in Seq(Info)
  BY <1>4
<1>7. PICK l \in 1..Len(infos) : infos[l] = AccessInfo(s, a, g)
  <2>1. g \in p.stmts[n].domain /\ s = p.stmts[n]
    BY <1>1
  <2> HIDE DEF s
  <2>2. \E l \in 1..Len(AccessInfos(p)) :
          AccessInfos(p)[l] = AccessInfo(p.stmts[n], a, g)
    BY <2>1, InfosAre
  <2> QED BY <2>1, <2>2
<1> HIDE DEF s
<1>8. found.offset \in Nat /\ find_period_onset(infos[l]) <= found.offset
  BY <1>6, LatestOnset
<1>9. /\ found.size \in Nat \ {0}
      /\ \A k \in 1..Len(infos) :
           infos[k].time_period # 0 => Divides(infos[k].time_period, found.size)
  BY <1>6, CommonPeriod
<1>11a. PICK f \in Nat, t \in Nat \ {0}, v \in Nat \ {0} :
          f = g.first /\ t = g.stride /\ v = s.rate
  <2>1. g.first \in Nat /\ g.stride \in Nat \ {0}
    BY <1>2 DEF Progression
  <2> QED BY <1>2, <2>1
<1>11b. PICK b \in Int, u \in Int, mul \in Nat :
          b = s.start /\ u = found.offset /\ mul = a.mul
  BY <1>2, <1>8
<1>12. f = g.first /\ t = g.stride /\ v = s.rate /\ b = s.start
       /\ u = found.offset /\ mul = a.mul
  BY <1>11a, <1>11b
<1>13. \A x \in Int : Time(s, x) = v * x + b
  BY <1>12 DEF Time
<1>14. v * i \in Int /\ v * i + b >= u
  <2>1. v * i + b = Time(s, i)
    BY <1>13
  <2> QED BY <1>0, <1>12, <2>1
<1>15. g.last = Infinite
  <2> SUFFICES ASSUME g.last # Infinite PROVE FALSE
    OBVIOUS
  <2>1. PICK e \in Nat : e = g.last
    <3>1. g.last \in Nat \cup {Infinite}
      BY <1>2 DEF Progression
    <3> QED BY <3>1
  <2>2. i <= e
    <3>1. g.last = Infinite \/ i <= g.last
      BY <1>1, <1>2, InProgressionIff
    <3> QED BY <2>1, <3>1
  <2>3. infos[l].time_period = 0 /\ infos[l].last_time = v * e + b
    <3>1. infos[l].time_period = 0 /\ infos[l].last_time = Time(s, g.last)
      BY <1>7, InfoFields
    <3>2. Time(s, e) = v * e + b
      BY <1>13
    <3> QED BY <2>1, <3>1, <3>2, Zenon
  <2>4. v * e + b + 1 <= u
    BY <1>8, <1>12, <2>3 DEF find_period_onset
  <2>5. PICK c \in Nat : c = e - i
    BY <2>2
  <2>6. v * e = v * i + v * c /\ v * c >= 0 /\ v * e \in Int
    <3>1. e = i + c
      BY <2>5
    <3>2. v * (i + c) = v * i + v * c /\ v * c >= 0
      OBVIOUS
    <3> QED BY <3>1, <3>2
  <2>7. PICK x \in Int, y \in Int, z \in Int : x = v * i /\ y = v * c /\ z = v * e
    OBVIOUS
  <2>8. z = x + y /\ y >= 0
    BY <2>6, <2>7
  <2>9. x + b >= u /\ z + b + 1 <= u
    BY <1>14, <2>4, <2>7
  <2> QED BY <2>8, <2>9
<1>16. infos[l].time_period = v * t /\ infos[l].first_time = v * f + b
  <2>1. Time(s, f) = v * f + b
    BY <1>13
  <2>2. /\ infos[l].first_time = Time(s, g.first)
        /\ infos[l].time_period = s.rate * g.stride
    BY <1>7, <1>15, InfoFields
  <2> QED BY <1>12, <2>1, <2>2, Zenon
<1>17. v * t \in Nat \ {0}
  OBVIOUS
<1>18. Divides(v * t, found.size)
  BY <1>9, <1>16, <1>17
<1>19. (v * f + b) - (v * t) + 1 <= u
  BY <1>8, <1>12, <1>16, <1>17 DEF find_period_onset
<1>20. Time(s, g.first) - s.rate * g.stride + 1 <= found.offset
  <2>1. Time(s, g.first) = v * f + b /\ s.rate * g.stride = v * t
    <3>1. Time(s, f) = v * f + b
      BY <1>13
    <3> QED BY <1>12, <3>1, Zenon
  <2> QED BY <1>12, <1>19, <2>1
<1>21. Divides(s.rate * g.stride, found.size)
  BY <1>12, <1>18, Zenon
<1>22. Along(p, found, infos, n, a, i, g, l)
  BY <1>1, <1>7, <1>15, <1>20, <1>21 DEF Along, s
<1> QED BY <1>8, <1>9, <1>22 DEF s

(* Any number of periods later there is an instance, and that many earlier *)
(* if it is not before the offset.                                         *)
RepeatsBy(p, found, n, i, q, d) ==
  /\ p.stmts[n].rate * d = found.size * q
  /\ InDomain(i + d, p.stmts[n])
  /\ Time(p.stmts[n], i - d) >= found.offset => InDomain(i - d, p.stmts[n]) /\ i - d >= 0
RepeatsFar(p, found, n, i, g, q, d) ==
  /\ d = g.stride * ((found.size \div (p.stmts[n].rate * g.stride)) * q)
  /\ RepeatsBy(p, found, n, i, q, d)

LEMMA RepeatsOn ==
  ASSUME NEW p, IsProgram(p), IsScheduled(p),
         NEW infos, NEW found, found.offset \in Nat, found.size \in Nat \ {0},
         NEW n \in DOMAIN p.stmts, NEW i \in Int,
         NEW a, NEW g \in p.stmts[n].domain, NEW l, Along(p, found, infos, n, a, i, g, l),
         NEW q \in Nat
  PROVE  \E d \in Nat : RepeatsFar(p, found, n, i, g, q, d)
<1> DEFINE s == p.stmts[n]
<1>1. s.rate \in Nat \ {0} /\ s.start \in Int /\ g \in Progression
  BY StatementParts
<1>2. PICK f \in Nat, t \in Nat \ {0}, v \in Nat \ {0} :
        f = g.first /\ t = g.stride /\ v = s.rate
  <2>1. g.first \in Nat /\ g.stride \in Nat \ {0}
    BY <1>1 DEF Progression
  <2> QED BY <1>1, <2>1
<1>3. PICK b \in Int, u \in Int, z \in Nat \ {0} :
        b = s.start /\ u = found.offset /\ z = found.size
  BY <1>1
<1> HIDE DEF s
<1>4. f = g.first /\ t = g.stride /\ v = s.rate /\ b = s.start
      /\ u = found.offset /\ z = found.size
  BY <1>2, <1>3
<1>5. \A x \in Int : Time(s, x) = v * x + b
  BY <1>4 DEF Time
<1>6. /\ InProgression(i, g) /\ g.last = Infinite /\ Divides(v * t, z)
      /\ (v * f + b) - (v * t) + 1 <= u
  <2>1. Time(s, f) = v * f + b
    BY <1>5
  <2>2. Divides(v * t, z)
    BY <1>4 DEF Along, s
  <2>3. Time(s, f) - v * t + 1 <= u
    BY <1>4 DEF Along, s
  <2> QED BY <2>1, <2>2, <2>3 DEF Along
<1>7. v * t \in Nat \ {0}
  OBVIOUS
<1>8. PICK k \in Nat \ {0} : k = z \div (v * t) /\ z = (v * t) * k
  <2>1. PICK vt \in Nat \ {0} : vt = v * t
    BY <1>7, Zenon
  <2>2. Divides(vt, z)
    BY <1>6, <2>1, Zenon
  <2>3. \E k \in Nat \ {0} : k = z \div vt /\ z = vt * k
    BY <2>2, WholePeriods
  <2> QED BY <2>1, <2>3, Zenon
<1>9. PICK kq \in Nat : kq = k * q
  OBVIOUS
<1>10. PICK d \in Nat : d = t * kq
  OBVIOUS
<1>11. v * d = z * q
  <2>1. ((v * t) * k) * q = v * (t * (k * q))
    OBVIOUS
  <2> QED BY <1>8, <1>9, <1>10, <2>1
<1>12. InProgression(i + d, g)
  BY <1>1, <1>4, <1>6, <1>9, <1>10, GoesOn
<1>13. ASSUME Time(s, i - d) >= found.offset PROVE InProgression(i - d, g) /\ i - d >= 0
  <2>1. PICK j \in Int : j = i - d
    OBVIOUS
  <2>2. v * j + b >= u
    BY <1>4, <1>5, <1>13, <2>1
  <2>3. v * j > v * f - v * t
    <3>1. PICK vj \in Int, vt \in Int, vf \in Int :
            vj = v * j /\ vt = v * t /\ vf = v * f
      OBVIOUS
    <3>2. vj + b >= u /\ (vf + b) - vt + 1 <= u
      BY <1>6, <2>2, <3>1
    <3>3. vj > vf - vt
      BY <3>2
    <3> QED BY <3>1, <3>3
  <2>4. j > f - t
    <3> SUFFICES ASSUME ~(j > f - t) PROVE FALSE
      OBVIOUS
    <3>1. PICK c \in Nat : c = (f - t) - j
      OBVIOUS
    <3>2. f = j + c + t
      BY <3>1
    <3>3. v * (j + c + t) = v * j + v * c + v * t /\ v * c >= 0
      OBVIOUS
    <3>4. PICK vj \in Int, vc \in Int, vt \in Int, vf \in Int :
            vj = v * j /\ vc = v * c /\ vt = v * t /\ vf = v * f
      OBVIOUS
    <3> QED BY <2>3, <3>2, <3>3, <3>4
  <2> QED BY <1>1, <1>4, <1>6, <1>9, <1>10, <2>1, <2>4, GoesOn
<1>14. RepeatsBy(p, found, n, i, q, d)
  <2>1. s.rate * d = found.size * q
    BY <1>4, <1>11, Zenon
  <2> QED BY <1>12, <1>13, <2>1 DEF RepeatsBy, InDomain, s
<1>15. d = g.stride * ((found.size \div (s.rate * g.stride)) * q)
  BY <1>4, <1>8, <1>9, <1>10, Zenon
<1> QED BY <1>14, <1>15 DEF RepeatsFar, s

AllMadeFrom(p, infos) ==
  infos \in Seq(Info) /\ \A k \in 1..Len(infos) : MadeFrom(p, infos[k])

LEMMA SameOffset ==
  ASSUME NEW p, IsProgram(p), IsScheduled(p), MoveAlike(p),
         NEW infos, AllMadeFrom(p, infos),
         NEW found, found.size \in Nat \ {0}, IsCommonPeriod(found.size, infos),
         NEW array, InterTileOffset(found, infos, array) # Inconsistent,
         NEW l \in 1..Len(infos), Repeats(infos[l], array)
  PROVE  Offset(found.size, infos[l]) = InterTileOffset(found, infos, array)
<1>1. \A k \in 1..Len(infos) : infos[k] \in Info /\ MadeFrom(p, infos[k])
  BY DEF AllMadeFrom
<1>2. \A k, m \in 1..Len(infos) :
        Repeats(infos[k], array) /\ Repeats(infos[m], array) =>
          (infos[k].data_offset = 0 <=> infos[m].data_offset = 0)
  BY <1>1, InfosMoveAlike
<1> QED BY <1>2, OffsetsAgree DEF AllMadeFrom, IsCommonPeriod

(* The instances a period later and earlier, and their accesses            *)
MovesBy(p, found, infos, n, a, i, d) ==
  /\ a.mul * d = InterTileOffset(found, infos, a.array)
  /\ p.stmts[n].rate * d = found.size
  /\ InDomain(i + d, p.stmts[n])
  /\ Time(p.stmts[n], i - d) >= found.offset => InDomain(i - d, p.stmts[n]) /\ i - d >= 0

LEMMA MovesOn ==
  ASSUME NEW p, IsProgram(p), IsScheduled(p), MoveAlike(p),
         NEW o, o.period_offset \in Nat, o.period_scale \in Nat \ {0},
         NEW infos, infos = AccessInfos(p),
         NEW found, found = find_periodic_tiling(infos, o),
         NEW n \in DOMAIN p.stmts, p.stmts[n].band = LastBand(p),
         NEW a \in Reads(p.stmts[n]) \cup Writes(p.stmts[n]),
         NEW i \in Int, InDomain(i, p.stmts[n]), Time(p.stmts[n], i) >= found.offset,
         InterTileOffset(found, infos, a.array) # Inconsistent
  PROVE  \E d \in Nat : MovesBy(p, found, infos, n, a, i, d)
<1> DEFINE s == p.stmts[n]
           moved == InterTileOffset(found, infos, a.array)
<1>1. found.offset \in Nat /\ found.size \in Nat \ {0}
  BY EndlessThere
<1>2. PICK g \in s.domain, l \in 1..Len(infos) : Along(p, found, infos, n, a, i, g, l)
  BY EndlessThere
<1>3. /\ s.rate \in Nat \ {0} /\ a.mul \in Nat /\ g \in Progression
  BY StatementParts
<1>4. PICK t \in Nat \ {0}, v \in Nat \ {0}, mul \in Nat :
        t = g.stride /\ v = s.rate /\ mul = a.mul
  <2>1. g.stride \in Nat \ {0}
    BY <1>3 DEF Progression
  <2> QED BY <1>3, <2>1
<1>5. PICK d \in Nat : RepeatsFar(p, found, n, i, g, 1, d)
  BY <1>1, <1>2, RepeatsOn
<1>6. /\ d = g.stride * ((found.size \div (s.rate * g.stride)) * 1)
      /\ RepeatsBy(p, found, n, i, 1, d)
  BY <1>5 DEF RepeatsFar
<1>7. AllMadeFrom(p, infos)
  <2>1. infos \in Seq({j \in Info : MadeFrom(p, j)})
    BY InfosAre
  <2> QED BY <2>1 DEF AllMadeFrom
<1>8. IsCommonPeriod(found.size, infos)
  BY <1>7, CommonPeriod DEF IsCommonPeriod, AllMadeFrom
<1> HIDE DEF s
<1>10. /\ infos[l].time_period = v * t /\ infos[l].data_offset = mul * t
       /\ infos[l].array = a.array
  <2>1. /\ infos[l].array = a.array
        /\ infos[l].time_period = s.rate * g.stride
        /\ infos[l].data_offset = a.mul * g.stride
    BY <1>2, InfoFields DEF Along, s
  <2> QED BY <1>4, <2>1, Zenon
<1>11. v * t \in Nat \ {0}
  OBVIOUS
<1>12. PICK k \in Nat \ {0} : k = found.size \div (v * t) /\ found.size = (v * t) * k
  <2>1. Divides(v * t, found.size)
    BY <1>2, <1>4 DEF Along, s
  <2> QED BY <1>1, <1>11, <2>1, WholePeriods
<1>13. d = t * k
  <2>1. d = t * (k * 1)
    BY <1>4, <1>6, <1>12, Zenon
  <2> QED BY <2>1
<1>14. mul * d = moved
  <2>1. Repeats(infos[l], a.array)
    BY <1>2, <1>10, <1>11 DEF Repeats
  <2>2. Offset(found.size, infos[l]) = moved
    <3>2. InterTileOffset(found, infos, a.array) # Inconsistent
      OBVIOUS
    <3>3. found.size \in Nat \ {0} /\ l \in 1..Len(infos)
      BY <1>1, <1>2
    <3> HIDE DEF moved
    <3>4. Offset(found.size, infos[l]) = InterTileOffset(found, infos, a.array)
      BY <1>7, <1>8, <2>1, <3>2, <3>3, SameOffset
    <3> QED BY <3>4 DEF moved
  <2>3. (mul * t) * k = moved
    BY <1>10, <1>12, <2>2 DEF Offset
  <2>4. (mul * t) * k = mul * (t * k)
    OBVIOUS
  <2> QED BY <1>13, <2>3, <2>4
<1>15. found.size * 1 = found.size
  BY <1>1
<1>16. MovesBy(p, found, infos, n, a, i, d)
  BY <1>4, <1>6, <1>14, <1>15 DEF MovesBy, RepeatsBy, s
<1> QED BY <1>16

LEMMA InstanceParts ==
  ASSUME NEW p, IsProgram(p), IsScheduled(p)
  PROVE  /\ \A e \in Instances(p) :
              /\ e[1] \in DOMAIN p.stmts /\ e[2] \in 0..(2 * Horizon) /\ e = <<e[1], e[2]>>
              /\ InDomain(e[2], p.stmts[e[1]]) /\ Time(p.stmts[e[1]], e[2]) < Horizon
         /\ \A n \in DOMAIN p.stmts : \A i \in Nat :
              InDomain(i, p.stmts[n]) /\ Time(p.stmts[n], i) < Horizon =>
                <<n, i>> \in Instances(p)
<1>1. \A e \in Instances(p) :
        /\ e[1] \in DOMAIN p.stmts /\ e[2] \in 0..(2 * Horizon) /\ e = <<e[1], e[2]>>
        /\ InDomain(e[2], p.stmts[e[1]]) /\ Time(p.stmts[e[1]], e[2]) < Horizon
  BY DEF Instances, Statements
<1>2. ASSUME NEW n \in DOMAIN p.stmts, NEW i \in Nat,
             InDomain(i, p.stmts[n]), Time(p.stmts[n], i) < Horizon
      PROVE  <<n, i>> \in Instances(p)
  <2>1. PICK v \in Nat \ {0}, b \in Int : v = p.stmts[n].rate /\ b = p.stmts[n].start
    BY StatementParts
  <2>2. v * i + b < Horizon /\ b >= -Horizon
    BY <1>2, <2>1 DEF Time, IsScheduled
  <2>3. v * i >= i
    OBVIOUS
  <2>4. PICK x \in Int : x = v * i
    OBVIOUS
  <2>5. i <= 2 * Horizon
    BY <2>2, <2>3, <2>4, HorizonAssumption
  <2>6. i \in 0..(2 * Horizon)
    BY <2>5, HorizonAssumption
  <2> QED BY <1>2, <2>6 DEF Instances, Statements
<1> QED BY <1>1, <1>2

LEMMA KeyMoves ==
  ASSUME NEW p, IsProgram(p), NEW n \in DOMAIN p.stmts, NEW i \in Int, NEW d \in Int
  PROVE  Key(p, <<n, i + d>>) = Key(p, <<n, i>>) + p.stmts[n].rate * d * Len(p.stmts)
<1>1. /\ Len(p.stmts) \in Nat /\ n \in 1..Len(p.stmts)
      /\ p.stmts[n].rate \in Int /\ p.stmts[n].start \in Int /\ p.stmts[n].band \in Nat
  BY DEF IsProgram, IsStatement
<1>2. PICK len \in Int, v \in Int, b \in Int, h \in Int :
        /\ len = Len(p.stmts) /\ v = p.stmts[n].rate /\ b = p.stmts[n].start
        /\ h = 2 * Horizon * p.stmts[n].band
  BY <1>1, HorizonAssumption
<1>3. /\ Key(p, <<n, i>>) = (h + (v * i + b)) * len + n - 1
      /\ Key(p, <<n, i + d>>) = (h + (v * (i + d) + b)) * len + n - 1
  BY <1>2 DEF Key, Time
<1>4. (h + (v * (i + d) + b)) * len = (h + (v * i + b)) * len + v * d * len
  OBVIOUS
<1>5. /\ (h + (v * i + b)) * len \in Int /\ v * d * len \in Int /\ n \in Int
  BY <1>1
<1>6. PICK x \in Int, y \in Int : x = (h + (v * i + b)) * len /\ y = v * d * len
  BY <1>5
<1>7. Key(p, <<n, i>>) = x + n - 1 /\ Key(p, <<n, i + d>>) = x + y + n - 1
  BY <1>3, <1>4, <1>6
<1>8. p.stmts[n].rate * d * Len(p.stmts) = y
  BY <1>2, <1>6, Zenon
<1> QED BY <1>5, <1>7, <1>8

LEMMA AccessesGoOn ==
  ASSUME NEW p, IsProgram(p), IsScheduled(p), MoveAlike(p),
         NEW o, o.period_offset \in Nat, o.period_scale \in Nat \ {0},
         NEW infos, infos = AccessInfos(p),
         NEW found, found = find_periodic_tiling(infos, o),
         NEW array, NEW moved, moved = InterTileOffset(found, infos, array),
         moved # Inconsistent,
         NEW acc, \A n \in DOMAIN p.stmts : \A a \in acc[n] :
                    a \in Reads(p.stmts[n]) \cup Writes(p.stmts[n]) /\ a.array = array,
         NEW c \in Accessed(p, acc), c[2] >= KeyOfTime(p, found.offset)
  PROVE  LET later == found.size * Len(p.stmts) IN
         /\ c[2] + later < KeyOfTime(p, Horizon) =>
              <<c[1] + moved, c[2] + later>> \in Accessed(p, acc)
         /\ c[2] - later >= KeyOfTime(p, found.offset) =>
              <<c[1] - moved, c[2] - later>> \in Accessed(p, acc)
         /\ moved \in Int
<1> DEFINE later == found.size * Len(p.stmts)
<1>1. PICK e \in Instances(p) : \E a \in acc[e[1]] : c = <<Index(a, e[2]), Key(p, e)>>
  BY DEF Accessed
<1>2. PICK a \in acc[e[1]] : c = <<Index(a, e[2]), Key(p, e)>>
  BY <1>1
<1>3. /\ e[1] \in DOMAIN p.stmts /\ e[2] \in 0..(2 * Horizon) /\ e = <<e[1], e[2]>>
      /\ InDomain(e[2], p.stmts[e[1]]) /\ Time(p.stmts[e[1]], e[2]) < Horizon
  BY InstanceParts
<1>4. PICK n \in DOMAIN p.stmts, i \in Nat : n = e[1] /\ i = e[2] /\ e = <<n, i>>
  BY <1>3, HorizonAssumption
<1> DEFINE s == p.stmts[n]
<1>5. InDomain(i, s) /\ Time(s, i) < Horizon
  BY <1>3, <1>4
<1>6. a \in Reads(s) \cup Writes(s) /\ a.array = array /\ a \in acc[n]
  BY <1>2, <1>4
<1>7. /\ s.rate \in Nat \ {0} /\ s.start \in Int /\ a.mul \in Nat /\ a.off \in Int
  BY <1>6, StatementParts
<1>8. c = <<Index(a, i), Key(p, <<n, i>>)>>
  BY <1>2, <1>4
<1>9. found.offset \in Nat
  <2>1. infos \in Seq({j \in Info : MadeFrom(p, j)})
    BY InfosAre
  <2>2. infos \in Seq(Info)
    BY <2>1
  <2> QED BY <2>2, LatestOnset
<1>10. s.band = LastBand(p) /\ Time(s, i) >= found.offset
  <2>1. PICK t \in Nat : t = found.offset
    BY <1>9
  <2>2. /\ Key(p, <<n, i>>) \in Int /\ KeyOfTime(p, t) \in Int
        /\ s.band = LastBand(p) =>
             (Key(p, <<n, i>>) >= KeyOfTime(p, t) <=> Time(s, i) >= t)
        /\ s.band # LastBand(p) /\ Time(s, i) < Horizon /\ t >= 0 =>
             Key(p, <<n, i>>) < KeyOfTime(p, t)
    BY KeyIs
  <2>3. Key(p, <<n, i>>) >= KeyOfTime(p, t)
    BY <1>8, <2>1
  <2> HIDE DEF s
  <2>4. s.band = LastBand(p)
    BY <1>5, <2>2, <2>3
  <2> QED BY <2>1, <2>2, <2>3, <2>4
<1>11. PICK d \in Nat : MovesBy(p, found, infos, n, a, i, d)
  BY <1>5, <1>6, <1>10, MovesOn
<1>12. /\ a.mul * d = moved /\ s.rate * d = found.size
       /\ InDomain(i + d, s)
       /\ Time(s, i - d) >= found.offset => InDomain(i - d, s) /\ i - d >= 0
  BY <1>6, <1>11 DEF MovesBy
<1>13. /\ Key(p, <<n, i + d>>) = c[2] + later /\ Key(p, <<n, i - d>>) = c[2] - later
       /\ Key(p, <<n, i>>) \in Int /\ later \in Int
  <2>1. Key(p, <<n, i + d>>) = Key(p, <<n, i>>) + s.rate * d * Len(p.stmts)
    BY KeyMoves
  <2>2. -d \in Int /\ i + (-d) = i - d
    OBVIOUS
  <2>3. Key(p, <<n, i + (-d)>>) = Key(p, <<n, i>>) + s.rate * (-d) * Len(p.stmts)
    BY <2>2, KeyMoves
  <2>4. PICK v \in Int, len \in Int, k \in Int :
          v = s.rate /\ len = Len(p.stmts) /\ k = Key(p, <<n, i>>)
    <3>1. Len(p.stmts) \in Int
      BY DEF IsProgram
    <3>2. Key(p, <<n, i>>) \in Int /\ KeyOfTime(p, 0) \in Int
      BY KeyIs
    <3>3. s.rate \in Int
      BY <1>7
    <3> HIDE DEF s
    <3> QED BY <3>1, <3>2, <3>3
  <2>5. v * (-d) * len = -(v * d * len) /\ v * d * len \in Int
    OBVIOUS
  <2>6. PICK x \in Int : x = v * d * len
    BY <2>5
  <2>7. later = x
    BY <1>12, <2>4, <2>6
  <2> HIDE DEF later, s
  <2>8. Key(p, <<n, i + d>>) = k + x /\ Key(p, <<n, i - d>>) = k + (-x)
    BY <2>1, <2>2, <2>3, <2>4, <2>5, <2>6
  <2> QED BY <1>8, <2>4, <2>7, <2>8
<1>14. Index(a, i + d) = c[1] + moved /\ Index(a, i - d) = c[1] - moved
  <2>1. PICK m \in Int, b \in Int : m = a.mul /\ b = a.off
    BY <1>7
  <2>2. m * (i + d) = m * i + m * d /\ m * (i - d) = m * i - m * d
    OBVIOUS
  <2>3. PICK x \in Int, y \in Int : x = m * i /\ y = m * d
    OBVIOUS
  <2>4. c[1] = x + b /\ moved = y
    BY <1>8, <1>12, <2>1, <2>3 DEF Index
  <2>5. Index(a, i + d) = x + y + b /\ Index(a, i - d) = x - y + b
    BY <2>1, <2>2, <2>3 DEF Index
  <2> QED BY <2>4, <2>5
<1> HIDE DEF later
<1>15. ASSUME NEW j \in Nat, InDomain(j, s), Time(s, j) < Horizon
       PROVE  <<Index(a, j), Key(p, <<n, j>>)>> \in Accessed(p, acc)
  <2>1. <<n, j>> \in Instances(p)
    BY <1>15, InstanceParts
  <2>2. <<n, j>>[1] = n /\ <<n, j>>[2] = j
    OBVIOUS
  <2> QED BY <1>6, <2>1, <2>2 DEF Accessed
<1>16. ASSUME c[2] + later < KeyOfTime(p, Horizon)
       PROVE  <<c[1] + moved, c[2] + later>> \in Accessed(p, acc)
  <2>1. PICK j \in Nat : j = i + d
    OBVIOUS
  <2>2. /\ Time(s, j) \in Int /\ Key(p, <<n, j>>) \in Int
        /\ KeyOfTime(p, Horizon) \in Int
        /\ (Key(p, <<n, j>>) >= KeyOfTime(p, Horizon) <=> Time(s, j) >= Horizon)
    BY <1>10, HorizonAssumption, KeyIs
  <2>3. Key(p, <<n, j>>) < KeyOfTime(p, Horizon)
    BY <1>13, <1>16, <2>1
  <2> HIDE DEF s
  <2>4. Time(s, j) < Horizon
    BY <2>2, <2>3, HorizonAssumption
  <2> QED BY <1>12, <1>13, <1>14, <1>15, <2>1, <2>4
<1>17. ASSUME c[2] - later >= KeyOfTime(p, found.offset)
       PROVE  <<c[1] - moved, c[2] - later>> \in Accessed(p, acc)
  <2>1. PICK j \in Int, t \in Nat : j = i - d /\ t = found.offset
    BY <1>9
  <2>2. /\ Time(s, j) \in Int
        /\ (Key(p, <<n, j>>) >= KeyOfTime(p, t) <=> Time(s, j) >= t)
    BY <1>10, KeyIs
  <2>3. Key(p, <<n, j>>) >= KeyOfTime(p, t)
    BY <1>13, <1>17, <2>1
  <2> HIDE DEF s
  <2>4. InDomain(j, s) /\ j >= 0
    BY <1>12, <2>1, <2>2, <2>3
  <2>5. Time(s, j) < Horizon
    <3>1. PICK v \in Nat, b \in Int : v = s.rate /\ b = s.start
      BY <1>7
    <3>2. v * i = v * j + v * d /\ v * d >= 0
      <4>1. i = j + d
        BY <2>1
      <4>2. v * (j + d) = v * j + v * d /\ v * d >= 0
        OBVIOUS
      <4> QED BY <4>1, <4>2
    <3>3. PICK x \in Int, y \in Int, z \in Int : x = v * i /\ y = v * j /\ z = v * d
      OBVIOUS
    <3>4. x + b < Horizon
      BY <1>5, <3>1, <3>3 DEF Time
    <3>5. Time(s, j) = y + b
      BY <3>1, <3>3 DEF Time
    <3> QED BY <3>2, <3>3, <3>4, <3>5, HorizonAssumption
  <2> QED BY <1>13, <1>14, <1>15, <2>1, <2>4, <2>5
<1>18. moved \in Int
  <2>1. PICK m \in Int : m = a.mul
    BY <1>7
  <2>2. m * d \in Int
    OBVIOUS
  <2> QED BY <1>12, <2>1, <2>2
<1> QED BY <1>16, <1>17, <1>18 DEF later

(* Where tiling and period come from                                       *)
Analysed(p) == IF Periodic(p) THEN AccessInfos(p) ELSE <<>>
TilingFound ==
  stage \in {"scheduled", "allocated", "timed", "done"} =>
    /\ ~InfiniteBandNotLast(prog)
    /\ tiling = find_periodic_tiling(Analysed(prog), opt)
    /\ period = [a \in Arrays(prog) |-> InterTileOffset(tiling, Analysed(prog), a)]
    /\ \A a \in Arrays(prog) :
         period[a] = InterTileOffset(tiling, Analysed(prog), a) /\ period[a] # Inconsistent

LEMMA TilingStays == (Init => TilingFound) /\ (TilingFound /\ [Next]_vars => TilingFound')
<1>1. Init => TilingFound
  BY DEF Init, TilingFound
<1>2. ASSUME TilingFound, [Next]_vars PROVE TilingFound'
  <2>1. CASE DropUnreadInstances
    <3>1. stage' = "useful"
      BY <2>1 DEF DropUnreadInstances
    <3> QED BY <3>1 DEF TilingFound
  <2>2. CASE MakePeriodicSchedule
    <3>1. /\ UNCHANGED <<prog, opt>> /\ ~InfiniteBandNotLast(prog)
          /\ tiling' = find_periodic_tiling(Analysed(prog), opt)
          /\ period' = [a \in Arrays(prog) |-> InterTileOffset(tiling', Analysed(prog), a)]
          /\ \A a \in Arrays(prog) : InterTileOffset(tiling', Analysed(prog), a) # Inconsistent
      BY <2>2 DEF MakePeriodicSchedule, Analysed
    <3>2. \A a \in Arrays(prog) : period'[a] = InterTileOffset(tiling', Analysed(prog), a)
      BY <3>1
    <3>3. /\ Arrays(prog)' = Arrays(prog) /\ Analysed(prog)' = Analysed(prog) /\ opt' = opt
          /\ InfiniteBandNotLast(prog)' = InfiniteBandNotLast(prog)
      BY <3>1
    <3>4. period' = [a \in Arrays(prog)' |-> InterTileOffset(tiling', Analysed(prog)', a)]
      BY <3>1, <3>3
    <3> QED BY <3>1, <3>2, <3>3, <3>4 DEF TilingFound
  <2>3. CASE ScheduleOutOfOrder \/ ScheduleNotSteady \/ AllocationFails
    <3>1. stage' \in Errors
      <4>1. \A a \in Arrays(prog) : ArrayError(a) # "none" => ArrayError(a) \in Errors
        BY DEF ArrayError, Errors
      <4> QED BY <2>3, <4>1
        DEF ScheduleOutOfOrder, ScheduleNotSteady, AllocationFails, Fail, Errors
    <3>2. stage' \notin {"scheduled", "allocated", "timed", "done"}
      BY <3>1 DEF Errors, NotLast, NotSteady, TooLong, NeverWritten, NotAccessed
    <3> QED BY <3>2 DEF TilingFound
  <2>4. CASE AllocateStorage \/ ComputeIoLatencies \/ GenerateCode \/ UNCHANGED vars
    <3>1. /\ UNCHANGED <<prog, opt, tiling, period>>
          /\ stage' \in {"scheduled", "allocated", "timed", "done"} =>
               stage \in {"scheduled", "allocated", "timed", "done"}
      BY <2>4 DEF AllocateStorage, ComputeIoLatencies, GenerateCode, vars
    <3>2. /\ Arrays(prog)' = Arrays(prog) /\ Analysed(prog)' = Analysed(prog) /\ opt' = opt
          /\ InfiniteBandNotLast(prog)' = InfiniteBandNotLast(prog)
      BY <3>1
    <3>3. [a \in Arrays(prog) |-> InterTileOffset(tiling, Analysed(prog), a)]'
            = [a \in Arrays(prog) |-> InterTileOffset(tiling, Analysed(prog), a)]
      BY <3>1, <3>2
    <3> QED BY <1>2, <3>1, <3>2, <3>3 DEF TilingFound
  <2> QED BY <1>2, <2>1, <2>2, <2>3, <2>4 DEF Next
<1> QED BY <1>1, <1>2

LEMMA RepeatsWhenAlike ==
  ASSUME DInv, Typed, TilingFound, MoveAlike(prog)
  PROVE  AccessesRepeat
<1> SUFFICES ASSUME stage \in {"allocated", "timed", "done"}, Periodic(prog),
                    NEW array \in Arrays(prog),
                    NEW c \in Written(prog, array) \cup ReadOut(prog, array),
                    c[2] >= KeyOfTime(prog, tiling.offset)
             PROVE  LET later == tiling.size * Len(prog.stmts)
                        all == Written(prog, array) \cup ReadOut(prog, array) IN
                    /\ c[2] + later < KeyOfTime(prog, Horizon) =>
                         /\ <<c[1] + period[array], c[2] + later>> \in all
                         /\ c[2] + later >= KeyOfTime(prog, tiling.offset)
                    /\ c[2] - later >= KeyOfTime(prog, tiling.offset) =>
                         <<c[1] - period[array], c[2] - later>> \in all
  BY DEF AccessesRepeat
<1> DEFINE infos == AccessInfos(prog)
           later == tiling.size * Len(prog.stmts)
           all == Written(prog, array) \cup ReadOut(prog, array)
<1>1. IsProgram(prog) /\ IsScheduled(prog)
  BY DroppingKeepsProgram, DroppingKeepsSchedule DEF DInv
<1>2. /\ opt.period_offset \in Nat /\ opt.period_scale \in Nat \ {0}
      /\ tiling.offset \in Nat /\ tiling.size \in Nat \ {0}
  BY OptionsAssumption DEF Typed
<1>3. /\ tiling = find_periodic_tiling(infos, opt)
      /\ period[array] = InterTileOffset(tiling, infos, array)
      /\ period[array] # Inconsistent
  BY DEF TilingFound, Analysed
<1>4. c[2] + later >= KeyOfTime(prog, tiling.offset)
  <2>1. c[2] \in Int
    BY <1>1, WrittenFinite
  <2>2. KeyOfTime(prog, tiling.offset) \in Int
    <3>1. LastBand(prog) \in Int
      <4>1. c \in Accessed(prog, WritersOf(prog, array)) \cup Accessed(prog, ReadersOf(prog, array))
        BY <1>1, AccessesOf
      <4>2. PICK e \in Instances(prog) : TRUE
        BY <4>1 DEF Accessed
      <4>3. e[1] \in 1..Len(prog.stmts)
        BY <1>1, InstancesFinite
      <4> QED BY <1>1, <4>3, BandsBounded
    <3>2. Len(prog.stmts) \in Int
      BY <1>1 DEF IsProgram
    <3> QED BY <1>2, <3>1, <3>2, HorizonAssumption DEF KeyOfTime
  <2>3. later \in Nat
    <3>1. Len(prog.stmts) \in Nat
      BY <1>1 DEF IsProgram
    <3> QED BY <1>2, <3>1
  <2> HIDE DEF later
  <2> QED BY <2>1, <2>2, <2>3
<1>5. ASSUME NEW acc,
             \A n \in DOMAIN prog.stmts : \A a \in acc[n] :
               a \in Reads(prog.stmts[n]) \cup Writes(prog.stmts[n]) /\ a.array = array,
             c \in Accessed(prog, acc)
      PROVE  /\ c[2] + later < KeyOfTime(prog, Horizon) =>
                  <<c[1] + period[array], c[2] + later>> \in Accessed(prog, acc)
             /\ c[2] - later >= KeyOfTime(prog, tiling.offset) =>
                  <<c[1] - period[array], c[2] - later>> \in Accessed(prog, acc)
  <2> HIDE DEF infos
  <2>1. infos = AccessInfos(prog)
    BY DEF infos
  <2> QED BY <1>1, <1>2, <1>3, <1>5, <2>1, AccessesGoOn
<1> DEFINE w == WritersOf(prog, array)
           r == ReadersOf(prog, array)
<1>6. Written(prog, array) = Accessed(prog, w) /\ ReadOut(prog, array) = Accessed(prog, r)
  BY <1>1, AccessesOf
<1>8. /\ \A n \in DOMAIN prog.stmts : \A a \in w[n] :
           a \in Reads(prog.stmts[n]) \cup Writes(prog.stmts[n]) /\ a.array = array
      /\ \A n \in DOMAIN prog.stmts : \A a \in r[n] :
           a \in Reads(prog.stmts[n]) \cup Writes(prog.stmts[n]) /\ a.array = array
  BY <1>1, AccessesOf
<1> HIDE DEF w, r, later
<1>9. CASE c \in Accessed(prog, w)
  BY <1>4, <1>5, <1>6, <1>8, <1>9 DEF later
<1>10. CASE c \in Accessed(prog, r)
  BY <1>4, <1>5, <1>6, <1>8, <1>10 DEF later
<1> QED BY <1>6, <1>9, <1>10

(* Whatever the schedule, the period and the options: as long as accesses  *)
(* that go on for ever in one array all move, or all stay where they are,  *)
(* everything from the offset on happens again a period later, as far      *)
(* along in each array as the code has noted for it, and has happened a    *)
(* period before unless it is in the first one.                            *)
THEOREM EverythingRepeats == Spec => [](MoveAlike(prog) => AccessesRepeat)
<1>1. DInv /\ Typed /\ TilingFound => (MoveAlike(prog) => AccessesRepeat)
  BY RepeatsWhenAlike
<1> QED BY <1>1, TilingStays, TypedFromTheStart, TypedStep, DroppedOnce, PTL DEF Spec

-----------------------------------------------------------------------------
(* Buffers on the stack.  An access is repeated any number of periods      *)
(* later or earlier.                                                       *)
LEMMA AccessesBefore ==
  ASSUME NEW p, NEW acc, NEW moved \in Int, NEW later \in Nat, NEW from \in Int,
         \A c \in Accessed(p, acc) : c[1] \in Int /\ c[2] \in Int,
         \A c \in Accessed(p, acc) : c[2] - later >= from =>
           <<c[1] - moved, c[2] - later>> \in Accessed(p, acc),
         NEW x \in Int, NEW key \in Int, <<x, key>> \in Accessed(p, acc),
         NEW m \in Nat, key - later * m >= from
  PROVE  <<x - moved * m, key - later * m>> \in Accessed(p, acc)
<1> DEFINE A == Accessed(p, acc)
           Bad == {k \in Nat : k <= m /\ <<x - moved * k, key - later * k>> \notin A}
<1> HIDE DEF A
<1>1. Bad = {}
  <2> SUFFICES ASSUME Bad # {} PROVE FALSE
    OBVIOUS
  <2>1. PICK k \in Bad : \A j \in Nat : j < k => j \notin Bad
    <3>1. Bad \in SUBSET Nat
      OBVIOUS
    <3> HIDE DEF Bad
    <3> QED BY <3>1, LeastOf
  <2>2. k \in Nat /\ k <= m /\ <<x - moved * k, key - later * k>> \notin A
    BY <2>1
  <2>3. k # 0
    <3> SUFFICES ASSUME k = 0 PROVE FALSE
      OBVIOUS
    <3>1. x - moved * 0 = x /\ key - later * 0 = key
      OBVIOUS
    <3> QED BY <2>2, <3>1 DEF A
  <2>4. PICK j \in Nat : k = j + 1
    <3>1. k - 1 \in Nat /\ k = (k - 1) + 1
      BY <2>2, <2>3
    <3> QED BY <3>1
  <2>5. j < k /\ j <= m
    BY <2>2, <2>4
  <2>6. <<x - moved * j, key - later * j>> \in A
    <3>1. j \notin Bad
      BY <2>1, <2>5
    <3> QED BY <2>5, <3>1
  <2>7. PICK y \in Int, l \in Int : y = x - moved * j /\ l = key - later * j
    OBVIOUS
  <2>8. x - moved * k = y - moved /\ key - later * k = l - later
    <3>1. moved * (j + 1) = moved * j + moved /\ later * (j + 1) = later * j + later
      OBVIOUS
    <3>2. PICK u \in Int, v \in Int : u = moved * j /\ v = later * j
      OBVIOUS
    <3> QED BY <2>4, <2>7, <3>1, <3>2
  <2>9. l - later >= from
    <3>1. PICK d \in Nat : m = k + d
      <4>1. m - k \in Nat /\ m = k + (m - k)
        BY <2>2
      <4> QED BY <4>1
    <3>2. later * (k + d) = later * k + later * d /\ later * d >= 0
      BY <2>2
    <3>3. PICK u \in Int, v \in Int : u = later * k /\ v = later * d
      BY <2>2
    <3>4. key - (u + v) >= from /\ v >= 0 /\ key - u = l - later
      BY <2>8, <3>1, <3>2, <3>3
    <3> QED BY <3>4
  <2>10. <<y, l>> \in A /\ <<y, l>>[1] = y /\ <<y, l>>[2] = l
    BY <2>6, <2>7
  <2>11. <<y - moved, l - later>> \in A
    BY <2>9, <2>10 DEF A
  <2> QED BY <2>2, <2>8, <2>11
<1>2. m \in Nat /\ m <= m
  OBVIOUS
<1>3. m \notin Bad
  BY <1>1
<1> QED BY <1>2, <1>3 DEF A

LEMMA AccessesAfter ==
  ASSUME NEW p, NEW acc, NEW moved \in Int, NEW later \in Nat, NEW from \in Int, NEW to \in Int,
         \A c \in Accessed(p, acc) : c[2] >= from /\ c[2] + later < to =>
           <<c[1] + moved, c[2] + later>> \in Accessed(p, acc),
         NEW x \in Int, NEW key \in Int, <<x, key>> \in Accessed(p, acc), key >= from,
         NEW m \in Nat, key + later * m < to
  PROVE  <<x + moved * m, key + later * m>> \in Accessed(p, acc)
<1> DEFINE A == Accessed(p, acc)
           Bad == {k \in Nat : k <= m /\ <<x + moved * k, key + later * k>> \notin A}
<1> HIDE DEF A
<1>1. Bad = {}
  <2> SUFFICES ASSUME Bad # {} PROVE FALSE
    OBVIOUS
  <2>1. PICK k \in Bad : \A j \in Nat : j < k => j \notin Bad
    <3>1. Bad \in SUBSET Nat
      OBVIOUS
    <3> HIDE DEF Bad
    <3> QED BY <3>1, LeastOf
  <2>2. k \in Nat /\ k <= m /\ <<x + moved * k, key + later * k>> \notin A
    BY <2>1
  <2>3. k # 0
    <3> SUFFICES ASSUME k = 0 PROVE FALSE
      OBVIOUS
    <3>1. x + moved * 0 = x /\ key + later * 0 = key
      OBVIOUS
    <3> QED BY <2>2, <3>1 DEF A
  <2>4. PICK j \in Nat : k = j + 1
    <3>1. k - 1 \in Nat /\ k = (k - 1) + 1
      BY <2>2, <2>3
    <3> QED BY <3>1
  <2>5. j < k /\ j <= m
    BY <2>2, <2>4
  <2>6. <<x + moved * j, key + later * j>> \in A
    <3>1. j \notin Bad
      BY <2>1, <2>5
    <3> QED BY <2>5, <3>1
  <2>7. PICK y \in Int, l \in Int : y = x + moved * j /\ l = key + later * j
    OBVIOUS
  <2>8. x + moved * k = y + moved /\ key + later * k = l + later
    <3>1. moved * (j + 1) = moved * j + moved /\ later * (j + 1) = later * j + later
      OBVIOUS
    <3>2. PICK u \in Int, v \in Int : u = moved * j /\ v = later * j
      OBVIOUS
    <3> QED BY <2>4, <2>7, <3>1, <3>2
  <2>9. l >= from /\ l + later < to
    <3>1. PICK d \in Nat : m = k + d
      <4>1. m - k \in Nat /\ m = k + (m - k)
        BY <2>2
      <4> QED BY <4>1
    <3>2. later * (k + d) = later * k + later * d /\ later * d >= 0 /\ later * j >= 0
      BY <2>2
    <3>3. PICK u \in Int, v \in Int, w \in Int : u = later * k /\ v = later * d /\ w = later * j
      BY <2>2
    <3>4. key + (u + v) < to /\ v >= 0 /\ key + u = l + later /\ l = key + w /\ w >= 0
      BY <2>7, <2>8, <3>1, <3>2, <3>3
    <3> QED BY <3>4
  <2>10. <<y, l>> \in A /\ <<y, l>>[1] = y /\ <<y, l>>[2] = l
    BY <2>6, <2>7
  <2>11. <<y + moved, l + later>> \in A
    BY <2>9, <2>10 DEF A
  <2> QED BY <2>2, <2>8, <2>11
<1>2. m \in Nat /\ m <= m
  OBVIOUS
<1>3. m \notin Bad
  BY <1>1
<1> QED BY <1>2, <1>3 DEF A

LEMMA QuotientIs ==
  ASSUME NEW n \in Nat, NEW d \in Nat \ {0}, NEW q \in Nat, NEW r \in Nat,
         n = d * q + r, r < d
  PROVE  n \div d = q
<1>1. n % d \in Nat /\ n % d < d /\ n \div d \in Nat /\ (n % d) + d * (n \div d) = n
  BY DivisionIs
<1>2. PICK u \in Nat, v \in Nat : u = n \div d /\ v = n % d
  BY <1>1
<1>3. d * q + r = d * u + v /\ v < d
  BY <1>1, <1>2
<1>4. PICK l \in Int : l = q - u
  OBVIOUS
<1>5. d * l = v - r
  <2>1. d * (q - u) = d * q - d * u
    OBVIOUS
  <2>2. PICK x \in Int, y \in Int : x = d * q /\ y = d * u
    OBVIOUS
  <2> QED BY <1>3, <1>4, <2>1, <2>2
<1>6. (l >= 1 => d * l >= d) /\ (l <= -1 => d * l <= -d)
  OBVIOUS
<1>7. l = 0
  BY <1>3, <1>5, <1>6
<1> QED BY <1>2, <1>4, <1>7

(* Every element is written once: the language has no assignment.          *)
WrittenOnce(p, array) ==
  \A v, w \in Written(p, array) : v[1] = w[1] => v[2] = w[2]

LEMMA FlowOfAccesses ==
  ASSUME NEW p, RespectsDataFlow(p), NEW array, NEW r \in ReadOut(p, array)
  PROVE  \E w \in Written(p, array) : w[1] = r[1] /\ w[2] < r[2]
<1>1. PICK e \in Instances(p) :
        \E a \in {b \in Reads(p.stmts[e[1]]) : b.array = array} :
          r = <<Index(a, e[2]), Key(p, e)>>
  BY DEF ReadOut
<1>2. PICK a \in Reads(p.stmts[e[1]]) : a.array = array /\ r = <<Index(a, e[2]), Key(p, e)>>
  BY <1>1
<1>3. PICK d \in Instances(p) : \E b \in Writes(p.stmts[d[1]]) :
        b.array = a.array /\ Index(b, d[2]) = Index(a, e[2]) /\ Key(p, d) < Key(p, e)
  BY DEF RespectsDataFlow
<1>4. PICK b \in Writes(p.stmts[d[1]]) :
        b.array = a.array /\ Index(b, d[2]) = Index(a, e[2]) /\ Key(p, d) < Key(p, e)
  BY <1>3
<1> DEFINE w == <<Index(b, d[2]), Key(p, d)>>
<1>5. w \in Written(p, array)
  BY <1>2, <1>4 DEF Written
<1>6. w[1] = Index(b, d[2]) /\ w[2] = Key(p, d) /\ r[1] = Index(a, e[2]) /\ r[2] = Key(p, e)
  BY <1>2
<1> HIDE DEF w
<1> QED BY <1>4, <1>5, <1>6

(* Keys of the first period                                                *)
KeysOfFirst(p, found) ==
  {Key(p, e) : e \in {d \in Instances(p) : InFirstPeriod(p, found, d)}}

LEMMA FirstPeriodKeys ==
  ASSUME NEW p, IsProgram(p), IsScheduled(p), Periodic(p),
         NEW found, found.offset \in Nat, found.size \in Nat \ {0}
  PROVE  LET from  == KeyOfTime(p, found.offset)
             until == from + found.size * Len(p.stmts)
         IN  /\ \A k \in KeysOfFirst(p, found) : k \in Int /\ k >= from /\ k < until
             /\ \A e \in Instances(p) :
                  Key(p, e) >= from /\ Key(p, e) < until => Key(p, e) \in KeysOfFirst(p, found)
<1> DEFINE from == KeyOfTime(p, found.offset)
           until == from + found.size * Len(p.stmts)
<1>1. PICK t \in Nat, z \in Nat \ {0}, len \in Nat :
        t = found.offset /\ z = found.size /\ len = Len(p.stmts)
  BY DEF IsProgram
<1>2. ASSUME NEW e \in Instances(p)
      PROVE  /\ Key(p, e) \in Int /\ from \in Int /\ until \in Int
             /\ InFirstPeriod(p, found, e) <=> Key(p, e) >= from /\ Key(p, e) < until
  <2>1. /\ e[1] \in DOMAIN p.stmts /\ e[2] \in 0..(2 * Horizon) /\ e = <<e[1], e[2]>>
        /\ Time(p.stmts[e[1]], e[2]) < Horizon
    BY InstanceParts
  <2>2. PICK n \in DOMAIN p.stmts, i \in Nat : e = <<n, i>> /\ n = e[1] /\ i = e[2]
    BY <2>1, HorizonAssumption
  <2> DEFINE s == p.stmts[n]
  <2>3. /\ Time(s, i) \in Int /\ Key(p, <<n, i>>) \in Int /\ KeyOfTime(p, t) \in Int
        /\ s.band = LastBand(p) =>
             (Key(p, <<n, i>>) >= KeyOfTime(p, t) <=> Time(s, i) >= t)
        /\ s.band # LastBand(p) /\ Time(s, i) < Horizon /\ t >= 0 =>
             Key(p, <<n, i>>) < KeyOfTime(p, t)
    BY KeyIs
  <2>4. PICK u \in Nat : u = t + z
    OBVIOUS
  <2>5. /\ KeyOfTime(p, u) \in Int
        /\ s.band = LastBand(p) =>
             (Key(p, <<n, i>>) >= KeyOfTime(p, u) <=> Time(s, i) >= u)
    BY KeyIs
  <2>6. KeyOfTime(p, u) = until
    <3>1. n \in 1..Len(p.stmts)
      BY DEF IsProgram
    <3>2. LastBand(p) \in Nat
      BY <3>1, BandsBounded
    <3>3. PICK h \in Int : h = 2 * Horizon * LastBand(p)
      BY <3>2, HorizonAssumption
    <3>4. (h + u) * len = (h + t) * len + z * len
      BY <2>4
    <3> QED BY <1>1, <3>3, <3>4 DEF KeyOfTime
  <2>7. from \in Int /\ until \in Int
    BY <1>1, <2>3, <2>5, <2>6
  <2>8. InFirstPeriod(p, found, e)
          <=> s.band = LastBand(p) /\ Time(s, i) >= t /\ Time(s, i) < u
    BY <1>1, <2>2, <2>4 DEF InFirstPeriod, InPeriods
  <2>9. Time(s, i) < Horizon /\ t >= 0
    BY <2>1, <2>2
  <2> DEFINE key == Key(p, <<n, i>>)
  <2>10. key = Key(p, e) /\ key \in Int
    BY <2>2, <2>3
  <2>11. from = KeyOfTime(p, t)
    BY <1>1
  <2> HIDE DEF from, until, s, key
  <2>12. InFirstPeriod(p, found, e) <=> key >= from /\ key < until
    <3>1. CASE s.band = LastBand(p)
      <4>1. key >= from <=> Time(s, i) >= t
        BY <2>3, <2>11, <3>1 DEF key
      <4>2. key < until <=> Time(s, i) < u
        <5>1. key >= until <=> Time(s, i) >= u
          BY <2>5, <2>6, <3>1 DEF key
        <5> QED BY <2>3, <2>7, <2>10, <5>1
      <4> QED BY <2>8, <3>1, <4>1, <4>2
    <3>2. CASE s.band # LastBand(p)
      <4>1. key < from
        BY <2>3, <2>9, <2>11, <3>2 DEF key
      <4>2. ~(key >= from)
        BY <2>7, <2>10, <4>1
      <4> QED BY <2>8, <3>2, <4>2
    <3> QED BY <3>1, <3>2
  <2> QED BY <2>7, <2>10, <2>12
<1> HIDE DEF from, until
<1>3. \A k \in KeysOfFirst(p, found) : k \in Int /\ k >= from /\ k < until
  BY <1>2 DEF KeysOfFirst
<1>4. \A e \in Instances(p) :
        Key(p, e) >= from /\ Key(p, e) < until => Key(p, e) \in KeysOfFirst(p, found)
  BY <1>2 DEF KeysOfFirst
<1> QED BY <1>3, <1>4 DEF from, until

(* If the first period writes what it reads, so does every other.          *)
LEMMA SameCall ==
  ASSUME NEW p, IsProgram(p), IsScheduled(p), MoveAlike(p), Periodic(p), RespectsDataFlow(p),
         NEW o, o.period_offset \in Nat, o.period_scale \in Nat \ {0},
         NEW infos, infos = AccessInfos(p),
         NEW found, found = find_periodic_tiling(infos, o),
         found.offset \in Nat, found.size \in Nat \ {0},
         NEW array, NEW moved, moved = InterTileOffset(found, infos, array),
         moved # Inconsistent, WrittenOnce(p, array),
         ~AccessInPeriod(p, found, array).inter_period_dependency,
         NEW r \in ReadOut(p, array), r[2] >= KeyOfTime(p, found.offset)
  PROVE  LET from  == KeyOfTime(p, found.offset)
             later == found.size * Len(p.stmts)
         IN  \E w \in Written(p, array) :
               /\ w[1] = r[1] /\ w[2] >= from
               /\ (w[2] - from) \div later = (r[2] - from) \div later
<1> DEFINE from  == KeyOfTime(p, found.offset)
           later == found.size * Len(p.stmts)
           to == KeyOfTime(p, Horizon)
           W == WritersOf(p, array)
           R == ReadersOf(p, array)
           keys == KeysOfFirst(p, found)
<1>1. /\ Written(p, array) = Accessed(p, W) /\ ReadOut(p, array) = Accessed(p, R)
      /\ \A n \in DOMAIN p.stmts : \A a \in W[n] :
           a \in Reads(p.stmts[n]) \cup Writes(p.stmts[n]) /\ a.array = array
      /\ \A n \in DOMAIN p.stmts : \A a \in R[n] :
           a \in Reads(p.stmts[n]) \cup Writes(p.stmts[n]) /\ a.array = array
  BY AccessesOf
<1>2. \A c \in Written(p, array) \cup ReadOut(p, array) :
        c[1] \in Int /\ c[2] \in Int /\ c[2] < to
  BY WrittenFinite
<1>3. PICK e \in Instances(p) : \E a \in R[e[1]] : r = <<Index(a, e[2]), Key(p, e)>>
  BY <1>1 DEF Accessed
<1>4. Len(p.stmts) \in Nat \ {0} /\ from \in Int /\ to \in Int
  <2>1. e[1] \in 1..Len(p.stmts) /\ Len(p.stmts) \in Nat
    BY InstancesFinite DEF IsProgram
  <2>2. LastBand(p) \in Nat
    BY <2>1, BandsBounded
  <2>3. from \in Int
    BY <2>1, <2>2, HorizonAssumption DEF KeyOfTime
  <2>4. to \in Int
    BY <2>1, <2>2, HorizonAssumption DEF KeyOfTime
  <2> QED BY <2>1, <2>3, <2>4
<1>5. later \in Nat \ {0}
  <2>1. PICK z \in Nat \ {0}, len \in Nat \ {0} : z = found.size /\ len = Len(p.stmts)
    BY <1>4
  <2>2. z * len \in Nat \ {0}
    OBVIOUS
  <2> QED BY <2>1, <2>2
<1>6. ASSUME NEW acc,
             \A n \in DOMAIN p.stmts : \A a \in acc[n] :
               a \in Reads(p.stmts[n]) \cup Writes(p.stmts[n]) /\ a.array = array,
             NEW c \in Accessed(p, acc), c[2] >= from
      PROVE  /\ c[2] + later < to => <<c[1] + moved, c[2] + later>> \in Accessed(p, acc)
             /\ c[2] - later >= from => <<c[1] - moved, c[2] - later>> \in Accessed(p, acc)
             /\ moved \in Int
  BY <1>6, AccessesGoOn
<1>7. /\ \A k \in keys : k \in Int /\ k >= from /\ k < from + later
      /\ \A d \in Instances(p) :
           Key(p, d) >= from /\ Key(p, d) < from + later => Key(p, d) \in keys
  BY FirstPeriodKeys
<1>8. \A x : x \in ElementsAccessed(ReadOut(p, array), keys) =>
               x \in ElementsAccessed(Written(p, array), keys)
  BY DEF AccessInPeriod, KeysOfFirst
<1> HIDE DEF from, later, to, W, R, keys
<1>9. PICK x \in Int, k \in Int : r = <<x, k>> /\ x = r[1] /\ k = r[2]
  <2>1. r = <<r[1], r[2]>>
    BY <1>3
  <2> QED BY <1>2, <2>1
<1>10. k - from \in Nat
  BY <1>4, <1>9 DEF from
<1>11. PICK m \in Nat, q \in Nat : k - from = later * m + q /\ q < later
  <2>1. /\ (k - from) % later \in Nat /\ (k - from) % later < later
        /\ (k - from) \div later \in Nat
        /\ ((k - from) % later) + later * ((k - from) \div later) = k - from
    BY <1>5, <1>10, DivisionIs
  <2>2. PICK m \in Nat, q \in Nat : m = (k - from) \div later /\ q = (k - from) % later
    BY <2>1
  <2>3. q + later * m = k - from /\ q < later
    BY <2>1, <2>2
  <2>4. q + later * m = later * m + q
    BY <1>5
  <2>5. k - from = later * m + q
    BY <2>3, <2>4
  <2> QED BY <2>3, <2>5
<1>11a. moved \in Int
  <2>1. r \in Accessed(p, R)
    BY <1>1
  <2>2. r[2] >= from
    BY DEF from
  <2> QED BY <1>1, <1>6, <2>1, <2>2
<1>12. PICK lm \in Int, mm \in Int : lm = later * m /\ mm = moved * m
  BY <1>5, <1>11a
<1> DEFINE first == <<x - mm, k - lm>>
<1>13. first \in ReadOut(p, array)
  <2>1. \A c \in Accessed(p, R) : c[1] \in Int /\ c[2] \in Int
    BY <1>1, <1>2
  <2>2. \A c \in Accessed(p, R) : c[2] - later >= from =>
          <<c[1] - moved, c[2] - later>> \in Accessed(p, R)
    <3> SUFFICES ASSUME NEW c \in Accessed(p, R), c[2] - later >= from
                 PROVE  <<c[1] - moved, c[2] - later>> \in Accessed(p, R)
      OBVIOUS
    <3>1. c[2] >= from
      BY <1>4, <1>5, <2>1
    <3> QED BY <1>1, <1>6, <3>1
  <2>3. k - later * m >= from
    BY <1>4, <1>11, <1>12
  <2>4. <<x - moved * m, k - later * m>> \in Accessed(p, R)
    <3>1. later \in Nat /\ <<x, k>> \in Accessed(p, R)
      BY <1>1, <1>5, <1>9
    <3> QED BY <1>4, <1>11a, <2>1, <2>2, <2>3, <3>1, AccessesBefore
  <2> QED BY <1>1, <1>12, <2>4
<1>14. first[1] = x - mm /\ first[2] = k - lm
  OBVIOUS
<1>15. k - lm \in Int /\ k - lm >= from /\ k - lm < from + later
  BY <1>4, <1>5, <1>11, <1>12
<1> HIDE DEF first
<1>16. first[1] \in ElementsAccessed(ReadOut(p, array), keys)
  <2>1. PICK d \in Instances(p) : \E a \in R[d[1]] : first = <<Index(a, d[2]), Key(p, d)>>
    BY <1>1, <1>13 DEF Accessed
  <2>2. first[2] = Key(p, d)
    BY <2>1
  <2>3. Key(p, d) \in keys
    BY <1>7, <1>14, <1>15, <2>2
  <2> QED BY <1>13, <2>2, <2>3 DEF ElementsAccessed
<1>17. PICK v \in Written(p, array) : v[1] = x - mm /\ v[2] \in keys
  BY <1>8, <1>14, <1>16 DEF ElementsAccessed
<1>18. v[2] < k - lm
  <2>1. PICK u \in Written(p, array) : u[1] = first[1] /\ u[2] < first[2]
    BY <1>13, FlowOfAccesses
  <2>2. u[2] = v[2]
    BY <1>14, <1>17, <2>1 DEF WrittenOnce
  <2> QED BY <1>14, <2>1, <2>2
<1>19. PICK l \in Int : l = v[2] /\ l >= from /\ l < from + later /\ v = <<x - mm, l>>
  <2>1. PICK d \in Instances(p) : \E a \in W[d[1]] : v = <<Index(a, d[2]), Key(p, d)>>
    BY <1>1, <1>17 DEF Accessed
  <2>2. v = <<v[1], v[2]>>
    BY <2>1
  <2> QED BY <1>7, <1>17, <2>2
<1> DEFINE w == <<x, l + lm>>
<1>20. w \in Written(p, array)
  <2>1. \A c \in Accessed(p, W) : c[2] >= from /\ c[2] + later < to =>
          <<c[1] + moved, c[2] + later>> \in Accessed(p, W)
    BY <1>1, <1>6
  <2>2. x - mm \in Int /\ later \in Nat /\ <<x - mm, l>> \in Accessed(p, W)
    BY <1>1, <1>5, <1>12, <1>17, <1>19
  <2>3. l + later * m < to
    <3>1. k < to
      BY <1>2, <1>9
    <3>2. l < k - lm
      BY <1>18, <1>19
    <3>3. l + lm < to
      BY <1>4, <3>1, <3>2
    <3> QED BY <1>12, <3>3
  <2>4. <<(x - mm) + moved * m, l + later * m>> \in Accessed(p, W)
    BY <1>4, <1>11a, <1>19, <2>1, <2>2, <2>3, AccessesAfter
  <2>5. (x - mm) + moved * m = x
    BY <1>12
  <2> QED BY <1>1, <1>12, <2>4, <2>5
<1>21. w[1] = x /\ w[2] = l + lm
  OBVIOUS
<1>22. l + lm >= from
  <2>1. lm >= 0
    BY <1>5, <1>12
  <2> QED BY <1>4, <1>19, <2>1
<1>23. PICK y \in Nat : y = l + lm - from /\ y \div later = m
  <2>1. PICK s \in Nat : s = l - from /\ s < later
    BY <1>4, <1>5, <1>19
  <2>2. PICK y \in Nat : y = l + lm - from
    BY <1>4, <1>22
  <2>3. y = later * m + s
    <3>1. y = lm + s
      BY <1>4, <2>1, <2>2
    <3> QED BY <1>12, <3>1
  <2>4. y \div later = m
    BY <1>5, <2>1, <2>3, QuotientIs
  <2> QED BY <2>2, <2>4
<1>23a. PICK z \in Nat : z = k - from /\ z \div later = m
  <2>1. PICK z \in Nat : z = k - from
    BY <1>10
  <2>2. z \div later = m
    BY <1>5, <1>11, <2>1, QuotientIs
  <2> QED BY <2>1, <2>2
<1> HIDE DEF w
<1>24. w[1] = r[1] /\ w[2] >= from /\ (w[2] - from) \div later = (r[2] - from) \div later
  <2>1. w[1] = r[1]
    BY <1>9, <1>21
  <2>2. w[2] = l + lm /\ r[2] = k
    BY <1>9, <1>21
  <2>3. w[2] >= from
    BY <1>22, <2>2, Zenon
  <2>4. (w[2] - from) \div later = (r[2] - from) \div later
    <3>1. w[2] - from = y /\ r[2] - from = z
      BY <1>4, <1>23, <1>23a, <2>2
    <3> QED BY <1>23, <1>23a, <3>1
  <2> QED BY <2>1, <2>3, <2>4
<1>25. \E u \in Written(p, array) :
         u[1] = r[1] /\ u[2] >= from /\ (u[2] - from) \div later = (r[2] - from) \div later
  BY <1>20, <1>24
<1> QED BY <1>25, Zenon DEF from, later

LEMMA BufferFields ==
  ASSUME NEW array, NEW size, NEW advance, NEW elements, NEW options
  PROVE  \E cells, shift :
           BufferFor(array, size, advance, elements, options) \in
             [cells : {cells}, wraps : BOOLEAN, has_phase : BOOLEAN, shift : {shift},
              on_stack : {FALSE}]
<1> DEFINE Shape(cells, shift) ==
             [cells : {cells}, wraps : BOOLEAN, has_phase : BOOLEAN, shift : {shift},
              on_stack : {FALSE}]
           Made(c) == \E cells, shift : c \in Shape(cells, shift)
           still == [period_count |-> 1, size |-> 0, source |-> 0]
<1>1. \A n : Plain(n) \in Shape(n, still) /\ [Plain(n) EXCEPT !.wraps = TRUE] \in Shape(n, still)
  BY DEF Plain
<1>2. \A n, s : [Plain(n) EXCEPT !.has_phase = TRUE, !.shift = s] \in Shape(n, s)
  BY DEF Plain
<1>3. \A t, n : WrappingBuffer(t, n) \in Shape(n, still)
  <2> TAKE t, n
  <2>1. (t % n # 0) \in BOOLEAN
    OBVIOUS
  <2>2. \A phase \in BOOLEAN :
          [Plain(n) EXCEPT !.wraps = TRUE, !.has_phase = phase] \in Shape(n, still)
    BY DEF Plain
  <2> HIDE DEF Shape
  <2> QED BY <2>1, <2>2 DEF WrappingBuffer
<1> HIDE DEF Shape, still
<1>4. \A n : Made(Plain(n)) /\ Made([Plain(n) EXCEPT !.wraps = TRUE])
  BY <1>1, Zenon
<1>5. \A n, s : Made([Plain(n) EXCEPT !.has_phase = TRUE, !.shift = s])
  BY <1>2, Zenon
<1>6. \A t, n : Made(WrappingBuffer(t, n))
  BY <1>3, Zenon
<1> HIDE DEF Made
<1>7. \A t, first, last : Made(ShiftingBuffer(t, first, last))
  BY <1>4, <1>5 DEF ShiftingBuffer
<1>8. Made(BufferFor(array, size, advance, elements, options))
  BY <1>4, <1>6, <1>7 DEF BufferFor
<1> QED BY <1>8 DEF Made, Shape

(* Only buffers that the first period fills itself are put on the stack.   *)
LEMMA OnStackAreTransient ==
  ASSUME NEW p, NEW tiled, NEW periods, NEW size, NEW options,
         NEW a \in Arrays(p),
         Generated(p, tiled, periods, size, options).buffers[a].on_stack
  PROVE  ~AccessInPeriod(p, tiled, a).inter_period_dependency
<1> DEFINE access == [c \in Arrays(p) |-> AccessInPeriod(p, tiled, c)]
           laidOut == [c \in Arrays(p) |->
                         BufferFor(p.arrays[c], size[c], periods[c], access[c].elements, options)]
           transient == {c \in Arrays(p) : ~access[c].inter_period_dependency}
           onStack == StackBuffers(p, laidOut, transient)
           b == BufferFor(p.arrays[a], size[a], periods[a], access[a].elements, options)
           l == Layout(p, tiled, periods, size, options)[a]
<1>1. l.on_stack
  BY DEF Generated
<1>2. l = [b EXCEPT !.on_stack = a \in onStack]
  BY DEF Layout
<1>3. PICK cells, shift :
        b \in [cells : {cells}, wraps : BOOLEAN, has_phase : BOOLEAN, shift : {shift},
               on_stack : {FALSE}]
  BY BufferFields
<1>4. onStack \subseteq transient
  BY DEF StackBuffers
<1>5. transient \subseteq {c \in Arrays(p) : ~AccessInPeriod(p, tiled, c).inter_period_dependency}
  OBVIOUS
<1> HIDE DEF b, l, onStack, transient
<1>6. PICK s \in BOOLEAN : s <=> a \in onStack
  OBVIOUS
<1>7. l = [b EXCEPT !.on_stack = s]
  BY <1>2, <1>6
<1>8. l.on_stack = s
  BY <1>3, <1>7
<1>9. a \in onStack
  BY <1>1, <1>6, <1>8
<1> QED BY <1>4, <1>5, <1>9

(* What is written once is still written once when instances are gone.     *)
LEMMA StillWrittenOnce ==
  ASSUME NEW p, IsProgram(p), IsScheduled(p), NEW array, WrittenOnce(p, array)
  PROVE  WrittenOnce(DropUnread(p), array)
<1> DEFINE q == DropUnread(p)
<1>1. \A e \in Instances(p) :
        Writes(q.stmts[e[1]]) = Writes(p.stmts[e[1]]) /\ Key(q, e) = Key(p, e)
  <2>1. \A e \in Instances(p) : e[1] \in DOMAIN p.stmts
    BY DEF Instances, Statements
  <2> QED BY <2>1, Dropped DEF Writes, Key, Time
<1>2. Instances(q) \subseteq Instances(p)
  BY FewerInstances
<1> HIDE DEF q
<1>3. Written(q, array) \subseteq Written(p, array)
  <2> SUFFICES ASSUME NEW w \in Written(q, array) PROVE w \in Written(p, array)
    OBVIOUS
  <2>1. PICK e \in Instances(q) : \E a \in Writes(q.stmts[e[1]]) :
          a.array = array /\ w = <<Index(a, e[2]), Key(q, e)>>
    BY DEF Written
  <2>2. e \in Instances(p)
    BY <1>2
  <2>3. PICK a \in Writes(p.stmts[e[1]]) :
          a.array = array /\ w = <<Index(a, e[2]), Key(p, e)>>
    BY <1>1, <2>1, <2>2
  <2> QED BY <2>2, <2>3 DEF Written
<1>4. WrittenOnce(q, array)
  BY <1>3 DEF WrittenOnce
<1> QED BY <1>4 DEF q

(* Where the generated code comes from                                     *)
Coded == stage = "done" => code = Generated(prog, tiling, period, buffer_size, opt)

LEMMA CodedStep == (Init => Coded) /\ (Coded /\ [Next]_vars => Coded')
<1>1. Init => Coded
  BY DEF Init, Coded
<1>2. ASSUME Coded, [Next]_vars PROVE Coded'
  <2>1. CASE GenerateCode
    <3>1. /\ UNCHANGED <<prog, tiling, period, buffer_size, opt>>
          /\ code' = Generated(prog, tiling, period, buffer_size, opt)
      BY <2>1 DEF GenerateCode
    <3>2. Generated(prog, tiling, period, buffer_size, opt)'
            = Generated(prog, tiling, period, buffer_size, opt)
      BY <3>1
    <3> QED BY <3>1, <3>2 DEF Coded
  <2>2. CASE \/ DropUnreadInstances \/ MakePeriodicSchedule
             \/ AllocateStorage \/ ComputeIoLatencies
    <3>1. stage' # "done"
      BY <2>2 DEF DropUnreadInstances, MakePeriodicSchedule, AllocateStorage, ComputeIoLatencies
    <3> QED BY <3>1 DEF Coded
  <2>3. CASE ScheduleOutOfOrder \/ ScheduleNotSteady \/ AllocationFails
    <3>1. stage' \in Errors
      <4>1. \A a \in Arrays(prog) : ArrayError(a) # "none" => ArrayError(a) \in Errors
        BY DEF ArrayError, Errors
      <4> QED BY <2>3, <4>1
        DEF ScheduleOutOfOrder, ScheduleNotSteady, AllocationFails, Fail, Errors
    <3>2. stage' # "done"
      BY <3>1 DEF Errors, NotLast, NotSteady, TooLong, NeverWritten, NotAccessed
    <3> QED BY <3>2 DEF Coded
  <2>4. CASE UNCHANGED vars
    <3>1. UNCHANGED <<stage, code, prog, tiling, period, buffer_size, opt>>
      BY <2>4 DEF vars
    <3>2. Generated(prog, tiling, period, buffer_size, opt)'
            = Generated(prog, tiling, period, buffer_size, opt)
      BY <3>1
    <3> QED BY <1>2, <3>1, <3>2 DEF Coded
  <2> QED BY <1>2, <2>1, <2>2, <2>3, <2>4 DEF Next
<1> QED BY <1>1, <1>2

(* A program whose elements are each written once, before they are read    *)
Sound(p) == RespectsDataFlow(p) /\ \A a \in Arrays(p) : WrittenOnce(p, a)

LEMMA FilledInTheSameCall ==
  ASSUME DInv, Typed, TilingFound, Coded, Sound(source), MoveAlike(prog)
  PROVE  StackIsTransient
<1> SUFFICES ASSUME stage = "done", NEW a \in Arrays(prog), code.buffers[a].on_stack,
                    NEW r \in ReadOut(prog, a)
             PROVE  \E w \in Written(prog, a) : w[1] = r[1] /\ CallOf(w[2]) = CallOf(r[2])
  BY DEF StackIsTransient
<1> DEFINE infos == AccessInfos(prog)
           from  == KeyOfTime(prog, tiling.offset)
           later == tiling.size * Len(prog.stmts)
<1>1. prog = DropUnread(source) /\ IsProgram(source) /\ IsScheduled(source)
  BY DEF DInv
<1>2. IsProgram(prog) /\ IsScheduled(prog) /\ RespectsDataFlow(prog)
  BY <1>1, DroppingKeepsProgram, DroppingKeepsSchedule, FlowKept DEF Sound
<1>3. WrittenOnce(prog, a)
  <2>1. Arrays(prog) = Arrays(source)
    BY <1>1 DEF IsProgram, DropUnread, Arrays
  <2> QED BY <1>1, <2>1, StillWrittenOnce DEF Sound
<1>4. /\ opt.period_offset \in Nat /\ opt.period_scale \in Nat \ {0}
      /\ tiling.offset \in Nat /\ tiling.size \in Nat \ {0}
  BY OptionsAssumption DEF Typed
<1>5. ~AccessInPeriod(prog, tiling, a).inter_period_dependency
  BY OnStackAreTransient DEF Coded
<1>6. PICK u \in Written(prog, a) : u[1] = r[1] /\ u[2] < r[2]
  BY <1>2, FlowOfAccesses
<1>7. r[2] \in Int /\ u[2] \in Int /\ from \in Int
  <2>1. r[2] \in Int /\ u[2] \in Int
    BY <1>2, WrittenFinite
  <2>2. LastBand(prog) \in Int
    <3>1. r \in Accessed(prog, ReadersOf(prog, a))
      BY <1>2, AccessesOf
    <3>2. PICK e \in Instances(prog) : TRUE
      BY <3>1 DEF Accessed
    <3>3. e[1] \in 1..Len(prog.stmts)
      BY <1>2, InstancesFinite
    <3> QED BY <1>2, <3>3, BandsBounded
  <2>3. Len(prog.stmts) \in Int
    BY <1>2 DEF IsProgram
  <2>4. from \in Int
    BY <1>4, <2>2, <2>3, HorizonAssumption DEF KeyOfTime
  <2> QED BY <2>1, <2>4
<1>8. CASE ~Periodic(prog)
  BY <1>6, <1>8 DEF CallOf
<1>9. CASE Periodic(prog) /\ r[2] < from
  <2> HIDE DEF from
  <2>1. u[2] < from
    BY <1>6, <1>9, <1>7
  <2>2. CallOf(u[2]) = 0 /\ CallOf(r[2]) = 0
    BY <1>9, <2>1 DEF CallOf, from
  <2> QED BY <1>6, <2>2
<1>10. CASE Periodic(prog) /\ r[2] >= from
  <2>1. /\ tiling = find_periodic_tiling(infos, opt)
        /\ period[a] = InterTileOffset(tiling, infos, a)
        /\ period[a] # Inconsistent
    BY <1>10 DEF TilingFound, Analysed
  <2>2. PICK w \in Written(prog, a) :
          /\ w[1] = r[1] /\ w[2] >= from
          /\ (w[2] - from) \div later = (r[2] - from) \div later
    <3>1. infos = AccessInfos(prog)
      OBVIOUS
    <3> HIDE DEF infos
    <3> QED BY <1>2, <1>3, <1>4, <1>5, <1>10, <2>1, <3>1, SameCall
  <2> HIDE DEF from, later
  <2>3. w[2] \in Int
    BY <1>2, WrittenFinite
  <2>4. ~(w[2] < from) /\ ~(r[2] < from)
    BY <1>7, <1>10, <2>2, <2>3
  <2>5. \A k : ~(k < from) => CallOf(k) = 1 + (k - from) \div later
    BY <1>10 DEF CallOf, from, later
  <2>6. /\ CallOf(w[2]) = 1 + (w[2] - from) \div later
        /\ CallOf(r[2]) = 1 + (r[2] - from) \div later
    BY <2>4, <2>5
  <2> QED BY <2>2, <2>6
<1>11. r[2] < from \/ r[2] >= from
  BY <1>7
<1> QED BY <1>8, <1>9, <1>10, <1>11

(* As long as the elements of the source program are written once and      *)
(* before they are read, and endless accesses to an array all move or all  *)
(* stay: what is read out of a buffer on the stack was put there by the    *)
(* same call, in the prelude and in every period, although the compiler    *)
(* has only looked at the first, and whatever else the stack has room for. *)
THEOREM StackHoldsNothingOver ==
  Spec => [](Sound(source) /\ MoveAlike(prog) => StackIsTransient)
<1>1. DInv /\ Typed /\ TilingFound /\ Coded
        => (Sound(source) /\ MoveAlike(prog) => StackIsTransient)
  BY FilledInTheSameCall
<1> QED BY <1>1, CodedStep, TilingStays, TypedFromTheStart, TypedStep, DroppedOnce, PTL DEF Spec

-----------------------------------------------------------------------------
(* Prelude and period list their instances by increasing key: of as many   *)
(* as there are, each has another number of others before it.              *)
LEMMA InOrderIs ==
  ASSUME NEW p, NEW S, IsFiniteSet(S), \A e \in S : Key(p, e) \in Int,
         \A d, e \in S : Key(p, d) = Key(p, e) => d = e
  PROVE  LET f == InOrder(p, S) IN
         /\ f \in Seq(S)
         /\ \A n, m \in DOMAIN f : n < m => Key(p, f[n]) < Key(p, f[m])
         /\ \A e \in S : \E n \in DOMAIN f : f[n] = e
<1> DEFINE Below(e) == {d \in S : Key(p, d) < Key(p, e)}
           N == Cardinality(S)
           f == InOrder(p, S)
           rank == [e \in S |-> Cardinality(Below(e)) + 1]
<1>1. N \in Nat
  BY FS_CardinalityType
<1>2. \A e \in S : /\ IsFiniteSet(Below(e)) /\ Cardinality(Below(e)) \in Nat
                   /\ Cardinality(Below(e)) < N
  <2> TAKE e \in S
  <2>1. Below(e) \in SUBSET S
    OBVIOUS
  <2>2. e \notin Below(e)
    OBVIOUS
  <2> HIDE DEF Below
  <2>3. /\ IsFiniteSet(Below(e)) /\ Cardinality(Below(e)) <= N
        /\ N = Cardinality(Below(e)) => S = Below(e)
    BY <2>1, FS_Subset
  <2>4. Cardinality(Below(e)) \in Nat
    BY <2>3, FS_CardinalityType
  <2> QED BY <1>1, <2>2, <2>3, <2>4
<1>3. \A d, e \in S : Key(p, d) < Key(p, e) => Cardinality(Below(d)) < Cardinality(Below(e))
  <2> SUFFICES ASSUME NEW d \in S, NEW e \in S, Key(p, d) < Key(p, e)
               PROVE  Cardinality(Below(d)) < Cardinality(Below(e))
    OBVIOUS
  <2>1. Below(d) \in SUBSET Below(e)
    <3> SUFFICES ASSUME NEW x \in Below(d) PROVE x \in Below(e)
      OBVIOUS
    <3>1. x \in S /\ Key(p, x) < Key(p, d)
      OBVIOUS
    <3>2. Key(p, x) < Key(p, e)
      BY <3>1
    <3> QED BY <3>1, <3>2
  <2>2. d \in Below(e) /\ d \notin Below(d)
    OBVIOUS
  <2> HIDE DEF Below
  <2>3. /\ Cardinality(Below(d)) <= Cardinality(Below(e))
        /\ Cardinality(Below(e)) = Cardinality(Below(d)) => Below(e) = Below(d)
    BY <1>2, <2>1, FS_Subset
  <2> QED BY <1>2, <2>2, <2>3
<1> HIDE DEF Below
<1>4. rank \in [S -> 1..N]
  BY <1>1, <1>2
<1>5. \A d, e \in S : rank[d] = rank[e] => d = e
  <2> SUFFICES ASSUME NEW d \in S, NEW e \in S, rank[d] = rank[e] PROVE d = e
    OBVIOUS
  <2>1. Cardinality(Below(d)) = Cardinality(Below(e))
    BY <1>2
  <2>2. ~(Key(p, d) < Key(p, e)) /\ ~(Key(p, e) < Key(p, d))
    BY <1>2, <1>3, <2>1
  <2>3. Key(p, d) = Key(p, e)
    BY <2>2
  <2> QED BY <2>3
<1> HIDE DEF N
<1>6. rank \in Injection(S, 1..N)
  <2> HIDE DEF rank
  <2> QED BY <1>4, <1>5 DEF Injection, IsInjective
<1>7. rank \in Surjection(S, 1..N)
  <2>1. IsFiniteSet(1..N) /\ Cardinality(1..N) = N
    <3>1. 1 \in Int /\ N \in Int
      BY <1>1
    <3>2. /\ IsFiniteSet(1..N)
          /\ Cardinality(1..N) = IF 1 > N THEN 0 ELSE N - 1 + 1
      BY <3>1, FS_Interval
    <3> QED BY <1>1, <3>2
  <2>2. N = Cardinality(S)
    BY DEF N
  <2> DEFINE T == 1..N
  <2>3. rank \in Injection(S, T) /\ IsFiniteSet(T) /\ Cardinality(S) = Cardinality(T)
    BY <1>6, <2>1, <2>2
  <2> HIDE DEF rank, T
  <2>4. rank \in Surjection(S, T)
    BY <2>3, FS_Injection
  <2> QED BY <2>4 DEF T
<1>8. \A n \in 1..N : \E e \in S : Cardinality(Below(e)) = n - 1
  <2> TAKE n \in 1..N
  <2>1. PICK e \in S : rank[e] = n
    <3> HIDE DEF rank
    <3> QED BY <1>7 DEF Surjection
  <2> QED BY <1>1, <1>2, <2>1
<1>9. f = [n \in 1..N |-> CHOOSE e \in S : Cardinality(Below(e)) = n - 1]
  BY DEF InOrder, N, Below
<1>10. DOMAIN f = 1..N /\ \A n \in 1..N : f[n] \in S /\ Cardinality(Below(f[n])) = n - 1
  <2> HIDE DEF f
  <2>1. \A n \in 1..N : f[n] = CHOOSE e \in S : Cardinality(Below(e)) = n - 1
    BY <1>9
  <2> QED BY <1>8, <1>9, <2>1
<1> HIDE DEF f, rank
<1>11. f \in Seq(S)
  <2>1. f = [n \in 1..N |-> f[n]]
    BY <1>9, <1>10
  <2>2. f \in [1..N -> S]
    BY <1>10, <2>1
  <2> QED BY <1>1, <2>2
<1>12. \A n, m \in DOMAIN f : n < m => Key(p, f[n]) < Key(p, f[m])
  <2> SUFFICES ASSUME NEW n \in 1..N, NEW m \in 1..N, n < m
               PROVE  Key(p, f[n]) < Key(p, f[m])
    BY <1>10
  <2>1. f[n] \in S /\ f[m] \in S /\ f[n] # f[m]
    BY <1>1, <1>10
  <2>2. ~(Cardinality(Below(f[m])) < Cardinality(Below(f[n])))
    BY <1>1, <1>10
  <2>3. ~(Key(p, f[m]) < Key(p, f[n]))
    BY <1>3, <2>1, <2>2
  <2>4. Key(p, f[n]) # Key(p, f[m])
    BY <2>1
  <2> QED BY <2>1, <2>3, <2>4
<1>13. \A e \in S : \E n \in DOMAIN f : f[n] = e
  <2> TAKE e \in S
  <2>1. PICK n \in 1..N : n = Cardinality(Below(e)) + 1
    BY <1>1, <1>2
  <2>2. f[n] \in S /\ Cardinality(Below(f[n])) = Cardinality(Below(e))
    BY <1>1, <1>2, <1>10, <2>1
  <2>3. ~(Key(p, f[n]) < Key(p, e)) /\ ~(Key(p, e) < Key(p, f[n]))
    BY <1>2, <1>3, <2>2
  <2>4. Key(p, f[n]) = Key(p, e)
    BY <2>2, <2>3
  <2> QED BY <1>10, <2>2, <2>4
<1> QED BY <1>11, <1>12, <1>13 DEF f

(* Keys tell instances apart.                                              *)
LEMMA KeysDiffer ==
  ASSUME NEW p, IsProgram(p), IsScheduled(p),
         NEW n \in DOMAIN p.stmts, NEW m \in DOMAIN p.stmts, NEW i \in Int, NEW j \in Int,
         Key(p, <<n, i>>) = Key(p, <<m, j>>)
  PROVE  n = m /\ i = j
<1>1. /\ Len(p.stmts) \in Nat /\ DOMAIN p.stmts = 1..Len(p.stmts)
      /\ \A l \in DOMAIN p.stmts : p.stmts[l].band \in Nat
      /\ \A l \in DOMAIN p.stmts : p.stmts[l].rate \in Nat \ {0} /\ p.stmts[l].start \in Int
  BY StatementParts DEF IsProgram
<1>2. PICK len \in Nat : len = Len(p.stmts)
  BY <1>1
<1>3. PICK z \in Nat : z = 2 * Horizon
  BY HorizonAssumption
<1>4. PICK b \in Nat, c \in Nat : b = p.stmts[n].band /\ c = p.stmts[m].band
  BY <1>1
<1>5. PICK u \in Int, v \in Int : u = Time(p.stmts[n], i) /\ v = Time(p.stmts[m], j)
  <2>1. 0 \in Int
    OBVIOUS
  <2>2. Time(p.stmts[n], i) \in Int /\ Time(p.stmts[m], j) \in Int
    BY <2>1, KeyIs
  <2> QED BY <2>2
<1>6. PICK g \in Int, h \in Int : g = z * b /\ h = z * c
  OBVIOUS
<1>7. Key(p, <<n, i>>) = (g + u) * len + n - 1 /\ Key(p, <<m, j>>) = (h + v) * len + m - 1
  BY <1>2, <1>3, <1>4, <1>5, <1>6 DEF Key
<1>8. PICK x \in Int, y \in Int : x = g + u /\ y = h + v
  OBVIOUS
<1>9. PICK f \in Int, k \in Int : f = x * len /\ k = y * len
  OBVIOUS
<1>10. n \in 1..len /\ m \in 1..len /\ f + n - 1 = k + m - 1
  BY <1>1, <1>2, <1>7, <1>8, <1>9
<1>11. x >= y
  <2>1. x * len + n - 1 >= y * len <=> x >= y
    BY <1>10, KeysCompare
  <2> QED BY <1>9, <1>10, <2>1
<1>12. y >= x
  <2>1. y * len + m - 1 >= x * len <=> y >= x
    BY <1>10, KeysCompare
  <2> QED BY <1>9, <1>10, <2>1
<1>13. x = y
  BY <1>11, <1>12
<1>14. n = m
  BY <1>9, <1>10, <1>13
<1>15. u = v
  BY <1>4, <1>6, <1>8, <1>13, <1>14
<1>16. PICK r \in Nat \ {0}, s \in Int : r = p.stmts[n].rate /\ s = p.stmts[n].start
  BY <1>1
<1>17. r * i + s = r * j + s
  BY <1>5, <1>14, <1>15, <1>16 DEF Time
<1>18. r * i = r * j
  BY <1>17
<1>19. i = j
  BY <1>18, Cancelled
<1> QED BY <1>14, <1>19

(* Every instance in the periods is one of an endless row with the same    *)
(* step from period to period.                                             *)
StepOf(p, t, n) == t.size \div p.stmts[n].rate
StepsOn(p, t, n, i) ==
  /\ StepOf(p, t, n) \in Nat \ {0} /\ p.stmts[n].rate * StepOf(p, t, n) = t.size
  /\ \A q \in Nat :
       /\ InDomain(i + q * StepOf(p, t, n), p.stmts[n])
       /\ Time(p.stmts[n], i - q * StepOf(p, t, n)) >= t.offset =>
            InDomain(i - q * StepOf(p, t, n), p.stmts[n]) /\ i - q * StepOf(p, t, n) >= 0
AllStepOn(p, t) ==
  \A n \in DOMAIN p.stmts : \A i \in Nat :
    p.stmts[n].band = LastBand(p) /\ InDomain(i, p.stmts[n]) /\ Time(p.stmts[n], i) >= t.offset
      => StepsOn(p, t, n, i)

IsStep(z, v, t, k) ==
  /\ k = z \div (v * t) /\ z \div v = t * k /\ v * (t * k) = z
  /\ t * k \in Nat \ {0}

LEMMA StepIs ==
  ASSUME NEW z \in Nat \ {0}, NEW v \in Nat \ {0}, NEW t \in Nat \ {0}, Divides(v * t, z)
  PROVE  \E k \in Nat \ {0} : IsStep(z, v, t, k)
<1>1. v * t \in Nat \ {0} /\ v * t \in Nat
  OBVIOUS
<1>2. PICK k \in Nat \ {0} : k = z \div (v * t) /\ z = (v * t) * k
  BY <1>1, WholePeriods
<1>3. t * k \in Nat \ {0} /\ t * k \in Nat
  OBVIOUS
<1>4. v * (t * k) = z
  <2>1. (v * t) * k = v * (t * k)
    OBVIOUS
  <2> QED BY <1>2, <2>1
<1>5. PICK w \in Nat : w = t * k
  BY <1>3
<1>6. z = v * w + 0
  BY <1>4, <1>5
<1>7. z \div v = w
  <2>1. 0 \in Nat /\ 0 < v
    OBVIOUS
  <2>2. z \in Nat
    OBVIOUS
  <2> QED BY <1>6, <2>1, <2>2, QuotientIs
<1>8. z \div v = t * k
  BY <1>5, <1>7
<1> QED BY <1>2, <1>3, <1>4, <1>8 DEF IsStep

Accessing(p) ==
  \A n \in DOMAIN p.stmts :
    /\ Reads(p.stmts[n]) \cup Writes(p.stmts[n]) # {}
    /\ \A a \in Reads(p.stmts[n]) \cup Writes(p.stmts[n]) : a.array \in Arrays(p)

LEMMA StepsGoOn ==
  ASSUME NEW p, IsProgram(p), IsScheduled(p), Accessing(p),
         NEW o, o.period_offset \in Nat, o.period_scale \in Nat \ {0},
         NEW found, found = find_periodic_tiling(AccessInfos(p), o)
  PROVE  AllStepOn(p, found)
<1> SUFFICES ASSUME NEW n \in DOMAIN p.stmts, NEW i \in Nat, p.stmts[n].band = LastBand(p),
                    InDomain(i, p.stmts[n]), Time(p.stmts[n], i) >= found.offset
             PROVE  StepsOn(p, found, n, i)
  BY DEF AllStepOn
<1> DEFINE infos == AccessInfos(p)
<1>1. PICK a \in Reads(p.stmts[n]) \cup Writes(p.stmts[n]) : TRUE
  BY DEF Accessing
<1>2. i \in Int /\ infos = AccessInfos(p) /\ found = find_periodic_tiling(infos, o)
  OBVIOUS
<1> HIDE DEF infos
<1>3. found.offset \in Nat /\ found.size \in Nat \ {0}
  BY <1>1, <1>2, EndlessThere
<1>4. PICK g \in p.stmts[n].domain, l \in 1..Len(infos) : Along(p, found, infos, n, a, i, g, l)
  BY <1>1, <1>2, EndlessThere
<1>5. PICK v \in Nat \ {0}, t \in Nat \ {0}, z \in Nat \ {0} :
        v = p.stmts[n].rate /\ t = g.stride /\ z = found.size
  <2>1. p.stmts[n].rate \in Nat \ {0} /\ g \in Progression
    BY StatementParts
  <2>2. g.stride \in Nat \ {0}
    BY <2>1 DEF Progression
  <2> QED BY <1>3, <2>1, <2>2
<1>6. Divides(v * t, z)
  BY <1>4, <1>5 DEF Along
<1>6a. PICK k \in Nat \ {0} : IsStep(z, v, t, k)
  BY <1>6, StepIs
<1>7. /\ k = z \div (v * t) /\ z \div v = t * k /\ v * (t * k) = z
      /\ t * k \in Nat \ {0}
  BY <1>6a DEF IsStep
<1>8. PICK step \in Nat \ {0} : step = t * k
  BY <1>7
<1>9. StepOf(p, found, n) = step
  BY <1>5, <1>7, <1>8 DEF StepOf
<1>10. p.stmts[n].rate * step = found.size
  BY <1>5, <1>7, <1>8
<1>11. ASSUME NEW q \in Nat PROVE RepeatsBy(p, found, n, i, q, q * step)
  <2>1. PICK d \in Nat : RepeatsFar(p, found, n, i, g, q, d)
    BY <1>2, <1>3, <1>4, RepeatsOn
  <2>2. /\ d = g.stride * ((found.size \div (p.stmts[n].rate * g.stride)) * q)
        /\ RepeatsBy(p, found, n, i, q, d)
    BY <2>1 DEF RepeatsFar
  <2>3. d = t * (k * q)
    BY <1>5, <1>7, <2>2, Zenon
  <2>4. t * (k * q) = q * (t * k)
    OBVIOUS
  <2> QED BY <1>8, <2>2, <2>3, <2>4
<1>12. ASSUME NEW q \in Nat
       PROVE  /\ InDomain(i + q * step, p.stmts[n])
              /\ Time(p.stmts[n], i - q * step) >= found.offset =>
                   InDomain(i - q * step, p.stmts[n]) /\ i - q * step >= 0
  BY <1>11 DEF RepeatsBy
<1> QED BY <1>9, <1>10, <1>12 DEF StepsOn

-----------------------------------------------------------------------------
(* The horizon is behind all that is finite, and behind the first period.  *)
InSight(p, t) ==
  /\ \A n \in DOMAIN p.stmts : \A g \in p.stmts[n].domain :
       g.last # Infinite => Time(p.stmts[n], g.last) < Horizon
  /\ Periodic(p) => t.offset + t.size <= Horizon

(* A program with its tiling, as the code generator is given it            *)
Framed(p, t) ==
  /\ IsProgram(p) /\ IsScheduled(p)
  /\ t.offset \in Nat /\ t.size \in Nat \ {0}
  /\ InSight(p, t)
  /\ InfiniteBands(p) \subseteq {LastBand(p)}
  /\ Periodic(p) => AllStepOn(p, t)

(* Members of domains at or after the horizon are in the periods.          *)
LEMMA FarMembers ==
  ASSUME NEW p, NEW t, Framed(p, t), NEW n \in DOMAIN p.stmts, NEW i \in Nat,
         InDomain(i, p.stmts[n])
  PROVE  \/ Time(p.stmts[n], i) < Horizon
         \/ /\ Periodic(p) /\ p.stmts[n].band = LastBand(p)
            /\ Time(p.stmts[n], i) >= t.offset
<1>1. /\ IsProgram(p) /\ IsScheduled(p) /\ InSight(p, t)
      /\ t.offset \in Nat /\ t.size \in Nat \ {0}
      /\ InfiniteBands(p) \subseteq {LastBand(p)}
  BY DEF Framed
<1>2. PICK g \in p.stmts[n].domain : InProgression(i, g)
  BY DEF InDomain
<1>3. PICK v \in Nat \ {0}, b \in Int : v = p.stmts[n].rate /\ b = p.stmts[n].start
  BY <1>1, StatementParts
<1>4. g \in Progression
  BY <1>1, StatementParts
<1>5. CASE g.last = Infinite
  <2>1. IsInfinite(p.stmts[n])
    BY <1>5 DEF IsInfinite
  <2>2. p.stmts[n].band \in InfiniteBands(p)
    BY <2>1 DEF InfiniteBands, Statements
  <2>3. Periodic(p) /\ p.stmts[n].band = LastBand(p)
    BY <1>1, <2>2 DEF Periodic
  <2>4. t.offset + t.size <= Horizon
    BY <1>1, <2>3 DEF InSight
  <2>5. Time(p.stmts[n], i) \in Int
    BY <1>3 DEF Time
  <2>6. Time(p.stmts[n], i) < Horizon \/ Time(p.stmts[n], i) >= t.offset
    BY <1>1, <2>4, <2>5, HorizonAssumption
  <2> QED BY <2>3, <2>6
<1>6. CASE g.last # Infinite
  <2>1. PICK l \in Nat : l = g.last
    BY <1>4, <1>6 DEF Progression
  <2>2. i <= l
    BY <1>2, <1>6, <2>1 DEF InProgression
  <2>3. Time(p.stmts[n], l) < Horizon
    BY <1>1, <1>6, <2>1 DEF InSight
  <2>4. v * l + b < Horizon
    BY <1>3, <2>3 DEF Time
  <2>5. v * i <= v * l
    BY <2>2
  <2>6. v * i + b < Horizon
    BY <2>4, <2>5, HorizonAssumption
  <2>7. Time(p.stmts[n], i) < Horizon
    BY <1>3, <2>6 DEF Time
  <2> QED BY <2>7
<1> QED BY <1>5, <1>6

(* A sequence of instances by increasing key                               *)
Lists(f, p, S) ==
  /\ f \in Seq(S)
  /\ \A n, m \in DOMAIN f : n < m => Key(p, f[n]) < Key(p, f[m])
  /\ \A e \in S : \E n \in DOMAIN f : f[n] = e
BeforePeriods(p, t) == {e \in Instances(p) : ~InPeriods(p, t, e)}
OfFirstPeriod(p, t) == {e \in Instances(p) : InFirstPeriod(p, t, e)}

LEMMA ListedInOrder ==
  ASSUME NEW p, IsProgram(p), IsScheduled(p), NEW S \in SUBSET Instances(p)
  PROVE  Lists(InOrder(p, S), p, S)
<1>1. IsFiniteSet(S)
  <2>1. IsFiniteSet(Instances(p))
    BY InstancesFinite
  <2> QED BY <2>1, FS_Subset
<1>2. \A e \in S : Key(p, e) \in Int
  BY KeyBound
<1>3. ASSUME NEW d \in S, NEW e \in S, Key(p, d) = Key(p, e) PROVE d = e
  <2>1. /\ d[1] \in DOMAIN p.stmts /\ d[2] \in Int /\ d = <<d[1], d[2]>>
        /\ e[1] \in DOMAIN p.stmts /\ e[2] \in Int /\ e = <<e[1], e[2]>>
    BY InstanceParts, HorizonAssumption
  <2>2. Key(p, <<d[1], d[2]>>) = Key(p, <<e[1], e[2]>>)
    BY <1>3, <2>1
  <2>3. d[1] = e[1] /\ d[2] = e[2]
    BY <2>1, <2>2, KeysDiffer
  <2> QED BY <2>1, <2>3
<1> DEFINE f == InOrder(p, S)
<1>4. /\ f \in Seq(S)
      /\ \A n, m \in DOMAIN f : n < m => Key(p, f[n]) < Key(p, f[m])
      /\ \A e \in S : \E n \in DOMAIN f : f[n] = e
  BY <1>1, <1>2, <1>3, InOrderIs
<1> QED BY <1>4 DEF Lists

(* The generated code, as far as it depends on the tiling                  *)
IsCode(c, p, t) ==
  /\ c.prog = p /\ c.period_size = t.size
  /\ c.prelude = Prelude(p, t) /\ c.period = Period(p, t)

LEMMA CodeLists ==
  ASSUME NEW p, NEW t, Framed(p, t), NEW c, IsCode(c, p, t)
  PROVE  /\ Lists(CodeOf(c, 0), p, BeforePeriods(p, t))
         /\ \A m \in Nat \ {0} : Lists(CodeOf(c, m), p, OfFirstPeriod(p, t))
         /\ Lists(c.prelude, p, BeforePeriods(p, t)) /\ Lists(c.period, p, OfFirstPeriod(p, t))
<1>1. /\ BeforePeriods(p, t) \in SUBSET Instances(p)
      /\ OfFirstPeriod(p, t) \in SUBSET Instances(p)
  BY DEF BeforePeriods, OfFirstPeriod
<1>2. IsProgram(p) /\ IsScheduled(p)
  BY DEF Framed
<1>3. /\ Lists(InOrder(p, BeforePeriods(p, t)), p, BeforePeriods(p, t))
      /\ Lists(InOrder(p, OfFirstPeriod(p, t)), p, OfFirstPeriod(p, t))
  BY <1>1, <1>2, ListedInOrder
<1>4. /\ c.prelude = InOrder(p, BeforePeriods(p, t))
      /\ c.period = InOrder(p, OfFirstPeriod(p, t))
  BY DEF IsCode, Prelude, Period, BeforePeriods, OfFirstPeriod
<1>5. CodeOf(c, 0) = c.prelude /\ \A m \in Nat \ {0} : CodeOf(c, m) = c.period
  BY DEF CodeOf
<1> QED BY <1>3, <1>4, <1>5

(* What is executed when: call 0 what comes before the periods, call m the *)
(* m-th period.                                                            *)
OfCall(p, t, m, n, i) ==
  IF m = 0 THEN <<n, i>> \in BeforePeriods(p, t)
  ELSE /\ Periodic(p) /\ p.stmts[n].band = LastBand(p)
       /\ Time(p.stmts[n], i) >= t.offset + (m - 1) * t.size
       /\ Time(p.stmts[n], i) < t.offset + m * t.size
MovedOn(p, t, m) == IF m = 0 THEN 0 ELSE (m - 1) * (t.size * Len(p.stmts))

IsSlot(c, p, t, m, j, n, i) ==
  /\ InCall(c, CodeOf(c, m)[j], m) = <<n, i>> /\ CodeOf(c, m)[j][1] = n
  /\ CodeOf(c, m)[j] \in Instances(p)
  /\ InDomain(i, p.stmts[n]) /\ OfCall(p, t, m, n, i)
  /\ KeyAt(c, m, j) = Key(p, <<n, i>>)
  /\ KeyAt(c, m, j) = Key(p, CodeOf(c, m)[j]) + MovedOn(p, t, m)

LEMMA SlotOfPrelude ==
  ASSUME NEW p, NEW t, Framed(p, t), NEW c, IsCode(c, p, t), NEW j \in DOMAIN CodeOf(c, 0)
  PROVE  \E n \in DOMAIN p.stmts, i \in Nat : IsSlot(c, p, t, 0, j, n, i)
<1> DEFINE e == CodeOf(c, 0)[j]
<1>1. IsProgram(p) /\ IsScheduled(p)
  BY DEF Framed
<1>2. e \in BeforePeriods(p, t)
  <2>1. CodeOf(c, 0) \in Seq(BeforePeriods(p, t))
    BY CodeLists DEF Lists
  <2> QED BY <2>1
<1>3. e \in Instances(p)
  BY <1>2 DEF BeforePeriods
<1> HIDE DEF e
<1>4. PICK n \in DOMAIN p.stmts, i \in Nat : e = <<n, i>> /\ InDomain(i, p.stmts[n])
  <2>1. /\ e[1] \in DOMAIN p.stmts /\ e[2] \in 0..(2 * Horizon) /\ e = <<e[1], e[2]>>
        /\ InDomain(e[2], p.stmts[e[1]])
    BY <1>1, <1>3, InstanceParts
  <2>2. e[2] \in Nat
    BY <2>1, HorizonAssumption
  <2> QED BY <2>1, <2>2
<1>5. InCall(c, e, 0) = <<n, i>>
  BY <1>4 DEF InCall
<1>6. KeyAt(c, 0, j) = Key(p, <<n, i>>)
  BY <1>5 DEF KeyAt, IsCode, e
<1>7. Key(p, e) \in Int
  BY <1>1, <1>3, KeyBound
<1>8. Key(p, <<n, i>>) = Key(p, e) + MovedOn(p, t, 0)
  BY <1>4, <1>7 DEF MovedOn
<1>9. OfCall(p, t, 0, n, i)
  BY <1>2, <1>4 DEF OfCall
<1> QED BY <1>3, <1>4, <1>5, <1>6, <1>8, <1>9 DEF IsSlot, e

LEMMA SlotOfPeriod ==
  ASSUME NEW p, NEW t, Framed(p, t), NEW c, IsCode(c, p, t),
         NEW m \in Nat \ {0}, NEW j \in DOMAIN CodeOf(c, m)
  PROVE  \E n \in DOMAIN p.stmts, i \in Nat : IsSlot(c, p, t, m, j, n, i)
<1> DEFINE e == CodeOf(c, m)[j]
<1>1. IsProgram(p) /\ IsScheduled(p)
  BY DEF Framed
<1>2. e \in OfFirstPeriod(p, t)
  <2>1. CodeOf(c, m) \in Seq(OfFirstPeriod(p, t))
    BY CodeLists DEF Lists
  <2> QED BY <2>1
<1>3. e \in Instances(p)
  BY <1>2 DEF OfFirstPeriod
<1> HIDE DEF e
<1>4. PICK n \in DOMAIN p.stmts, k \in Nat : e = <<n, k>> /\ InDomain(k, p.stmts[n])
  <2>1. /\ e[1] \in DOMAIN p.stmts /\ e[2] \in 0..(2 * Horizon) /\ e = <<e[1], e[2]>>
        /\ InDomain(e[2], p.stmts[e[1]])
    BY <1>1, <1>3, InstanceParts
  <2>2. e[2] \in Nat
    BY <2>1, HorizonAssumption
  <2> QED BY <2>1, <2>2
<1>5. /\ Periodic(p) /\ p.stmts[n].band = LastBand(p)
      /\ Time(p.stmts[n], k) >= t.offset /\ Time(p.stmts[n], k) < t.offset + t.size
  BY <1>2, <1>4 DEF OfFirstPeriod, InFirstPeriod, InPeriods
<1>6. StepsOn(p, t, n, k)
  BY <1>4, <1>5 DEF Framed, AllStepOn
<1>7. PICK v \in Nat \ {0}, b \in Int : v = p.stmts[n].rate /\ b = p.stmts[n].start
  BY <1>1, StatementParts
<1>8. PICK step \in Nat \ {0} : step = StepOf(p, t, n)
  BY <1>6 DEF StepsOn
<1>9. PICK z \in Nat \ {0}, u \in Nat : z = t.size /\ u = t.offset
  BY DEF Framed
<1>10. v * step = z
  BY <1>6, <1>7, <1>8, <1>9 DEF StepsOn
<1>11. PICK q \in Nat : q = m - 1
  OBVIOUS
<1>12. PICK d \in Nat : d = q * step
  OBVIOUS
<1>13. PICK i \in Nat : i = k + d
  OBVIOUS
<1>14. InCall(c, e, m) = <<n, i>>
  <2>1. c.period_size \div c.prog.stmts[n].rate = step
    BY <1>8 DEF IsCode, StepOf
  <2>2. InCall(c, e, m) = <<n, k + (m - 1) * step>>
    BY <1>4, <2>1 DEF InCall
  <2> QED BY <1>11, <1>12, <1>13, <2>2
<1>15. InDomain(i, p.stmts[n])
  BY <1>6, <1>8, <1>12, <1>13 DEF StepsOn
<1>16. v * d = q * z
  <2>1. v * (q * step) = q * (v * step)
    OBVIOUS
  <2> QED BY <1>10, <1>12, <2>1
<1>17. OfCall(p, t, m, n, i)
  <2>1. Time(p.stmts[n], k) = v * k + b /\ Time(p.stmts[n], i) = v * i + b
    BY <1>7 DEF Time
  <2>2. v * i = v * k + v * d
    BY <1>13
  <2>3. PICK vk \in Int, qz \in Int : vk = v * k /\ qz = q * z
    OBVIOUS
  <2>4. Time(p.stmts[n], i) = vk + qz + b
    BY <1>16, <2>1, <2>2, <2>3
  <2>5. vk + b >= u /\ vk + b < u + z
    BY <1>5, <1>9, <2>1, <2>3
  <2>6. t.offset + (m - 1) * t.size = u + qz
    BY <1>9, <1>11, <2>3
  <2>7. t.offset + m * t.size = u + qz + z
    <3>1. m * z = q * z + z
      BY <1>11
    <3> QED BY <1>9, <2>3, <3>1
  <2> QED BY <1>5, <2>4, <2>5, <2>6, <2>7 DEF OfCall
<1>18. KeyAt(c, m, j) = Key(p, <<n, i>>)
  BY <1>14 DEF KeyAt, IsCode, e
<1>19. Key(p, <<n, i>>) = Key(p, e) + MovedOn(p, t, m)
  <2>1. PICK len \in Nat : len = Len(p.stmts)
    BY <1>1 DEF IsProgram
  <2>2. Key(p, <<n, k + d>>) = Key(p, <<n, k>>) + p.stmts[n].rate * d * Len(p.stmts)
    BY <1>1, KeyMoves
  <2>3. Key(p, <<n, i>>) = Key(p, e) + (v * d) * len
    BY <1>4, <1>7, <1>13, <2>1, <2>2
  <2>4. (q * z) * len = q * (z * len)
    OBVIOUS
  <2> QED BY <1>9, <1>11, <1>16, <2>1, <2>3, <2>4 DEF MovedOn
<1>20. CodeOf(c, m)[j][1] = n
  BY <1>4 DEF e
<1> QED BY <1>3, <1>14, <1>15, <1>17, <1>18, <1>19, <1>20 DEF IsSlot, e

LEMMA SlotIs ==
  ASSUME NEW p, NEW t, Framed(p, t), NEW c, IsCode(c, p, t),
         NEW m \in Nat, NEW j \in DOMAIN CodeOf(c, m)
  PROVE  \E n \in DOMAIN p.stmts, i \in Nat : IsSlot(c, p, t, m, j, n, i)
<1>1. CASE m = 0
  BY <1>1, SlotOfPrelude
<1>2. CASE m # 0
  BY <1>2, SlotOfPeriod
<1> QED BY <1>1, <1>2

(* Every member of a domain is executed by one of the calls.               *)
LEMMA SlotFor ==
  ASSUME NEW p, NEW t, Framed(p, t), NEW c, IsCode(c, p, t),
         NEW n \in DOMAIN p.stmts, NEW i \in Nat, InDomain(i, p.stmts[n])
  PROVE  \E m \in Nat : \E j \in DOMAIN CodeOf(c, m) : InCall(c, CodeOf(c, m)[j], m) = <<n, i>>
<1>1. IsProgram(p) /\ IsScheduled(p)
  BY DEF Framed
<1>2. CASE ~(Periodic(p) /\ p.stmts[n].band = LastBand(p) /\ Time(p.stmts[n], i) >= t.offset)
  <2>1. Time(p.stmts[n], i) < Horizon
    BY <1>2, FarMembers
  <2>2. <<n, i>> \in Instances(p)
    BY <1>1, <2>1, InstanceParts
  <2>3. <<n, i>> \in BeforePeriods(p, t)
    BY <1>2, <2>2 DEF BeforePeriods, InPeriods
  <2>4. PICK j \in DOMAIN CodeOf(c, 0) : CodeOf(c, 0)[j] = <<n, i>>
    BY <2>3, CodeLists DEF Lists
  <2>5. InCall(c, CodeOf(c, 0)[j], 0) = <<n, i>>
    BY <2>4 DEF InCall
  <2> QED BY <2>5
<1>3. CASE Periodic(p) /\ p.stmts[n].band = LastBand(p) /\ Time(p.stmts[n], i) >= t.offset
  <2>1. StepsOn(p, t, n, i)
    BY <1>3 DEF Framed, AllStepOn
  <2>2. PICK v \in Nat \ {0}, b \in Int : v = p.stmts[n].rate /\ b = p.stmts[n].start
    BY <1>1, StatementParts
  <2>3. PICK step \in Nat \ {0} : step = StepOf(p, t, n)
    BY <2>1 DEF StepsOn
  <2>4. PICK z \in Nat \ {0}, u \in Nat : z = t.size /\ u = t.offset
    BY DEF Framed
  <2>5. v * step = z
    BY <2>1, <2>2, <2>3, <2>4 DEF StepsOn
  <2>6. \A x \in Int : Time(p.stmts[n], x) = v * x + b
    BY <2>2 DEF Time
  <2>7. PICK x \in Nat : x = v * i + b - u
    <3>1. v * i + b >= u
      BY <1>3, <2>4, <2>6
    <3>2. v * i + b - u \in Nat
      BY <3>1
    <3> QED BY <3>2
  <2>8. PICK q \in Nat, r \in Nat : x = z * q + r /\ r < z
    <3>1. x % z \in 0..(z - 1) /\ x \div z \in Int /\ x = z * (x \div z) + (x % z)
      BY Remainders
    <3>2. PICK h \in Int, r \in Nat : h = x \div z /\ r = x % z /\ r < z
      BY <3>1
    <3>3. x = z * h + r
      BY <3>1, <3>2
    <3>4. h >= 0
      <4> SUFFICES ASSUME h < 0 PROVE FALSE
        OBVIOUS
      <4>1. PICK l \in Nat : l = -1 - h
        OBVIOUS
      <4>2. h = -1 - l
        BY <4>1
      <4>3. z * (-1 - l) = -z - z * l /\ z * l >= 0
        OBVIOUS
      <4>4. PICK zl \in Nat : zl = z * l
        OBVIOUS
      <4> QED BY <3>2, <3>3, <4>2, <4>3, <4>4
    <3> QED BY <3>2, <3>3, <3>4
  <2>9. PICK d \in Nat : d = q * step
    OBVIOUS
  <2>10. PICK k \in Int : k = i - d
    OBVIOUS
  <2>11. v * k + b = u + r
    <3>1. v * (q * step) = (v * step) * q
      OBVIOUS
    <3>2. v * d = z * q
      BY <2>5, <2>9, <3>1
    <3>3. v * k = v * i - v * d
      BY <2>10
    <3>4. PICK vi \in Int, zq \in Int : vi = v * i /\ zq = z * q
      OBVIOUS
    <3> QED BY <2>7, <2>8, <3>2, <3>3, <3>4
  <2>12. Time(p.stmts[n], k) >= t.offset /\ Time(p.stmts[n], k) < t.offset + t.size
    BY <2>4, <2>6, <2>8, <2>11
  <2>13. InDomain(k, p.stmts[n]) /\ k >= 0
    BY <2>1, <2>3, <2>9, <2>10, <2>12 DEF StepsOn
  <2>14. k \in Nat
    BY <2>13
  <2>15. Time(p.stmts[n], k) < Horizon
    <3>1. t.offset + t.size <= Horizon
      BY <1>3 DEF Framed, InSight
    <3>2. Time(p.stmts[n], k) \in Int
      BY <2>6
    <3> QED BY <2>4, <2>12, <3>1, <3>2, HorizonAssumption
  <2>16. <<n, k>> \in OfFirstPeriod(p, t)
    <3>1. <<n, k>> \in Instances(p)
      BY <1>1, <2>13, <2>14, <2>15, InstanceParts
    <3> QED BY <1>3, <2>12, <3>1 DEF OfFirstPeriod, InFirstPeriod, InPeriods
  <2>17. PICK m \in Nat \ {0} : m = q + 1
    OBVIOUS
  <2>18. PICK j \in DOMAIN CodeOf(c, m) : CodeOf(c, m)[j] = <<n, k>>
    <3>1. Lists(CodeOf(c, m), p, OfFirstPeriod(p, t))
      BY CodeLists
    <3> QED BY <2>16, <3>1 DEF Lists
  <2>19. InCall(c, <<n, k>>, m) = <<n, i>>
    <3>1. c.period_size \div c.prog.stmts[n].rate = step
      BY <2>3 DEF IsCode, StepOf
    <3>2. InCall(c, <<n, k>>, m) = <<n, k + (m - 1) * step>>
      BY <3>1 DEF InCall
    <3>3. k + (m - 1) * step = i
      BY <2>9, <2>10, <2>17
    <3> QED BY <3>2, <3>3
  <2> QED BY <2>18, <2>19
<1> QED BY <1>2, <1>3

(* The keys of call m are before those of call m + 1.                      *)
EndOf(p, t, m) == KeyOfTime(p, t.offset + m * t.size)

LEMMA EndsGrow ==
  ASSUME NEW p, NEW t, Framed(p, t), DOMAIN p.stmts # {}, NEW m \in Nat
  PROVE  /\ EndOf(p, t, m) \in Int
         /\ EndOf(p, t, m) = KeyOfTime(p, t.offset) + m * (t.size * Len(p.stmts))
         /\ \A l \in Nat : l <= m => EndOf(p, t, l) <= EndOf(p, t, m)
<1>1. PICK z \in Nat \ {0}, u \in Nat : z = t.size /\ u = t.offset
  BY DEF Framed
<1>2. PICK len \in Nat : len = Len(p.stmts)
  BY DEF Framed, IsProgram
<1>3. \A l \in Nat : EndOf(p, t, l) = (2 * Horizon * LastBand(p) + (u + l * z)) * len
  BY <1>1, <1>2 DEF EndOf, KeyOfTime
<1>4. KeyOfTime(p, t.offset) = (2 * Horizon * LastBand(p) + u) * len
  BY <1>1, <1>2 DEF KeyOfTime
<1>5. PICK x \in 1..Len(p.stmts) : TRUE
  BY DEF Framed, IsProgram
<1>6. LastBand(p) \in Nat
  BY <1>5, BandsBounded DEF Framed
<1>7. PICK h \in Int : h = 2 * Horizon * LastBand(p)
  BY <1>6, HorizonAssumption
<1>8. \A l \in Nat : EndOf(p, t, l) = (h + u) * len + l * (z * len)
  <2> TAKE l \in Nat
  <2>1. (h + (u + l * z)) * len = (h + u) * len + l * (z * len)
    OBVIOUS
  <2> QED BY <1>3, <1>7, <2>1
<1>9. PICK a \in Int, w \in Nat : a = (h + u) * len /\ w = z * len
  OBVIOUS
<1>10. \A l \in Nat : EndOf(p, t, l) = a + l * w
  BY <1>8, <1>9
<1>11. KeyOfTime(p, t.offset) = a
  BY <1>4, <1>7, <1>9
<1>12. ASSUME NEW l \in Nat, l <= m PROVE EndOf(p, t, l) <= EndOf(p, t, m)
  <2>1. PICK g \in Nat : g = m - l
    BY <1>12
  <2>2. m = l + g
    BY <2>1
  <2>3. (l + g) * w = l * w + g * w /\ g * w >= 0
    OBVIOUS
  <2>4. PICK lw \in Int, gw \in Int : lw = l * w /\ gw = g * w
    OBVIOUS
  <2> QED BY <1>10, <2>2, <2>3, <2>4
<1>13. EndOf(p, t, m) \in Int
  BY <1>10
<1> QED BY <1>1, <1>2, <1>9, <1>10, <1>11, <1>12, <1>13

LEMMA SlotKeys ==
  ASSUME NEW p, NEW t, Framed(p, t), NEW c, NEW m \in Nat, NEW j,
         NEW n \in DOMAIN p.stmts, NEW i \in Nat, IsSlot(c, p, t, m, j, n, i)
  PROVE  /\ KeyAt(c, m, j) \in Int
         /\ Periodic(p) => KeyAt(c, m, j) < EndOf(p, t, m)
         /\ m # 0 => Periodic(p) /\ KeyAt(c, m, j) >= EndOf(p, t, m - 1)
<1>1. /\ IsProgram(p) /\ IsScheduled(p) /\ t.offset \in Nat /\ t.size \in Nat \ {0}
      /\ i \in Int
  BY DEF Framed
<1>2. /\ OfCall(p, t, m, n, i) /\ KeyAt(c, m, j) = Key(p, <<n, i>>)
  BY DEF IsSlot
<1>3. /\ Key(p, <<n, i>>) \in Int /\ Time(p.stmts[n], i) \in Int
  <2>1. 0 \in Int
    OBVIOUS
  <2> QED BY <1>1, <2>1, KeyIs
<1>4. CASE m = 0
  <2>1. <<n, i>> \in BeforePeriods(p, t)
    BY <1>2, <1>4 DEF OfCall
  <2>2. ASSUME Periodic(p) PROVE Key(p, <<n, i>>) < KeyOfTime(p, t.offset)
    <3>1. <<n, i>> \in Instances(p) /\ ~InPeriods(p, t, <<n, i>>)
      BY <2>1 DEF BeforePeriods
    <3>2. Time(p.stmts[n], i) < Horizon
      BY <1>1, <3>1, InstanceParts
    <3>3. t.offset \in Int /\ t.offset >= 0 /\ KeyOfTime(p, t.offset) \in Int
      <4>1. t.offset \in Int /\ t.offset >= 0
        BY <1>1
      <4> QED BY <1>1, <4>1, KeyIs
    <3>4. CASE p.stmts[n].band = LastBand(p)
      <4>1. ~(Time(p.stmts[n], i) >= t.offset)
        BY <2>2, <3>1, <3>4 DEF InPeriods
      <4>2. ~(Key(p, <<n, i>>) >= KeyOfTime(p, t.offset))
        BY <1>1, <3>3, <3>4, <4>1, KeyIs
      <4> QED BY <1>3, <3>3, <4>2
    <3>5. CASE p.stmts[n].band # LastBand(p)
      BY <1>1, <3>2, <3>3, <3>5, KeyIs
    <3> QED BY <3>4, <3>5
  <2>3. EndOf(p, t, 0) = KeyOfTime(p, t.offset)
    BY <1>1 DEF EndOf
  <2> QED BY <1>2, <1>3, <1>4, <2>2, <2>3
<1>5. CASE m # 0
  <2>1. /\ Periodic(p) /\ p.stmts[n].band = LastBand(p)
        /\ Time(p.stmts[n], i) >= t.offset + (m - 1) * t.size
        /\ Time(p.stmts[n], i) < t.offset + m * t.size
    BY <1>2, <1>5 DEF OfCall
  <2>2. PICK x \in Int, y \in Int :
          x = t.offset + (m - 1) * t.size /\ y = t.offset + m * t.size
    BY <1>1
  <2>3. Key(p, <<n, i>>) >= KeyOfTime(p, x)
    BY <1>1, <2>1, <2>2, KeyIs
  <2>4. ~(Time(p.stmts[n], i) >= y)
    BY <1>3, <2>1, <2>2
  <2>5. ~(Key(p, <<n, i>>) >= KeyOfTime(p, y)) /\ KeyOfTime(p, y) \in Int
    BY <1>1, <2>1, <2>4, KeyIs
  <2>6. Key(p, <<n, i>>) < KeyOfTime(p, y)
    BY <1>3, <2>5
  <2> QED BY <1>2, <1>3, <2>1, <2>2, <2>3, <2>6 DEF EndOf
<1> QED BY <1>4, <1>5

LEMMA SlotsGrow ==
  ASSUME NEW p, NEW t, Framed(p, t), NEW c, IsCode(c, p, t),
         NEW m \in Nat, NEW j \in DOMAIN CodeOf(c, m), NEW l \in Nat, NEW k \in DOMAIN CodeOf(c, l)
  PROVE  /\ KeyAt(c, m, j) \in Int
         /\ m < l \/ (m = l /\ j < k) => KeyAt(c, m, j) < KeyAt(c, l, k)
<1>1. PICK n \in DOMAIN p.stmts, i \in Nat : IsSlot(c, p, t, m, j, n, i)
  BY SlotIs
<1>2. PICK a \in DOMAIN p.stmts, b \in Nat : IsSlot(c, p, t, l, k, a, b)
  BY SlotIs
<1>3. KeyAt(c, m, j) \in Int /\ KeyAt(c, l, k) \in Int
  BY <1>1, <1>2, SlotKeys
<1>4. ASSUME m < l PROVE KeyAt(c, m, j) < KeyAt(c, l, k)
  <2>1. l # 0 /\ l - 1 \in Nat /\ m <= l - 1
    BY <1>4
  <2>2. Periodic(p) /\ KeyAt(c, l, k) >= EndOf(p, t, l - 1)
    BY <1>2, <2>1, SlotKeys
  <2>3. KeyAt(c, m, j) < EndOf(p, t, m)
    BY <1>1, <2>2, SlotKeys
  <2>4. /\ EndOf(p, t, m) \in Int /\ EndOf(p, t, l - 1) \in Int
        /\ EndOf(p, t, m) <= EndOf(p, t, l - 1)
    BY <2>1, EndsGrow
  <2> QED BY <1>3, <2>2, <2>3, <2>4
<1>5. ASSUME m = l, j < k PROVE KeyAt(c, m, j) < KeyAt(c, l, k)
  <2>1. Key(p, CodeOf(c, m)[j]) < Key(p, CodeOf(c, m)[k])
    <3>1. Lists(CodeOf(c, m), p, BeforePeriods(p, t)) \/ Lists(CodeOf(c, m), p, OfFirstPeriod(p, t))
      BY CodeLists
    <3> QED BY <1>5, <3>1 DEF Lists
  <2>2. /\ KeyAt(c, m, j) = Key(p, CodeOf(c, m)[j]) + MovedOn(p, t, m)
        /\ KeyAt(c, l, k) = Key(p, CodeOf(c, m)[k]) + MovedOn(p, t, m)
    BY <1>1, <1>2, <1>5 DEF IsSlot
  <2>3. Key(p, CodeOf(c, m)[j]) \in Int /\ Key(p, CodeOf(c, m)[k]) \in Int
    BY <1>1, <1>2, <1>5, KeyBound DEF IsSlot, Framed
  <2>4. MovedOn(p, t, m) \in Int
    <3>1. t.size \in Int /\ Len(p.stmts) \in Int
      BY DEF Framed, IsProgram
    <3> QED BY <3>1 DEF MovedOn
  <2> QED BY <2>1, <2>2, <2>3, <2>4
<1> QED BY <1>3, <1>4, <1>5

LEMMA CallsAre ==
  ASSUME NEW p, NEW t, Framed(p, t), NEW c, IsCode(c, p, t)
  PROVE  /\ \A m \in Nat : /\ Len(CodeOf(c, m)) \in Nat
                          /\ DOMAIN CodeOf(c, m) = 1..Len(CodeOf(c, m))
                          /\ CodeOf(c, m) # <<>> <=> Len(CodeOf(c, m)) # 0
         /\ CodeOf(c, 0) = c.prelude /\ \A m \in Nat \ {0} : CodeOf(c, m) = c.period
         /\ Calls \subseteq Nat
<1>1. \A m \in Nat : \E S : CodeOf(c, m) \in Seq(S)
  BY CodeLists DEF Lists
<1>2. ASSUME NEW m \in Nat
      PROVE  /\ Len(CodeOf(c, m)) \in Nat /\ DOMAIN CodeOf(c, m) = 1..Len(CodeOf(c, m))
             /\ CodeOf(c, m) # <<>> <=> Len(CodeOf(c, m)) # 0
  <2>1. PICK S : CodeOf(c, m) \in Seq(S)
    BY <1>1
  <2> QED BY <2>1
<1>3. CodeOf(c, 0) = c.prelude /\ \A m \in Nat \ {0} : CodeOf(c, m) = c.period
  BY DEF CodeOf
<1>4. Calls \subseteq Nat
  BY KernelAssumption DEF Calls
<1> QED BY <1>2, <1>3, <1>4

(* Calls, and what there is in each, come in the order of the schedule.    *)
LEMMA CodeIsOrdered ==
  ASSUME NEW p, NEW t, Framed(p, t), NEW c, IsCode(c, p, t)
  PROVE  Ordered(c)
<1> SUFFICES ASSUME NEW m \in Calls
             PROVE  /\ \A n \in DOMAIN CodeOf(c, m) :
                         n + 1 \in DOMAIN CodeOf(c, m) => KeyAt(c, m, n) < KeyAt(c, m, n + 1)
                    /\ m + 1 \in Calls /\ CodeOf(c, m) # <<>> /\ c.period # <<>> =>
                         KeyAt(c, m, Len(CodeOf(c, m))) < StartOf(c, m + 1)
  BY DEF Ordered
<1>1. m \in Nat
  BY CallsAre
<1>2. /\ Len(CodeOf(c, m)) \in Nat /\ DOMAIN CodeOf(c, m) = 1..Len(CodeOf(c, m))
      /\ CodeOf(c, m) # <<>> <=> Len(CodeOf(c, m)) # 0
  BY <1>1, CallsAre
<1>3. ASSUME NEW n \in DOMAIN CodeOf(c, m), n + 1 \in DOMAIN CodeOf(c, m)
      PROVE  KeyAt(c, m, n) < KeyAt(c, m, n + 1)
  <2>1. n < n + 1
    BY <1>2
  <2> QED BY <1>1, <1>3, <2>1, SlotsGrow
<1>4. ASSUME CodeOf(c, m) # <<>>, c.period # <<>>
      PROVE  KeyAt(c, m, Len(CodeOf(c, m))) < StartOf(c, m + 1)
  <2>1. m + 1 \in Nat \ {0} /\ m + 1 \in Nat /\ m < m + 1
    BY <1>1
  <2>2. CodeOf(c, m + 1) = c.period
    BY <2>1, CallsAre
  <2>3. /\ Len(CodeOf(c, m + 1)) \in Nat /\ DOMAIN CodeOf(c, m + 1) = 1..Len(CodeOf(c, m + 1))
        /\ CodeOf(c, m + 1) # <<>> <=> Len(CodeOf(c, m + 1)) # 0
    BY <2>1, CallsAre
  <2>4. 1 \in DOMAIN CodeOf(c, m + 1)
    BY <1>4, <2>2, <2>3
  <2>5. Len(CodeOf(c, m)) \in DOMAIN CodeOf(c, m)
    BY <1>2, <1>4
  <2>6. KeyAt(c, m, Len(CodeOf(c, m))) < KeyAt(c, m + 1, 1)
    BY <1>1, <2>1, <2>4, <2>5, SlotsGrow
  <2> QED BY <2>6 DEF StartOf
<1> QED BY <1>3, <1>4

(* Where a member comes among the calls is told by its key.                *)
LEMMA SlotOrder ==
  ASSUME NEW p, NEW t, Framed(p, t), NEW c, IsCode(c, p, t),
         NEW m \in Nat, NEW j \in DOMAIN CodeOf(c, m), NEW l \in Nat, NEW k \in DOMAIN CodeOf(c, l),
         KeyAt(c, m, j) < KeyAt(c, l, k)
  PROVE  m < l \/ (m = l /\ j < k)
<1>1. KeyAt(c, m, j) \in Int /\ KeyAt(c, l, k) \in Int
  BY SlotsGrow
<1>2. j \in Nat /\ k \in Nat
  BY CallsAre
<1> SUFFICES ASSUME ~(m < l), ~(m = l /\ j < k) PROVE FALSE
  OBVIOUS
<1>3. l < m \/ (l = m /\ k < j) \/ (l = m /\ k = j)
  BY <1>2
<1>4. l < m \/ (l = m /\ k < j) => KeyAt(c, l, k) < KeyAt(c, m, j)
  BY SlotsGrow
<1>5. l = m /\ k = j => KeyAt(c, l, k) = KeyAt(c, m, j)
  OBVIOUS
<1> QED BY <1>1, <1>3, <1>4, <1>5

LEMMA MemberSlot ==
  ASSUME NEW p, NEW t, Framed(p, t), NEW c, IsCode(c, p, t), NEW e \in Members(p)
  PROVE  \E m \in Nat : \E j \in DOMAIN CodeOf(c, m) : KeyAt(c, m, j) = Key(p, e)
<1>1. PICK n \in DOMAIN p.stmts, i \in 0..(2 * Horizon) : e = <<n, i>> /\ InDomain(i, p.stmts[n])
  BY DEF Members, Statements
<1>2. i \in Nat
  BY HorizonAssumption
<1>3. PICK m \in Nat : \E j \in DOMAIN CodeOf(c, m) : InCall(c, CodeOf(c, m)[j], m) = <<n, i>>
  BY <1>1, <1>2, SlotFor
<1>4. PICK j \in DOMAIN CodeOf(c, m) : InCall(c, CodeOf(c, m)[j], m) = <<n, i>>
  BY <1>3
<1>5. KeyAt(c, m, j) = Key(p, e)
  BY <1>1, <1>4 DEF KeyAt, IsCode
<1> QED BY <1>5

LEMMA ExecutedBeforeHorizon ==
  ASSUME NEW p, NEW t, Framed(p, t), NEW c, IsCode(c, p, t),
         NEW m \in Nat, m = 0 \/ BeforeHorizon(c, m - 1), NEW j \in DOMAIN CodeOf(c, m)
  PROVE  InCall(c, CodeOf(c, m)[j], m) \in Instances(p)
<1>1. PICK n \in DOMAIN p.stmts, i \in Nat : IsSlot(c, p, t, m, j, n, i)
  BY SlotIs
<1>2. InCall(c, CodeOf(c, m)[j], m) = <<n, i>> /\ CodeOf(c, m)[j][1] = n
  BY <1>1 DEF IsSlot
<1>3. CASE m = 0
  BY <1>1, <1>2, <1>3 DEF IsSlot, OfCall, BeforePeriods
<1>4. CASE m # 0
  <2>1. BeforeHorizon(c, m - 1) /\ j \in DOMAIN c.period /\ CodeOf(c, m) = c.period
    BY <1>4 DEF CodeOf
  <2>2. LET e == c.period[j]
            s == c.prog.stmts[e[1]]
        IN  Time(s, e[2] + (m - 1) * (c.period_size \div s.rate)) < Horizon
    BY <2>1 DEF BeforeHorizon
  <2>3. c.period[j][1] = n
    BY <1>2, <2>1
  <2>4. <<n, c.period[j][2] + (m - 1) * (c.period_size \div c.prog.stmts[n].rate)>> = <<n, i>>
    BY <1>2, <1>4, <2>1, <2>3 DEF InCall
  <2>5. Time(p.stmts[n], i) < Horizon
    BY <2>2, <2>3, <2>4 DEF IsCode
  <2>6. InDomain(i, p.stmts[n])
    BY <1>1 DEF IsSlot
  <2> QED BY <1>2, <2>5, <2>6, InstanceParts DEF Framed
<1> QED BY <1>3, <1>4

(* Calls execute every member of the domains and nothing else.             *)
LEMMA CodeIsWhole ==
  ASSUME NEW p, NEW t, Framed(p, t), NEW c, IsCode(c, p, t)
  PROVE  Whole(c)
<1> DEFINE keys == {Key(p, e) : e \in Members(p)}
           last(m) == Len(CodeOf(c, m))
           between(low, high) == \E x \in keys : low < x /\ x < high
<1>1. c.prog = p
  BY DEF IsCode
<1>2. ASSUME NEW x \in keys
      PROVE  \E m \in Nat : \E j \in DOMAIN CodeOf(c, m) : KeyAt(c, m, j) = x
  BY <1>2, MemberSlot
<1>3. \A n \in Statements(p) : p.stmts[n].rate > 0
  BY DEF Framed, IsScheduled, Statements
<1> HIDE DEF keys
<1>4. ASSUME NEW m \in Nat, NEW n \in DOMAIN CodeOf(c, m), n # last(m)
      PROVE  ~between(KeyAt(c, m, n), KeyAt(c, m, n + 1))
  <2> SUFFICES ASSUME NEW x \in keys, KeyAt(c, m, n) < x, x < KeyAt(c, m, n + 1) PROVE FALSE
    OBVIOUS
  <2>1. PICK l \in Nat : \E j \in DOMAIN CodeOf(c, l) : KeyAt(c, l, j) = x
    BY <1>2
  <2>2. PICK j \in DOMAIN CodeOf(c, l) : KeyAt(c, l, j) = x
    BY <2>1
  <2>3. n \in Nat /\ j \in Nat /\ n + 1 \in DOMAIN CodeOf(c, m)
    BY <1>4, CallsAre
  <2>4. m < l \/ (m = l /\ n < j)
    BY <2>2, SlotOrder
  <2>5. l < m \/ (l = m /\ j < n + 1)
    BY <2>2, <2>3, SlotOrder
  <2> QED BY <2>3, <2>4, <2>5
<1>5. ASSUME NEW m \in Nat, last(m) \in DOMAIN CodeOf(c, m), c.period # <<>>
      PROVE  ~between(KeyAt(c, m, last(m)), StartOf(c, m + 1))
  <2> SUFFICES ASSUME NEW x \in keys, KeyAt(c, m, last(m)) < x, x < KeyAt(c, m + 1, 1) PROVE FALSE
    BY DEF StartOf
  <2>1. PICK l \in Nat : \E j \in DOMAIN CodeOf(c, l) : KeyAt(c, l, j) = x
    BY <1>2
  <2>2. PICK j \in DOMAIN CodeOf(c, l) : KeyAt(c, l, j) = x
    BY <2>1
  <2>3. m + 1 \in Nat \ {0} /\ m + 1 \in Nat
    OBVIOUS
  <2>4. 1 \in DOMAIN CodeOf(c, m + 1)
    BY <1>5, <2>3, CallsAre
  <2>5. m < l \/ (m = l /\ last(m) < j)
    BY <1>5, <2>2, SlotOrder
  <2>6. l < m + 1 \/ (l = m + 1 /\ j < 1)
    BY <2>2, <2>3, <2>4, SlotOrder
  <2>7. /\ Len(CodeOf(c, l)) \in Nat /\ j \in 1..Len(CodeOf(c, l))
    BY CallsAre
  <2> QED BY <2>5, <2>6, <2>7
<1>6. ASSUME NEW m \in Nat, last(m) \in DOMAIN CodeOf(c, m), c.period = <<>>, NEW x \in keys
      PROVE  x <= KeyAt(c, m, last(m))
  <2>1. PICK l \in Nat : \E j \in DOMAIN CodeOf(c, l) : KeyAt(c, l, j) = x
    BY <1>2
  <2>2. PICK j \in DOMAIN CodeOf(c, l) : KeyAt(c, l, j) = x
    BY <2>1
  <2>3. \A k \in Nat \ {0} : DOMAIN CodeOf(c, k) = {}
    BY <1>6, CallsAre
  <2>4. l = 0 /\ m = 0
    BY <1>6, <2>2, <2>3
  <2>5. KeyAt(c, m, last(m)) \in Int /\ KeyAt(c, l, j) \in Int
    BY <1>6, SlotsGrow
  <2>6. SUFFICES ASSUME KeyAt(c, m, last(m)) < KeyAt(c, l, j) PROVE FALSE
    BY <2>2, <2>5
  <2>7. m < l \/ (m = l /\ last(m) < j)
    BY <1>6, <2>6, SlotOrder
  <2>8. /\ Len(CodeOf(c, l)) \in Nat /\ j \in 1..Len(CodeOf(c, l))
    BY CallsAre
  <2> QED BY <2>4, <2>7, <2>8
<1>7. ASSUME NEW m \in Nat, 1 \in DOMAIN CodeOf(c, m), NEW x \in keys,
             \A l \in Nat : l < m => DOMAIN CodeOf(c, l) = {}
      PROVE  x >= KeyAt(c, m, 1)
  <2>1. PICK l \in Nat : \E j \in DOMAIN CodeOf(c, l) : KeyAt(c, l, j) = x
    BY <1>2
  <2>2. PICK j \in DOMAIN CodeOf(c, l) : KeyAt(c, l, j) = x
    BY <2>1
  <2>3. KeyAt(c, m, 1) \in Int /\ KeyAt(c, l, j) \in Int
    BY <1>7, SlotsGrow
  <2>4. SUFFICES ASSUME KeyAt(c, l, j) < KeyAt(c, m, 1) PROVE FALSE
    BY <2>2, <2>3
  <2>5. l < m \/ (l = m /\ j < 1)
    BY <1>7, <2>4, SlotOrder
  <2>6. /\ Len(CodeOf(c, l)) \in Nat /\ j \in 1..Len(CodeOf(c, l))
    BY CallsAre
  <2> QED BY <1>7, <2>5, <2>6
<1>8. c.prelude # <<>> => \A x \in keys : x >= KeyAt(c, 0, 1)
  <2> SUFFICES ASSUME c.prelude # <<>>, NEW x \in keys PROVE x >= KeyAt(c, 0, 1)
    OBVIOUS
  <2>1. 1 \in DOMAIN CodeOf(c, 0) /\ 0 \in Nat /\ \A l \in Nat : ~(l < 0)
    BY CallsAre
  <2> QED BY <1>7, <2>1
<1>9. c.prelude = <<>> /\ c.period # <<>> => \A x \in keys : x >= StartOf(c, 1)
  <2> SUFFICES ASSUME c.prelude = <<>>, c.period # <<>>, NEW x \in keys PROVE x >= KeyAt(c, 1, 1)
    BY DEF StartOf
  <2>1. 1 \in DOMAIN CodeOf(c, 1) /\ 1 \in Nat /\ \A l \in Nat : l < 1 => DOMAIN CodeOf(c, l) = {}
    BY CallsAre
  <2> QED BY <1>7, <2>1
<1>10. c.prelude = <<>> /\ c.period = <<>> => keys = {}
  <2> SUFFICES ASSUME c.prelude = <<>>, c.period = <<>>, NEW x \in keys PROVE FALSE
    OBVIOUS
  <2>1. \A l \in Nat : DOMAIN CodeOf(c, l) = {}
    BY CallsAre
  <2> QED BY <1>2, <2>1
<1>11. ASSUME NEW m \in 0..MaxPeriods, m = 0 \/ BeforeHorizon(c, m - 1), NEW n \in DOMAIN CodeOf(c, m)
       PROVE  /\ InCall(c, CodeOf(c, m)[n], m) \in Instances(p)
              /\ n # last(m) => ~between(KeyAt(c, m, n), KeyAt(c, m, n + 1))
              /\ n = last(m) /\ c.period # <<>> => ~between(KeyAt(c, m, n), StartOf(c, m + 1))
              /\ n = last(m) /\ c.period = <<>> => \A x \in keys : x <= KeyAt(c, m, n)
  <2>1. m \in Nat
    BY KernelAssumption
  <2>2. InCall(c, CodeOf(c, m)[n], m) \in Instances(p)
    BY <1>11, <2>1, ExecutedBeforeHorizon
  <2>3. n # last(m) => ~between(KeyAt(c, m, n), KeyAt(c, m, n + 1))
    BY <1>4, <2>1
  <2>4. n = last(m) /\ c.period # <<>> => ~between(KeyAt(c, m, n), StartOf(c, m + 1))
    BY <1>5, <2>1
  <2>5. n = last(m) /\ c.period = <<>> => \A x \in keys : x <= KeyAt(c, m, n)
    BY <1>6, <2>1
  <2> QED BY <2>2, <2>3, <2>4, <2>5
<1>12. keys = {Key(c.prog, e) : e \in Members(c.prog)}
  BY <1>1 DEF keys
<1> HIDE DEF between, last
<1> QED BY <1>1, <1>3, <1>8, <1>9, <1>10, <1>11, <1>12, Zenon DEF Whole, between, last

IsWriteIn(c, p, t, array, v, m, j, n, i) ==
  /\ IsSlot(c, p, t, m, j, n, i)
  /\ \E b \in Writes(p.stmts[n]) :
       b.array = array /\ v = <<Index(b, i), KeyAt(c, m, j), m, j>>

LEMMA WritesAreInCalls ==
  ASSUME NEW p, NEW t, Framed(p, t), NEW c, IsCode(c, p, t), NEW array, NEW v \in WritesOf(c, array)
  PROVE  \E m \in Calls : \E j \in DOMAIN CodeOf(c, m) : \E n \in DOMAIN p.stmts, i \in Nat :
           IsWriteIn(c, p, t, array, v, m, j, n, i)
<1>1. PICK m \in Calls : v \in UNION {LET e == CodeOf(c, m)[j]
                                          s == c.prog.stmts[e[1]]
                                      IN  {<<Index(w, InCall(c, e, m)[2]), KeyAt(c, m, j), m, j>> :
                                             w \in {x \in Writes(s) : x.array = array}} :
                                        j \in DOMAIN CodeOf(c, m)}
  BY DEF WritesOf
<1>2. PICK j \in DOMAIN CodeOf(c, m) :
        v \in {<<Index(w, InCall(c, CodeOf(c, m)[j], m)[2]), KeyAt(c, m, j), m, j>> :
                 w \in {x \in Writes(c.prog.stmts[CodeOf(c, m)[j][1]]) : x.array = array}}
  BY <1>1
<1>3. PICK b \in Writes(c.prog.stmts[CodeOf(c, m)[j][1]]) :
        /\ b.array = array
        /\ v = <<Index(b, InCall(c, CodeOf(c, m)[j], m)[2]), KeyAt(c, m, j), m, j>>
  BY <1>2
<1>4. m \in Nat
  BY CallsAre
<1>5. PICK n \in DOMAIN p.stmts, i \in Nat : IsSlot(c, p, t, m, j, n, i)
  BY <1>4, SlotIs
<1>6. /\ InCall(c, CodeOf(c, m)[j], m)[2] = i /\ CodeOf(c, m)[j][1] = n /\ c.prog = p
  <2>1. InCall(c, CodeOf(c, m)[j], m) = <<n, i>> /\ CodeOf(c, m)[j][1] = n
    BY <1>5 DEF IsSlot
  <2> QED BY <2>1 DEF IsCode
<1>7. b \in Writes(p.stmts[n]) /\ v = <<Index(b, i), KeyAt(c, m, j), m, j>>
  BY <1>3, <1>6
<1>8. IsWriteIn(c, p, t, array, v, m, j, n, i)
  BY <1>3, <1>5, <1>7 DEF IsWriteIn
<1> QED BY <1>8

LEMMA WriteInCall ==
  ASSUME NEW p, NEW t, NEW c, IsCode(c, p, t), NEW m \in Calls, NEW j \in DOMAIN CodeOf(c, m),
         NEW n, NEW i, InCall(c, CodeOf(c, m)[j], m) = <<n, i>>, CodeOf(c, m)[j][1] = n,
         NEW b \in Writes(p.stmts[n])
  PROVE  <<Index(b, i), KeyAt(c, m, j), m, j>> \in WritesOf(c, b.array)
<1>1. c.prog.stmts[CodeOf(c, m)[j][1]] = p.stmts[n] /\ InCall(c, CodeOf(c, m)[j], m)[2] = i
  BY DEF IsCode
<1> DEFINE written(k) ==
             {<<Index(w, InCall(c, CodeOf(c, m)[k], m)[2]), KeyAt(c, m, k), m, k>> :
                w \in {x \in Writes(c.prog.stmts[CodeOf(c, m)[k][1]]) : x.array = b.array}}
<1>2. <<Index(b, i), KeyAt(c, m, j), m, j>> \in written(j)
  BY <1>1
<1>3. written(j) \subseteq WritesOf(c, b.array)
  BY DEF WritesOf
<1> QED BY <1>2, <1>3

LEMMA ReadsAreReadOut ==
  ASSUME NEW p, NEW t, NEW c, IsCode(c, p, t), NEW array
  PROVE  ReadsOf(c, array) = ReadOut(p, array)
BY DEF ReadsOf, ReadOut, IsCode

(* What comes first in the schedule is executed first.                     *)
LEMMA CodeFlows ==
  ASSUME NEW p, NEW t, Framed(p, t), NEW c, IsCode(c, p, t), Accessing(p), RespectsDataFlow(p)
  PROVE  Flows(c)
<1> DEFINE writes == [a \in Arrays(c.prog) |-> WritesOf(c, a)]
<1>1. c.prog = p
  BY DEF IsCode
<1>2. ASSUME NEW m \in 0..MaxPeriods, NEW k \in DOMAIN CodeOf(c, m),
             NEW e, e = InCall(c, CodeOf(c, m)[k], m), e \in Instances(p),
             NEW x \in Reads(p.stmts[e[1]])
      PROVE  \E w \in writes[x.array] :
               w[1] = Index(x, e[2]) /\ (w[3] < m \/ (w[3] = m /\ w[4] < k))
  <2>0. PICK d \in Instances(p) : \E b \in Writes(p.stmts[d[1]]) :
          /\ b.array = x.array /\ Index(b, d[2]) = Index(x, e[2])
          /\ Key(p, d) < Key(p, e)
    BY <1>2 DEF RespectsDataFlow
  <2>1. PICK b \in Writes(p.stmts[d[1]]) :
          /\ b.array = x.array /\ Index(b, d[2]) = Index(x, e[2])
          /\ Key(p, d) < Key(p, e)
    BY <2>0
  <2>2. PICK n \in DOMAIN p.stmts, i \in Nat : d = <<n, i>> /\ InDomain(i, p.stmts[n])
    <3>1. /\ d[1] \in DOMAIN p.stmts /\ d[2] \in 0..(2 * Horizon) /\ d = <<d[1], d[2]>>
          /\ InDomain(d[2], p.stmts[d[1]])
      BY InstanceParts DEF Framed
    <3>2. d[2] \in Nat
      BY <3>1, HorizonAssumption
    <3> QED BY <3>1, <3>2
  <2>3. PICK l \in Nat : \E j \in DOMAIN CodeOf(c, l) : InCall(c, CodeOf(c, l)[j], l) = <<n, i>>
    BY <2>2, SlotFor
  <2>4. PICK j \in DOMAIN CodeOf(c, l) : InCall(c, CodeOf(c, l)[j], l) = <<n, i>>
    BY <2>3
  <2>5. KeyAt(c, l, j) = Key(p, d) /\ KeyAt(c, m, k) = Key(p, e)
    BY <1>1, <1>2, <2>2, <2>4 DEF KeyAt
  <2>6. m \in Nat
    BY KernelAssumption
  <2>7. l < m \/ (l = m /\ j < k)
    BY <2>1, <2>4, <2>5, <2>6, SlotOrder
  <2>8. l \in Calls
    BY <2>7, KernelAssumption DEF Calls
  <2>9. CodeOf(c, l)[j][1] = n
    <3>1. PICK n1 \in DOMAIN p.stmts, i1 \in Nat : IsSlot(c, p, t, l, j, n1, i1)
      BY SlotIs
    <3>2. <<n1, i1>> = <<n, i>> /\ CodeOf(c, l)[j][1] = n1
      BY <2>4, <3>1 DEF IsSlot
    <3> QED BY <3>2
  <2>10. b \in Writes(p.stmts[n])
    BY <2>1, <2>2
  <2> DEFINE w == <<Index(b, i), KeyAt(c, l, j), l, j>>
  <2>11. w \in WritesOf(c, x.array)
    <3>1. <<Index(b, i), KeyAt(c, l, j), l, j>> \in WritesOf(c, b.array)
      BY <2>4, <2>8, <2>9, <2>10, WriteInCall
    <3> QED BY <2>1, <3>1
  <2>12. x.array \in Arrays(c.prog)
    <3>1. e[1] \in DOMAIN p.stmts
      BY <1>2, InstanceParts DEF Framed
    <3> QED BY <1>1, <3>1 DEF Accessing
  <2>13. writes[x.array] = WritesOf(c, x.array)
    BY <2>12
  <2>14. w[1] = Index(x, e[2]) /\ w[3] = l /\ w[4] = j
    BY <2>1, <2>2
  <2> HIDE DEF w, writes
  <2>15. w \in writes[x.array]
    BY <2>11, <2>13
  <2> QED BY <2>7, <2>14, <2>15
<1> HIDE DEF writes
<1> QED BY <1>1, <1>2 DEF Flows, writes

-----------------------------------------------------------------------------
(* Whatever is accessed is in its array.                                   *)
IsBounded(p, array) == ~p.arrays[array].is_infinite
WithinArrays(p) ==
  \A n \in DOMAIN p.stmts : \A i \in Nat : InDomain(i, p.stmts[n]) =>
    \A a \in Reads(p.stmts[n]) \cup Writes(p.stmts[n]) :
      /\ Index(a, i) \in Nat
      /\ IsBounded(p, a.array) =>
           p.arrays[a.array].size \in Nat /\ Index(a, i) < p.arrays[a.array].size

(* Endless accesses to an array that ends go nowhere.                      *)
LEMMA BoundedStay ==
  ASSUME NEW p, IsProgram(p), IsScheduled(p), WithinArrays(p), NEW array, IsBounded(p, array),
         NEW k \in Info, MadeFrom(p, k), Repeats(k, array)
  PROVE  k.data_offset = 0
<1>1. PICK n \in DOMAIN p.stmts :
        \E a \in Reads(p.stmts[n]) \cup Writes(p.stmts[n]) :
        \E g \in p.stmts[n].domain : k = AccessInfo(p.stmts[n], a, g)
  BY DEF MadeFrom
<1>2. PICK a \in Reads(p.stmts[n]) \cup Writes(p.stmts[n]) :
        \E g \in p.stmts[n].domain : k = AccessInfo(p.stmts[n], a, g)
  BY <1>1
<1>3. PICK g \in p.stmts[n].domain : k = AccessInfo(p.stmts[n], a, g)
  BY <1>2
<1>4. g \in Progression /\ a.mul \in Nat /\ a.off \in Int
  BY StatementParts
<1>5. g.last = Infinite /\ a.array = array /\ k.data_offset = a.mul * g.stride
  BY <1>3 DEF Repeats, AccessInfo
<1>6. PICK mul \in Nat, off \in Int : mul = a.mul /\ off = a.off
  BY <1>4
<1>7. PICK f \in Nat, t \in Nat \ {0} : f = g.first /\ t = g.stride
  BY <1>4 DEF Progression
<1>8. InProgression(f, g)
  <2>1. f - g.first = g.stride * 0 /\ f \in Int
    BY <1>7
  <2>2. Divides(g.stride, f - g.first)
    BY <2>1 DEF Divides
  <2> QED BY <1>4, <1>5, <1>7, <2>1, <2>2, InProgressionIff
<1>9. ASSUME NEW q \in Nat
      PROVE  /\ mul * (f + t * q) + off \in Nat
             /\ p.arrays[array].size \in Nat /\ mul * (f + t * q) + off < p.arrays[array].size
  <2>1. PICK d \in Nat : d = t * q
    OBVIOUS
  <2>2. d = g.stride * q /\ f \in Int
    BY <1>7, <2>1
  <2>3. InProgression(f + d, g)
    BY <1>4, <1>5, <1>8, <2>2, GoesOn
  <2>4. f + d \in Nat /\ InDomain(f + d, p.stmts[n])
    BY <2>3 DEF InDomain
  <2>5. /\ Index(a, f + d) \in Nat
        /\ p.arrays[array].size \in Nat /\ Index(a, f + d) < p.arrays[array].size
    BY <1>5, <2>4 DEF WithinArrays
  <2> QED BY <1>6, <2>1, <2>5 DEF Index
<1>10. PICK z \in Nat : z = p.arrays[array].size
  <2>1. 0 \in Nat
    OBVIOUS
  <2> QED BY <1>9, <2>1
<1>11. mul = 0
  <2> SUFFICES ASSUME mul # 0 PROVE FALSE
    OBVIOUS
  <2>1. mul * (f + t * 0) + off \in Nat /\ mul * (f + t * z) + off < z
    BY <1>9, <1>10
  <2>2. mul * (f + t * 0) = mul * f /\ mul * (f + t * z) = mul * f + (mul * t) * z
    OBVIOUS
  <2>3. PICK w \in Nat \ {0} : w = mul * t
    OBVIOUS
  <2>4. w * z >= z
    OBVIOUS
  <2>5. PICK mf \in Int, wz \in Int : mf = mul * f /\ wz = w * z
    OBVIOUS
  <2> QED BY <2>1, <2>2, <2>3, <2>4, <2>5
<1> QED BY <1>5, <1>6, <1>7, <1>11

LEMMA OffsetOfStanding ==
  ASSUME NEW infos \in Seq(Info), NEW found, found.size \in Nat \ {0}, NEW array,
         IsCommonPeriod(found.size, infos),
         \A k \in 1..Len(infos) : Repeats(infos[k], array) => infos[k].data_offset = 0
  PROVE  InterTileOffset(found, infos, array) = 0
<1> DEFINE n == Len(infos)
<1>1. n \in Nat
  OBVIOUS
<1>2. PICK iter : OffsetBySteps(iter, infos, found, array)
  BY OffsetFolds
<1>3. \A k \in 1..n : Repeats(infos[k], array) => Offset(found.size, infos[k]) = 0
  BY OffsetFolds
<1>4. iter[1..0] = 0 /\ InterTileOffset(found, infos, array) = iter[1..n]
  BY <1>2 DEF OffsetBySteps
<1>5. \A k \in 1..n : iter[1..k] = NextOffset(found.size, array, iter[1..(k - 1)], infos[k])
  BY <1>2 DEF OffsetBySteps
<1>6. \A k \in 1..n : NextOffset(found.size, array, 0, infos[k]) = 0
  BY <1>3 DEF NextOffset, Inconsistent
<1> HIDE DEF n
<1> DEFINE Wrong == {k \in 0..n : iter[1..k] # 0}
<1>7. Wrong = {}
  <2> SUFFICES ASSUME Wrong # {} PROVE FALSE
    OBVIOUS
  <2>1. PICK k \in Wrong : \A i \in Nat : i < k => i \notin Wrong
    <3>1. Wrong \in SUBSET Nat
      BY <1>1
    <3> HIDE DEF Wrong
    <3> QED BY <3>1, LeastOf
  <2>2. k \in 0..n /\ iter[1..k] # 0
    OBVIOUS
  <2>3. k # 0
    BY <1>4, <2>2
  <2>4. k \in 1..n /\ k - 1 \in 0..n /\ k - 1 < k /\ k - 1 \in Nat
    BY <1>1, <2>2, <2>3
  <2>5. iter[1..(k - 1)] = 0
    BY <2>1, <2>4
  <2> QED BY <1>5, <1>6, <2>2, <2>4, <2>5
<1>8. iter[1..n] = 0
  <2>1. n \in 0..n
    BY <1>1
  <2> QED BY <1>7, <2>1
<1> QED BY <1>4, <1>8

(* From period to period, arrays that end stay where they are, the others  *)
(* move on.                                                                *)
LEMMA MovedForward ==
  ASSUME NEW p, IsProgram(p), IsScheduled(p), NEW o \in Options,
         NEW found, found = find_periodic_tiling(Analysed(p), o), NEW array,
         InterTileOffset(found, Analysed(p), array) # Inconsistent
  PROVE  /\ InterTileOffset(found, Analysed(p), array) \in Nat
         /\ WithinArrays(p) /\ IsBounded(p, array) =>
              InterTileOffset(found, Analysed(p), array) = 0
<1> DEFINE infos == Analysed(p)
<1>1. infos \in Seq(Info) /\ \A k \in 1..Len(infos) : MadeFrom(p, infos[k])
  <2>1. AccessInfos(p) \in Seq({i \in Info : MadeFrom(p, i)})
    BY InfosAre
  <2>2. AccessInfos(p) \in Seq(Info) /\ \A k \in 1..Len(AccessInfos(p)) : MadeFrom(p, AccessInfos(p)[k])
    BY <2>1
  <2>3. << >> \in Seq(Info) /\ 1..Len(<< >>) = {}
    OBVIOUS
  <2> QED BY <2>2, <2>3 DEF Analysed
<1>2. o.period_scale \in Nat \ {0}
  BY OptionsAssumption
<1> HIDE DEF infos
<1>3. found.size \in Nat \ {0} /\ IsCommonPeriod(found.size, infos)
  BY <1>1, <1>2, CommonPeriod DEF infos, IsCommonPeriod
<1>4. PICK iter : OffsetBySteps(iter, infos, found, array)
  BY <1>1, <1>3, OffsetFolds
<1>5. InterTileOffset(found, infos, array) \in Nat \cup {Inconsistent}
  BY <1>4 DEF OffsetBySteps
<1>6. ASSUME WithinArrays(p), IsBounded(p, array) PROVE InterTileOffset(found, infos, array) = 0
  <2>1. ASSUME NEW k \in 1..Len(infos), Repeats(infos[k], array) PROVE infos[k].data_offset = 0
    <3>1. infos[k] \in Info /\ MadeFrom(p, infos[k])
      BY <1>1
    <3> QED BY <1>6, <2>1, <3>1, BoundedStay
  <2> QED BY <1>1, <1>3, <2>1, OffsetOfStanding
<1> QED BY <1>5, <1>6 DEF infos

(* The kinds of buffers there are without shifting: as it was allocated,   *)
(* with indices that wrap, or with a phase as well.                        *)
IsBuffer(b, cells, wraps, phase) ==
  b \in [cells : {cells}, wraps : {wraps}, has_phase : {phase},
         shift : {[period_count |-> 1, size |-> 0, source |-> 0]}, on_stack : BOOLEAN]
IsPlain(p, a, b, n) ==
  /\ IsBuffer(b, n, FALSE, FALSE)
  /\ n = 1 \/ (IsBounded(p, a) /\ ~(p.arrays[a].size > n))
IsWrapping(p, a, b, n, advance) ==
  IsBuffer(b, n, TRUE, FALSE) /\ (IsBounded(p, a) \/ advance % n = 0)

LEMMA KindsOfBuffers ==
  ASSUME NEW p, NEW tiled, NEW periods, NEW size, NEW options,
         NEW a \in Arrays(p), size[a] \in Nat \ {0},
         ~options.buffer_data_shifting \/ IsBounded(p, a) \/ size[a] <= 1
  PROVE  LET b == Generated(p, tiled, periods, size, options).buffers[a]
             m == Rounded(size[a], options)
         IN  \/ IsPlain(p, a, b, size[a])
             \/ IsWrapping(p, a, b, m, periods[a])
             \/ IsBuffer(b, m, TRUE, TRUE)
<1> DEFINE elements == AccessInPeriod(p, tiled, a).elements
           n == size[a]
           m == Rounded(n, options)
           t == periods[a]
           b == BufferFor(p.arrays[a], n, t, elements, options)
           l == Layout(p, tiled, periods, size, options)[a]
           still == [period_count |-> 1, size |-> 0, source |-> 0]
           Shape(cells, wraps, phase) ==
             [cells : {cells}, wraps : {wraps}, has_phase : {phase}, shift : {still},
              on_stack : {FALSE}]
<1>1. Generated(p, tiled, periods, size, options).buffers[a] = l
  BY DEF Generated
<1>2. \E s \in BOOLEAN : l = [b EXCEPT !.on_stack = s]
  <2> DEFINE access == [c \in Arrays(p) |-> AccessInPeriod(p, tiled, c)]
             laidOut == [c \in Arrays(p) |->
                           BufferFor(p.arrays[c], size[c], periods[c], access[c].elements, options)]
             transient == {c \in Arrays(p) : ~access[c].inter_period_dependency}
             onStack == StackBuffers(p, laidOut, transient)
  <2>1. l = [b EXCEPT !.on_stack = a \in onStack]
    BY DEF Layout
  <2> HIDE DEF l, b, onStack
  <2>2. PICK s \in BOOLEAN : s <=> a \in onStack
    OBVIOUS
  <2>3. l = [b EXCEPT !.on_stack = s]
    BY <2>1, <2>2
  <2> QED BY <2>3
<1>3. \A k : /\ Plain(k) \in Shape(k, FALSE, FALSE)
             /\ [Plain(k) EXCEPT !.wraps = TRUE] \in Shape(k, TRUE, FALSE)
  BY DEF Plain
<1>4. \A k : \A phase \in BOOLEAN :
        [Plain(k) EXCEPT !.wraps = TRUE, !.has_phase = phase] \in Shape(k, TRUE, phase)
  BY DEF Plain
<1>5. \A k, w, ph : b \in Shape(k, w, ph) => IsBuffer(l, k, w, ph)
  <2> HIDE DEF b, l
  <2>1. PICK s \in BOOLEAN : l = [b EXCEPT !.on_stack = s]
    BY <1>2
  <2> SUFFICES ASSUME NEW k, NEW w, NEW ph, b \in Shape(k, w, ph) PROVE IsBuffer(l, k, w, ph)
    OBVIOUS
  <2> QED BY <2>1 DEF IsBuffer
<1> HIDE DEF Shape, still
<1>6. /\ n \in Nat /\ n # 0
      /\ ~options.buffer_data_shifting \/ IsBounded(p, a) \/ n <= 1
  OBVIOUS
<1> HIDE DEF n
<1>7. \/ b = Plain(n) /\ (n <= 1 \/ (IsBounded(p, a) /\ ~(p.arrays[a].size > n)))
      \/ b = [Plain(m) EXCEPT !.wraps = TRUE] /\ IsBounded(p, a)
      \/ b = WrappingBuffer(t, m)
  <2>1. CASE n <= 1
    BY <2>1 DEF BufferFor
  <2>2. CASE ~(n <= 1) /\ ~IsBounded(p, a)
    BY <1>6, <2>2 DEF BufferFor, IsBounded
  <2>3. CASE ~(n <= 1) /\ IsBounded(p, a)
    BY <2>3 DEF BufferFor, IsBounded
  <2> QED BY <2>1, <2>2, <2>3
<1> HIDE DEF b, l, m, t
<1>8. CASE b = Plain(n) /\ (n <= 1 \/ (IsBounded(p, a) /\ ~(p.arrays[a].size > n)))
  <2>1. b \in Shape(n, FALSE, FALSE)
    BY <1>3, <1>8, Zenon
  <2>2. n = 1 \/ (IsBounded(p, a) /\ ~(p.arrays[a].size > n))
    BY <1>6, <1>8
  <2>3. IsPlain(p, a, l, n)
    BY <1>5, <2>1, <2>2 DEF IsPlain
  <2> QED BY <1>1, <2>3 DEF n
<1>9. CASE b = [Plain(m) EXCEPT !.wraps = TRUE] /\ IsBounded(p, a)
  <2>1. b \in Shape(m, TRUE, FALSE)
    BY <1>3, <1>9, Zenon
  <2>2. IsWrapping(p, a, l, m, t)
    BY <1>5, <1>9, <2>1 DEF IsWrapping
  <2> QED BY <1>1, <2>2 DEF n, m, t
<1>10. CASE b = WrappingBuffer(t, m)
  <2>1. PICK phase \in BOOLEAN : phase = (t % m # 0)
    OBVIOUS
  <2>2. b = [Plain(m) EXCEPT !.wraps = TRUE, !.has_phase = phase]
    BY <1>10, <2>1 DEF WrappingBuffer
  <2>3. b \in Shape(m, TRUE, phase)
    BY <1>4, <2>2, Zenon
  <2>4. IsBuffer(l, m, TRUE, phase)
    BY <1>5, <2>3
  <2>5. CASE phase = TRUE
    <3>1. IsBuffer(l, m, TRUE, TRUE)
      BY <2>4, <2>5
    <3> QED BY <1>1, <3>1 DEF n, m
  <2>6. CASE phase = FALSE
    <3>1. t % m = 0
      BY <2>1, <2>6
    <3>2. IsWrapping(p, a, l, m, t)
      BY <2>4, <2>6, <3>1 DEF IsWrapping
    <3> QED BY <1>1, <3>2 DEF n, m, t
  <2> QED BY <2>5, <2>6
<1> QED BY <1>7, <1>8, <1>9, <1>10

Buffered(p, a, b, size, advance) ==
  /\ b \in Buffer /\ b.shift.size = 0 /\ b.shift.period_count = 1
  /\ b.has_phase => b.wraps
  /\ b.wraps \/ b.cells = 1 \/ (IsBounded(p, a) /\ ~(p.arrays[a].size > b.cells))
  /\ b.wraps /\ ~b.has_phase => IsBounded(p, a) \/ advance % b.cells = 0
  /\ b.cells >= size

LEMMA BufferIs ==
  ASSUME NEW p, NEW a, NEW b, NEW advance, NEW n \in Nat \ {0}, NEW m \in Nat \ {0}, m >= n,
         IsPlain(p, a, b, n) \/ IsWrapping(p, a, b, m, advance) \/ IsBuffer(b, m, TRUE, TRUE)
  PROVE  Buffered(p, a, b, n, advance)
<1>1. \A k \in Nat \ {0} : \A w, ph \in BOOLEAN : IsBuffer(b, k, w, ph) =>
        /\ b \in Buffer /\ b.shift.size = 0 /\ b.shift.period_count = 1
        /\ b.cells = k /\ b.wraps = w /\ b.has_phase = ph
  BY DEF IsBuffer, Buffer
<1>2. CASE IsPlain(p, a, b, n)
  <2>1. /\ b \in Buffer /\ b.shift.size = 0 /\ b.shift.period_count = 1
        /\ b.cells = n /\ b.wraps = FALSE /\ b.has_phase = FALSE
    BY <1>1, <1>2 DEF IsPlain
  <2>2. b.cells = 1 \/ (IsBounded(p, a) /\ ~(p.arrays[a].size > b.cells))
    BY <1>2, <2>1 DEF IsPlain
  <2> QED BY <2>1, <2>2 DEF Buffered
<1>3. CASE IsWrapping(p, a, b, m, advance)
  <2>1. /\ b \in Buffer /\ b.shift.size = 0 /\ b.shift.period_count = 1
        /\ b.cells = m /\ b.wraps = TRUE /\ b.has_phase = FALSE
    BY <1>1, <1>3 DEF IsWrapping
  <2>2. IsBounded(p, a) \/ advance % b.cells = 0
    BY <1>3, <2>1 DEF IsWrapping
  <2> QED BY <2>1, <2>2 DEF Buffered
<1>4. CASE IsBuffer(b, m, TRUE, TRUE)
  <2>1. /\ b \in Buffer /\ b.shift.size = 0 /\ b.shift.period_count = 1
        /\ b.cells = m /\ b.wraps = TRUE /\ b.has_phase = TRUE
    BY <1>1, <1>4
  <2> QED BY <2>1 DEF Buffered
<1> QED BY <1>2, <1>3, <1>4

IsTiled(c, p, t, o) ==
  /\ o.period_offset \in Nat /\ o.period_scale \in Nat \ {0}
  /\ t = find_periodic_tiling(Analysed(p), o)
  /\ \A a \in Arrays(p) : /\ c.advance[a] = InterTileOffset(t, Analysed(p), a)
                          /\ c.advance[a] # Inconsistent

LEMMA InEarlierPeriods ==
  ASSUME NEW p, NEW t, Framed(p, t), Periodic(p), MoveAlike(p), DOMAIN p.stmts # {},
         NEW c, NEW o, IsTiled(c, p, t, o), NEW array \in Arrays(p), c.advance[array] \in Int,
         NEW acc, \A n \in DOMAIN p.stmts : \A a \in acc[n] :
                    a \in Reads(p.stmts[n]) \cup Writes(p.stmts[n]) /\ a.array = array,
         \A e \in Accessed(p, acc) : e[1] \in Int /\ e[2] \in Int,
         NEW x \in Int, NEW key \in Int, <<x, key>> \in Accessed(p, acc),
         NEW q \in Nat, key - (t.size * Len(p.stmts)) * q >= KeyOfTime(p, t.offset)
  PROVE  <<x - c.advance[array] * q, key - (t.size * Len(p.stmts)) * q>> \in Accessed(p, acc)
<1> DEFINE infos == AccessInfos(p)
           moved == c.advance[array]
           later == t.size * Len(p.stmts)
           from  == KeyOfTime(p, t.offset)
<1>1. /\ IsProgram(p) /\ IsScheduled(p) /\ o.period_offset \in Nat /\ o.period_scale \in Nat \ {0}
      /\ infos = AccessInfos(p) /\ t = find_periodic_tiling(infos, o)
      /\ moved = InterTileOffset(t, infos, array) /\ moved # Inconsistent
  BY DEF Framed, IsTiled, Analysed
<1>2. moved \in Int /\ later \in Nat /\ from \in Int
  <2>1. later \in Nat
    BY DEF Framed, IsProgram
  <2>2. 0 \in Int /\ t.offset \in Int
    BY DEF Framed
  <2>3. from \in Int
    BY <1>1, <2>2, KeyIs
  <2> QED BY <2>1, <2>3
<1> HIDE DEF infos, moved
<1>3. ASSUME NEW e \in Accessed(p, acc), e[2] - later >= from
      PROVE  <<e[1] - moved, e[2] - later>> \in Accessed(p, acc)
  <2> HIDE DEF later, from
  <2>1. e[2] >= from
    BY <1>2, <1>3
  <2>2. e[2] >= KeyOfTime(p, t.offset)
    BY <2>1 DEF from
  <2>3. LET l == t.size * Len(p.stmts) IN
        e[2] - l >= KeyOfTime(p, t.offset) => <<e[1] - moved, e[2] - l>> \in Accessed(p, acc)
    BY <1>1, <2>2, AccessesGoOn
  <2> QED BY <1>3, <2>3 DEF later, from
<1>4. key - later * q >= from
  OBVIOUS
<1> HIDE DEF later, from
<1>5. <<x - moved * q, key - later * q>> \in Accessed(p, acc)
  BY <1>2, <1>3, <1>4, AccessesBefore
<1> QED BY <1>5 DEF moved, later

(* Min does what its name says.                                            *)
LEMMA MinIsLeast ==
  ASSUME NEW S \in SUBSET Int, IsFiniteSet(S), S # {}
  PROVE  Min(S) \in S /\ \A x \in S : Min(S) <= x
<1> DEFINE neg == [x \in Int |-> -x]
           N   == {neg[x] : x \in S}
<1>1. IsFiniteSet(N)
  <2> HIDE DEF neg
  <2> QED BY FiniteImage
<1>2. \A x \in S : x \in Int /\ -x \in N
  OBVIOUS
<1>3. \A y \in N : y \in Int /\ -y \in S
  <2> TAKE y \in N
  <2>1. PICK x \in S : y = neg[x] /\ x \in Int
    OBVIOUS
  <2>2. y = -x /\ -(-x) = x
    BY <2>1
  <2> QED BY <2>1, <2>2
<1> HIDE DEF N
<1>4. N \in SUBSET Int /\ N # {}
  BY <1>2, <1>3
<1>5. Max(N) \in N /\ \A y \in N : y <= Max(N)
  BY <1>1, <1>4, MaxIsLargest
<1>6. PICK l \in S : l = -Max(N)
  BY <1>3, <1>5
<1>7. \A x \in S : l <= x
  <2> TAKE x \in S
  <2>1. -x <= Max(N) /\ x \in Int /\ Max(N) \in Int
    BY <1>2, <1>3, <1>5
  <2> QED BY <1>6, <2>1
<1> QED BY <1>7 DEF Min

-----------------------------------------------------------------------------
(* With data shifting, where the accesses of each period are in an array:  *)
(* those of the first period are among these, from first to last, and      *)
(* those of the prelude should not be beyond them.                         *)
InPeriod(p, t, array) == AccessInPeriod(p, t, array).elements
Lowest(p, t, array)    == Min(InPeriod(p, t, array))
Highest(p, t, array)     == Max(InPeriod(p, t, array))
InReach(p, t, array) ==
  \A x \in Written(p, array) \cup ReadOut(p, array) :
    x[2] < KeyOfTime(p, t.offset) => \E y \in InPeriod(p, t, array) : x[1] <= y

(* What is accessed has natural indices.                                   *)
LEMMA NaturalIndices ==
  ASSUME NEW p, IsProgram(p), IsScheduled(p), WithinArrays(p), NEW array
  PROVE  \A x \in Written(p, array) \cup ReadOut(p, array) : x[1] \in Nat
<1> SUFFICES ASSUME NEW x \in Written(p, array) \cup ReadOut(p, array) PROVE x[1] \in Nat
  OBVIOUS
<1>1. PICK e \in Instances(p) :
        \E b \in Reads(p.stmts[e[1]]) \cup Writes(p.stmts[e[1]]) : x = <<Index(b, e[2]), Key(p, e)>>
  BY DEF Written, ReadOut
<1>2. PICK b \in Reads(p.stmts[e[1]]) \cup Writes(p.stmts[e[1]]) : x = <<Index(b, e[2]), Key(p, e)>>
  BY <1>1
<1>3. e[1] \in DOMAIN p.stmts /\ e[2] \in Nat /\ InDomain(e[2], p.stmts[e[1]])
  BY InstanceParts, HorizonAssumption
<1>4. Index(b, e[2]) \in Nat
  BY <1>3 DEF WithinArrays
<1> QED BY <1>2, <1>4

LEMMA ElementsAreMany ==
  ASSUME NEW p, IsProgram(p), IsScheduled(p), WithinArrays(p), NEW t, NEW array,
         InPeriod(p, t, array) # {}
  PROVE  /\ Lowest(p, t, array) \in Nat /\ Highest(p, t, array) \in Nat
         /\ Lowest(p, t, array) \in InPeriod(p, t, array) /\ Highest(p, t, array) \in InPeriod(p, t, array)
         /\ \A x \in InPeriod(p, t, array) :
              x \in Nat /\ Lowest(p, t, array) <= x /\ x <= Highest(p, t, array)
<1> DEFINE W == Written(p, array)
           R == ReadOut(p, array)
           element == [x \in W \cup R |-> x[1]]
           E == InPeriod(p, t, array)
<1>1. IsFiniteSet(W \cup R)
  <2>1. IsFiniteSet(W) /\ IsFiniteSet(R)
    BY WrittenFinite
  <2> HIDE DEF W, R
  <2> QED BY <2>1, FS_Union
<1>2. \A x \in W \cup R : x[1] \in Nat
  BY NaturalIndices
<1>3. E \subseteq {element[x] : x \in W \cup R}
  BY DEF InPeriod, AccessInPeriod, ElementsAccessed
<1>4. IsFiniteSet({element[x] : x \in W \cup R})
  <2> HIDE DEF element, W, R
  <2> QED BY <1>1, FiniteImage
<1>5. {element[x] : x \in W \cup R} \subseteq Nat
  <2> HIDE DEF W, R
  <2> QED BY <1>2
<1> HIDE DEF element, W, R, E
<1>6. IsFiniteSet(E) /\ E \in SUBSET Nat /\ E \in SUBSET Int /\ E # {}
  <2>1. IsFiniteSet(E)
    BY <1>3, <1>4, FS_Subset
  <2> QED BY <1>3, <1>5, <2>1 DEF E
<1>7. Min(E) \in E /\ \A x \in E : Min(E) <= x
  BY <1>6, MinIsLeast
<1>8. Max(E) \in E /\ \A x \in E : x <= Max(E)
  BY <1>6, MaxIsLargest
<1> QED BY <1>6, <1>7, <1>8 DEF E, Lowest, Highest

(* A program with an array whose elements are followed from period to      *)
(* period                                                                  *)
Followed(p, t, c, o, array) ==
  /\ Framed(p, t) /\ Periodic(p) /\ MoveAlike(p) /\ WithinArrays(p) /\ DOMAIN p.stmts # {}
  /\ IsTiled(c, p, t, o) /\ array \in Arrays(p) /\ c.advance[array] \in Nat

(* Whatever is accessed in a period has a counterpart in the first.        *)
LEMMA InThatPeriod ==
  ASSUME NEW p, NEW t, NEW c, NEW o, NEW array, Followed(p, t, c, o, array),
         NEW x \in Int, NEW key \in Int, <<x, key>> \in Written(p, array) \cup ReadOut(p, array),
         key >= KeyOfTime(p, t.offset)
  PROVE  \E m \in Nat : /\ EndOf(p, t, m) <= key /\ key < EndOf(p, t, m + 1)
                        /\ x - c.advance[array] * m \in InPeriod(p, t, array)
<1> DEFINE W == Written(p, array)
           R == ReadOut(p, array)
           later == t.size * Len(p.stmts)
           from  == KeyOfTime(p, t.offset)
           moved == c.advance[array]
<1>1. /\ Framed(p, t) /\ IsProgram(p) /\ IsScheduled(p) /\ Periodic(p) /\ MoveAlike(p)
      /\ DOMAIN p.stmts # {} /\ IsTiled(c, p, t, o) /\ array \in Arrays(p)
      /\ c.advance[array] \in Int /\ t.offset \in Nat /\ t.size \in Nat \ {0}
  BY DEF Followed, Framed
<1>2. \A e \in W \cup R : e[1] \in Int /\ e[2] \in Int
  BY <1>1, WrittenFinite
<1>3. PICK l \in Nat \ {0} : l = later
  <2>1. PICK z \in Nat \ {0}, len \in Nat \ {0} : z = t.size /\ len = Len(p.stmts)
    BY <1>1 DEF IsProgram
  <2>2. z * len \in Nat \ {0}
    OBVIOUS
  <2> QED BY <2>1, <2>2
<1>4. PICK f \in Int : f = from
  <2>1. EndOf(p, t, 0) = from
    BY <1>1 DEF EndOf
  <2>2. EndOf(p, t, 0) \in Int
    BY <1>1, EndsGrow
  <2> QED BY <2>1, <2>2
<1>5. PICK d \in Nat : d = key - f
  BY <1>4
<1>6. /\ d % l \in Nat /\ d % l < l /\ d \div l \in Nat /\ (d % l) + l * (d \div l) = d
  BY <1>3, DivisionIs
<1>7. PICK q \in Nat, s \in Nat : s < l /\ s + l * q = d
  BY <1>6
<1>8. PICK lq \in Nat, mq \in Int : lq = l * q /\ mq = moved * q
  <2>1. PICK z \in Int : z = moved
    BY <1>1
  <2>2. z * q \in Int /\ l * q \in Nat
    OBVIOUS
  <2> QED BY <2>1, <2>2
<1>9. s + lq = key - f /\ s < l
  BY <1>5, <1>7, <1>8
<1>10. key - lq >= f /\ key - lq < f + l
  BY <1>9
<1>11. EndOf(p, t, q) <= key /\ key < EndOf(p, t, q + 1)
  <2>1. EndOf(p, t, q) = f + q * l /\ EndOf(p, t, q + 1) = f + (q + 1) * l
    <3>1. \A m \in Nat : EndOf(p, t, m) = f + m * l
      BY <1>1, <1>3, <1>4, EndsGrow
    <3>2. q + 1 \in Nat
      OBVIOUS
    <3> QED BY <3>1, <3>2, Zenon
  <2>2. q * l = lq /\ (q + 1) * l = lq + l
    BY <1>8
  <2> QED BY <1>10, <2>1, <2>2
<1>12. /\ W = Accessed(p, WritersOf(p, array)) /\ R = Accessed(p, ReadersOf(p, array))
       /\ \A n \in DOMAIN p.stmts : \A a \in WritersOf(p, array)[n] :
            a \in Reads(p.stmts[n]) \cup Writes(p.stmts[n]) /\ a.array = array
       /\ \A n \in DOMAIN p.stmts : \A a \in ReadersOf(p, array)[n] :
            a \in Reads(p.stmts[n]) \cup Writes(p.stmts[n]) /\ a.array = array
  BY <1>1, AccessesOf
<1>13. key - (t.size * Len(p.stmts)) * q >= KeyOfTime(p, t.offset)
  BY <1>3, <1>4, <1>8, <1>10
<1>14. /\ <<x, key>> \in W => <<x - mq, key - lq>> \in W
       /\ <<x, key>> \in R => <<x - mq, key - lq>> \in R
  <2>1. ASSUME <<x, key>> \in W PROVE <<x - mq, key - lq>> \in W
    <3>1. <<x - moved * q, key - (t.size * Len(p.stmts)) * q>> \in Accessed(p, WritersOf(p, array))
      BY <1>1, <1>2, <1>12, <1>13, <2>1, InEarlierPeriods
    <3> QED BY <1>3, <1>8, <1>12, <3>1
  <2>2. ASSUME <<x, key>> \in R PROVE <<x - mq, key - lq>> \in R
    <3>1. <<x - moved * q, key - (t.size * Len(p.stmts)) * q>> \in Accessed(p, ReadersOf(p, array))
      BY <1>1, <1>2, <1>12, <1>13, <2>2, InEarlierPeriods
    <3> QED BY <1>3, <1>8, <1>12, <3>1
  <2> QED BY <2>1, <2>2
<1> DEFINE y == <<x - mq, key - lq>>
<1>15. y[1] = x - mq /\ y[2] = key - lq /\ (y \in W \/ y \in R)
  BY <1>14
<1> HIDE DEF y
<1>16. y[2] \in KeysOfFirst(p, t)
  <2>1. PICK e \in Instances(p) : y[2] = Key(p, e)
    BY <1>15 DEF Written, ReadOut
  <2>2. from + t.size * Len(p.stmts) = f + l
    BY <1>3, <1>4
  <2>3. Key(p, e) >= from /\ Key(p, e) < from + t.size * Len(p.stmts)
    BY <1>4, <1>10, <1>15, <2>1, <2>2
  <2> QED BY <1>1, <2>1, <2>3, FirstPeriodKeys
<1>17. y[1] \in InPeriod(p, t, array)
  <2>1. y[1] \in ElementsAccessed(W, KeysOfFirst(p, t)) \cup ElementsAccessed(R, KeysOfFirst(p, t))
    BY <1>15, <1>16 DEF ElementsAccessed
  <2> QED BY <2>1 DEF InPeriod, AccessInPeriod, KeysOfFirst
<1> QED BY <1>8, <1>11, <1>15, <1>17

(* So each period stays within a range that moves on with it.              *)
LEMMA RangeOfPeriods ==
  ASSUME NEW p, NEW t, NEW c, NEW o, NEW array, Followed(p, t, c, o, array),
         InPeriod(p, t, array) # {}, InReach(p, t, array),
         NEW x \in Int, NEW key \in Int, <<x, key>> \in Written(p, array) \cup ReadOut(p, array),
         NEW m \in Nat
  PROVE  /\ key >= EndOf(p, t, m) => x >= Lowest(p, t, array) + m * c.advance[array]
         /\ key < EndOf(p, t, m + 1) => x <= Highest(p, t, array) + m * c.advance[array]
<1>1. /\ Framed(p, t) /\ DOMAIN p.stmts # {} /\ IsProgram(p) /\ IsScheduled(p) /\ WithinArrays(p)
  BY DEF Followed, Framed
<1>2. PICK f \in Nat, l \in Nat, d \in Nat :
        f = Lowest(p, t, array) /\ l = Highest(p, t, array) /\ d = c.advance[array]
  BY <1>1, ElementsAreMany DEF Followed
<1>3. \A y \in InPeriod(p, t, array) : y \in Nat /\ f <= y /\ y <= l
  BY <1>1, <1>2, ElementsAreMany
<1>4. EndOf(p, t, 0) = KeyOfTime(p, t.offset)
  BY <1>1 DEF EndOf, Framed
<1>5. \A k \in Nat : EndOf(p, t, k) \in Int /\ \A j \in Nat : j <= k => EndOf(p, t, j) <= EndOf(p, t, k)
  BY <1>1, EndsGrow
<1>6. PICK md \in Nat : md = m * d
  OBVIOUS
<1>7. CASE key >= KeyOfTime(p, t.offset)
  <2>1. PICK k \in Nat : /\ EndOf(p, t, k) <= key /\ key < EndOf(p, t, k + 1)
                         /\ x - c.advance[array] * k \in InPeriod(p, t, array)
    BY <1>7, InThatPeriod
  <2>2. PICK kd \in Nat : kd = d * k
    OBVIOUS
  <2>3. f <= x - kd /\ x - kd <= l
    BY <1>2, <1>3, <2>1, <2>2
  <2>4. ASSUME key >= EndOf(p, t, m) PROVE x >= f + md
    <3>1. ~(k + 1 <= m)
      BY <1>5, <2>1, <2>4
    <3>2. PICK j \in Nat : k = m + j
      <4>1. k - m \in Nat /\ k = m + (k - m)
        BY <3>1
      <4> QED BY <4>1
    <3>3. d * (m + j) = m * d + d * j /\ d * j >= 0
      OBVIOUS
    <3>4. PICK z \in Nat : z = d * j
      OBVIOUS
    <3> QED BY <1>6, <2>2, <2>3, <3>2, <3>3, <3>4
  <2>5. ASSUME key < EndOf(p, t, m + 1) PROVE x <= l + md
    <3>1. ~(m + 1 <= k)
      BY <1>5, <2>1, <2>5
    <3>2. PICK j \in Nat : m = k + j
      <4>1. m - k \in Nat /\ m = k + (m - k)
        BY <3>1
      <4> QED BY <4>1
    <3>3. (k + j) * d = d * k + d * j /\ d * j >= 0
      OBVIOUS
    <3>4. PICK z \in Nat : z = d * j
      OBVIOUS
    <3> QED BY <1>6, <2>2, <2>3, <3>2, <3>3, <3>4
  <2> QED BY <1>2, <1>6, <2>4, <2>5
<1>8. CASE key < KeyOfTime(p, t.offset)
  <2> DEFINE y == <<x, key>>
  <2>1. y[1] = x /\ y[2] = key /\ y \in Written(p, array) \cup ReadOut(p, array)
    OBVIOUS
  <2> HIDE DEF y
  <2>2. PICK z \in InPeriod(p, t, array) : x <= z
    BY <1>8, <2>1 DEF InReach
  <2>3. x <= l
    BY <1>3, <2>2
  <2>4. ~(key >= EndOf(p, t, m))
    <3>1. 0 \in Nat /\ 0 <= m
      OBVIOUS
    <3>2. EndOf(p, t, 0) <= EndOf(p, t, m) /\ EndOf(p, t, m) \in Int /\ EndOf(p, t, 0) \in Int
      BY <1>5, <3>1
    <3> QED BY <1>4, <1>8, <3>2
  <2> QED BY <1>2, <1>6, <2>3, <2>4
<1>9. KeyOfTime(p, t.offset) \in Int
  BY <1>4, <1>5
<1> QED BY <1>7, <1>8, <1>9

(* What comes first is not farther on than the buffer reaches.             *)
LEMMA NotFarther ==
  ASSUME NEW p, NEW t, NEW c, NEW o, NEW array, Followed(p, t, c, o, array),
         InPeriod(p, t, array) # {}, InReach(p, t, array),
         NEW v \in Written(p, array) \cup ReadOut(p, array),
         NEW w \in Written(p, array) \cup ReadOut(p, array), v[2] <= w[2]
  PROVE  v[1] - w[1] <= Highest(p, t, array)
<1>1. /\ Framed(p, t) /\ DOMAIN p.stmts # {} /\ IsProgram(p) /\ IsScheduled(p) /\ WithinArrays(p)
  BY DEF Followed, Framed
<1>2. /\ v[1] \in Nat /\ w[1] \in Nat /\ v[2] \in Int /\ w[2] \in Int
  BY <1>1, NaturalIndices, WrittenFinite
<1>3. v = <<v[1], v[2]>> /\ w = <<w[1], w[2]>>
  BY DEF Written, ReadOut
<1>4. PICK f \in Nat, l \in Nat, d \in Nat :
        f = Lowest(p, t, array) /\ l = Highest(p, t, array) /\ d = c.advance[array]
  BY <1>1, ElementsAreMany DEF Followed
<1>5. EndOf(p, t, 0) = KeyOfTime(p, t.offset)
  BY <1>1 DEF EndOf, Framed
<1>6. \A k \in Nat : EndOf(p, t, k) \in Int /\ \A j \in Nat : j <= k => EndOf(p, t, j) <= EndOf(p, t, k)
  BY <1>1, EndsGrow
<1>7. CASE w[2] >= KeyOfTime(p, t.offset)
  <2>1. PICK k \in Nat : EndOf(p, t, k) <= w[2] /\ w[2] < EndOf(p, t, k + 1)
    BY <1>2, <1>3, <1>7, InThatPeriod
  <2>2. w[1] >= Lowest(p, t, array) + k * c.advance[array]
    BY <1>2, <1>3, <1>6, <2>1, RangeOfPeriods
  <2>3. v[2] < EndOf(p, t, k + 1)
    BY <1>2, <1>6, <2>1
  <2>4. v[1] <= Highest(p, t, array) + k * c.advance[array]
    BY <1>2, <1>3, <2>3, RangeOfPeriods
  <2>5. PICK kd \in Nat : kd = k * d
    OBVIOUS
  <2> QED BY <1>2, <1>4, <2>2, <2>4, <2>5
<1>8. CASE ~(w[2] >= KeyOfTime(p, t.offset))
  <2>1. 0 \in Nat /\ 1 \in Nat /\ 0 <= 1 /\ 0 + 1 = 1
    OBVIOUS
  <2>2. v[2] < EndOf(p, t, 0 + 1)
    <3>1. EndOf(p, t, 0) <= EndOf(p, t, 1) /\ EndOf(p, t, 0) \in Int /\ EndOf(p, t, 1) \in Int
      BY <1>6, <2>1
    <3> QED BY <1>2, <1>5, <1>8, <2>1, <3>1
  <2>3. v[1] <= Highest(p, t, array) + 0 * c.advance[array]
    BY <1>2, <1>3, <2>1, <2>2, RangeOfPeriods
  <2>4. 0 * d = 0
    OBVIOUS
  <2> QED BY <1>2, <1>4, <2>3, <2>4
<1> QED BY <1>7, <1>8

(* Elements in conflict are each accessed no later than the other.         *)
LEMMA ConflictsAre ==
  ASSUME NEW W, IsFiniteSet(W), NEW R, IsFiniteSet(R),
         \A c \in W \cup R : c[1] \in Int /\ c[2] \in Int,
         NEW d \in ConflictDistances(W, R)
  PROVE  \E v, x, w, y \in W \cup R :
           /\ v[2] <= x[2] /\ w[2] <= y[2] /\ y[1] = v[1] /\ x[1] = w[1]
           /\ d = Distance(v[1], w[1])
<1> DEFINE first(z) == Min({u[2] : u \in {b \in W : b[1] = z}})
           last(z)  == Max({u[2] : u \in {b \in R : b[1] = z}})
           Life(z)  == <<z, first(z), last(z)>>
           lives    == Lifetimes(W, R)
           pairs    == {c \in lives \X lives : c[1][2] < c[2][3] /\ c[2][2] < c[1][3]}
           together(accesses) == {c \in accesses \X accesses : c[1][2] = c[2][2]}
<1>1. ASSUME NEW A, IsFiniteSet(A), \A c \in A : c[1] \in Int /\ c[2] \in Int, NEW u \in A
      PROVE  LET B == {y \in A : y[1] = u[1]}
                 K == {z[2] : z \in B}
             IN  IsFiniteSet(K) /\ K \in SUBSET Int /\ K # {}
  <2> DEFINE key == [z \in A |-> z[2]]
             B   == {y \in A : y[1] = u[1]}
             K   == {z[2] : z \in B}
  <2>1. B \in SUBSET A /\ u \in B
    BY <1>1
  <2>2. IsFiniteSet(B)
    <3> HIDE DEF B
    <3> QED BY <1>1, <2>1, FS_Subset
  <2>3. IsFiniteSet({key[z] : z \in B})
    <3> HIDE DEF B, key
    <3> QED BY <2>2, FiniteImage
  <2>4. {key[z] : z \in B} = K
    OBVIOUS
  <2>5. K \in SUBSET Int /\ u[2] \in K
    BY <1>1, <2>1
  <2> QED BY <2>3, <2>4, <2>5
<1>2. ASSUME NEW u \in W PROVE \E z \in W : z[1] = u[1] /\ z[2] = first(u[1])
  <2> DEFINE K == {z[2] : z \in {y \in W : y[1] = u[1]}}
  <2>1. IsFiniteSet(K) /\ K \in SUBSET Int /\ K # {}
    BY <1>1
  <2> HIDE DEF K
  <2>2. Min(K) \in K
    BY <2>1, MinIsLeast
  <2> QED BY <2>2 DEF K
<1>3. ASSUME NEW u \in R PROVE \E z \in R : z[1] = u[1] /\ z[2] = last(u[1])
  <2> DEFINE K == {z[2] : z \in {y \in R : y[1] = u[1]}}
  <2>1. IsFiniteSet(K) /\ K \in SUBSET Int /\ K # {}
    BY <1>1
  <2> HIDE DEF K
  <2>2. Max(K) \in K
    BY <2>1, MaxIsLargest
  <2> QED BY <2>2 DEF K
<1>4. lives = {Life(z) : z \in {u[1] : u \in W} \cap {u[1] : u \in R}}
  BY DEF Lifetimes
<1>5. ASSUME NEW z \in lives
      PROVE  /\ \E u \in W : u[1] = z[1] /\ u[2] = z[2]
             /\ \E u \in R : u[1] = z[1] /\ u[2] = z[3]
  <2>1. PICK e \in {u[1] : u \in W} \cap {u[1] : u \in R} : z = Life(e)
    BY <1>4
  <2>2. PICK g \in W, h \in R : g[1] = e /\ h[1] = e
    OBVIOUS
  <2>3. z[1] = e /\ z[2] = first(e) /\ z[3] = last(e)
    BY <2>1
  <2> HIDE DEF first, last
  <2> QED BY <1>2, <1>3, <2>2, <2>3
<1> HIDE DEF lives, first, last
<1>6. PICK c \in pairs \cup together(W) \cup together(R) : d = Distance(c[1][1], c[2][1])
  BY DEF ConflictDistances, lives
<1>7. CASE c \in pairs
  <2>1. c[1] \in lives /\ c[2] \in lives /\ c[1][2] < c[2][3] /\ c[2][2] < c[1][3]
    BY <1>7
  <2>2. PICK v \in W : v[1] = c[1][1] /\ v[2] = c[1][2]
    BY <1>5, <2>1
  <2>3. PICK x \in R : x[1] = c[2][1] /\ x[2] = c[2][3]
    BY <1>5, <2>1
  <2>4. PICK w \in W : w[1] = c[2][1] /\ w[2] = c[2][2]
    BY <1>5, <2>1
  <2>5. PICK y \in R : y[1] = c[1][1] /\ y[2] = c[1][3]
    BY <1>5, <2>1
  <2>6. v[2] <= x[2] /\ w[2] <= y[2]
    <3>1. v[2] \in Int /\ x[2] \in Int /\ w[2] \in Int /\ y[2] \in Int
      OBVIOUS
    <3> QED BY <2>1, <2>2, <2>3, <2>4, <2>5, <3>1
  <2>7. y[1] = v[1] /\ x[1] = w[1] /\ d = Distance(v[1], w[1])
    BY <1>6, <2>2, <2>3, <2>4, <2>5
  <2> QED BY <2>6, <2>7
<1>8. CASE c \in together(W) \cup together(R)
  <2>1. PICK v \in W \cup R, w \in W \cup R : v = c[1] /\ w = c[2] /\ v[2] = w[2]
    BY <1>8
  <2>2. v[2] \in Int /\ w[2] \in Int
    OBVIOUS
  <2>3. v[2] <= w[2] /\ w[2] <= v[2] /\ d = Distance(v[1], w[1])
    BY <1>6, <2>1, <2>2
  <2> QED BY <2>3
<1> QED BY <1>6, <1>7, <1>8

(* The buffer that shifting asks for is no smaller than the allocator's.   *)
LEMMA ReachSuffices ==
  ASSUME NEW p, NEW t, NEW c, NEW o, NEW array, Followed(p, t, c, o, array),
         InPeriod(p, t, array) # {}, InReach(p, t, array),
         compute_buffer_size(p, t, array) # Unbounded
  PROVE  compute_buffer_size(p, t, array) <= Highest(p, t, array) + 1
<1> DEFINE W == Written(p, array)
           R == ReadOut(p, array)
           D == ConflictDistances(W, R)
           far == LargestDistance(p, array, KeyOfTime(p, Horizon))
<1>1. Framed(p, t) /\ IsProgram(p) /\ IsScheduled(p) /\ WithinArrays(p)
  BY DEF Followed, Framed
<1>2. /\ IsFiniteSet(W) /\ IsFiniteSet(R)
      /\ \A e \in W \cup R : e[1] \in Int /\ e[2] \in Int /\ e[2] < KeyOfTime(p, Horizon)
  BY <1>1, WrittenFinite
<1>3. PICK l \in Nat : l = Highest(p, t, array)
  BY <1>1, ElementsAreMany
<1>4. ASSUME NEW d \in D PROVE d \in Nat /\ d <= l
  <2>1. d \in Nat
    <3> HIDE DEF W, R
    <3> QED BY <1>2, DistancesFinite
  <2>2. PICK v, x, w, y \in W \cup R :
          /\ v[2] <= x[2] /\ w[2] <= y[2] /\ y[1] = v[1] /\ x[1] = w[1]
          /\ d = Distance(v[1], w[1])
    <3> HIDE DEF W, R
    <3> QED BY <1>2, ConflictsAre
  <2>3. v[1] - x[1] <= l /\ w[1] - y[1] <= l
    BY <1>3, <2>2, NotFarther
  <2>4. v[1] \in Int /\ w[1] \in Int
    BY <1>2
  <2> QED BY <2>1, <2>2, <2>3, <2>4 DEF Distance
<1>5. {w \in W : w[2] < KeyOfTime(p, Horizon)} = W /\ {r \in R : r[2] < KeyOfTime(p, Horizon)} = R
  <2> HIDE DEF W, R
  <2> QED BY <1>2
<1>6. far = Max({0} \cup D)
  BY <1>5 DEF LargestDistance
<1>7. IsFiniteSet(D)
  <2> HIDE DEF W, R
  <2> QED BY <1>2, DistancesFinite
<1> HIDE DEF D
<1>8. IsFiniteSet({0} \cup D) /\ {0} \cup D \in SUBSET Int
  <2>1. IsFiniteSet({0})
    BY FS_Singleton
  <2>2. IsFiniteSet({0} \cup D)
    BY <1>7, <2>1, FS_Union
  <2> QED BY <1>4, <2>2
<1>9. far \in {0} \cup D
  BY <1>6, <1>8, MaxIsLargest
<1>10. far \in Nat /\ far <= l
  BY <1>4, <1>9
<1>11. compute_buffer_size(p, t, array) = far + 1
  BY DEF compute_buffer_size
<1> QED BY <1>3, <1>10, <1>11

(* A buffer whose contents are shifted down, or replaced altogether        *)
Sliding(p, t, array, b, size, advance) ==
  LET first   == Lowest(p, t, array)
      last    == Highest(p, t, array)
      overlap == last - (first + advance) + 1
  IN  /\ Periodic(p) /\ InPeriod(p, t, array) # {} /\ InReach(p, t, array)
      /\ b \in Buffer /\ ~b.wraps /\ b.cells # 1 /\ b.cells >= size
      /\ \/ /\ overlap > 0 /\ b.has_phase
            /\ b.cells = last + b.shift.period_count * advance + 1
            /\ b.shift.size = overlap
            /\ b.shift.source = first + b.shift.period_count * advance
         \/ /\ overlap <= 0 /\ ~b.has_phase
            /\ b.cells = last + advance + 1
            /\ b.shift.size = 0

LEMMA ShiftingIs ==
  ASSUME NEW advance \in Nat, NEW first \in Nat, NEW last \in Nat, first <= last
  PROVE  LET b       == ShiftingBuffer(advance, first, last)
             overlap == last - (first + advance) + 1
         IN  \/ /\ overlap > 0
                /\ \E count \in Nat \ {0} :
                     b \in [cells : {last + count * advance + 1}, wraps : {FALSE},
                            has_phase : {TRUE}, on_stack : {FALSE},
                            shift : {[period_count |-> count, size |-> overlap,
                                      source |-> first + count * advance]}]
             \/ /\ overlap <= 0
                /\ b \in [cells : {last + advance + 1}, wraps : {FALSE},
                          has_phase : {FALSE}, on_stack : {FALSE},
                          shift : {[period_count |-> 1, size |-> 0, source |-> 0]}]
<1> DEFINE overlap == last - (first + advance) + 1
           width   == last - first + 1
           quotient == CeilDiv(10 * overlap, width)
           count   == Max({1, quotient})
           b       == ShiftingBuffer(advance, first, last)
<1>1. overlap \in Int /\ width \in Nat \ {0}
  OBVIOUS
<1>2. CASE overlap > 0
  <2>1. PICK n \in Nat, d \in Nat \ {0} : n = 10 * overlap + width - 1 /\ d = width
    BY <1>1, <1>2
  <2>2. n \div d \in Nat
    BY DivisionIs
  <2>3. quotient \in Nat
    BY <2>1, <2>2 DEF CeilDiv
  <2> HIDE DEF quotient
  <2>4. count \in {1, quotient} /\ 1 <= count
    <3>1. IsFiniteSet({1, quotient})
      <4>1. IsFiniteSet({1}) /\ IsFiniteSet({quotient})
        BY FS_Singleton
      <4>2. {1, quotient} = {1} \cup {quotient}
        OBVIOUS
      <4> QED BY <4>1, <4>2, FS_Union
    <3>2. {1, quotient} \in SUBSET Int
      BY <2>3
    <3> QED BY <3>1, <3>2, MaxIsLargest
  <2>5. count \in Nat \ {0}
    BY <2>3, <2>4
  <2>6. b = [Plain(last + count * advance + 1) EXCEPT
              !.has_phase = TRUE,
              !.shift = [period_count |-> count, size |-> overlap,
                         source |-> first + count * advance]]
    BY <1>2 DEF ShiftingBuffer, quotient
  <2> HIDE DEF b, count, overlap
  <2>7. b \in [cells : {last + count * advance + 1}, wraps : {FALSE},
               has_phase : {TRUE}, on_stack : {FALSE},
               shift : {[period_count |-> count, size |-> overlap,
                         source |-> first + count * advance]}]
    BY <2>6 DEF Plain
  <2> QED BY <1>2, <2>5, <2>7 DEF b, overlap
<1>3. CASE ~(overlap > 0)
  <2>1. b = Plain(last + advance + 1)
    BY <1>3 DEF ShiftingBuffer
  <2>2. overlap <= 0
    BY <1>1, <1>3
  <2> HIDE DEF b, overlap
  <2>3. b \in [cells : {last + advance + 1}, wraps : {FALSE},
               has_phase : {FALSE}, on_stack : {FALSE},
               shift : {[period_count |-> 1, size |-> 0, source |-> 0]}]
    BY <2>1 DEF Plain
  <2> QED BY <2>2, <2>3 DEF b, overlap
<1> QED BY <1>2, <1>3

LEMMA SlidingIs ==
  ASSUME NEW p, NEW t, NEW c, NEW o, NEW array, Followed(p, t, c, o, array),
         InPeriod(p, t, array) # {}, InReach(p, t, array), ~IsBounded(p, array),
         NEW size, size[array] = compute_buffer_size(p, t, array), size[array] # Unbounded,
         size[array] \in Nat, size[array] > 1,
         NEW periods, periods[array] = c.advance[array],
         NEW options, options.buffer_data_shifting
  PROVE  Sliding(p, t, array, Generated(p, t, periods, size, options).buffers[array],
                 size[array], c.advance[array])
<1> DEFINE elements == AccessInPeriod(p, t, array).elements
           made == BufferFor(p.arrays[array], size[array], periods[array], elements, options)
           b    == Generated(p, t, periods, size, options).buffers[array]
<1>1. /\ Framed(p, t) /\ IsProgram(p) /\ IsScheduled(p) /\ WithinArrays(p) /\ Periodic(p)
      /\ array \in Arrays(p)
  BY DEF Followed, Framed
<1>2. PICK f \in Nat, l \in Nat, d \in Nat :
        f = Lowest(p, t, array) /\ l = Highest(p, t, array) /\ d = c.advance[array]
  BY <1>1, ElementsAreMany DEF Followed
<1>3. f <= l
  BY <1>1, <1>2, ElementsAreMany
<1>4. size[array] <= l + 1 /\ l >= 1
  <2>1. size[array] <= l + 1
    BY <1>2, ReachSuffices
  <2> QED BY <2>1
<1>5. made = ShiftingBuffer(d, f, l)
  <2>1. ~(size[array] <= 1) /\ p.arrays[array].is_infinite
    BY DEF IsBounded
  <2>2. Lowest(p, t, array) = Min(elements) /\ Highest(p, t, array) = Max(elements)
    BY DEF Lowest, Highest, InPeriod
  <2> QED BY <1>2, <2>1, <2>2 DEF BufferFor
<1>6. \E s \in BOOLEAN : b = [made EXCEPT !.on_stack = s]
  <2> DEFINE access == [a \in Arrays(p) |-> AccessInPeriod(p, t, a)]
             laidOut == [a \in Arrays(p) |->
                           BufferFor(p.arrays[a], size[a], periods[a], access[a].elements, options)]
             transient == {a \in Arrays(p) : ~access[a].inter_period_dependency}
             onStack == StackBuffers(p, laidOut, transient)
  <2>1. b = [made EXCEPT !.on_stack = array \in onStack]
    BY <1>1 DEF Layout, Generated
  <2> HIDE DEF b, made, onStack
  <2>2. PICK s \in BOOLEAN : s <=> array \in onStack
    OBVIOUS
  <2>3. b = [made EXCEPT !.on_stack = s]
    BY <2>1, <2>2
  <2> QED BY <2>3
<1>7. PICK s \in BOOLEAN : b = [made EXCEPT !.on_stack = s]
  BY <1>6
<1> DEFINE overlap == l - (f + d) + 1
<1> HIDE DEF b, made
<1>8. ASSUME NEW k \in Nat, NEW ph \in BOOLEAN, NEW shift,
             shift \in [period_count : Nat \ {0}, size : Nat, source : Nat],
             made \in [cells : {k}, wraps : {FALSE}, has_phase : {ph}, on_stack : {FALSE},
                       shift : {shift}],
             k >= 2, k >= size[array]
      PROVE  /\ b \in Buffer /\ b.wraps = FALSE /\ b.cells # 1 /\ b.cells >= size[array]
             /\ b.has_phase = ph /\ b.cells = k /\ b.shift = shift
  <2>1. b \in [cells : {k}, wraps : {FALSE}, has_phase : {ph}, on_stack : {s}, shift : {shift}]
    BY <1>7, <1>8
  <2>2. /\ b.wraps = FALSE /\ b.has_phase = ph /\ b.cells = k /\ b.shift = shift
    BY <2>1
  <2>3. k \in Nat \ {0}
    BY <1>8
  <2>4. b \in Buffer
    BY <1>8, <2>1, <2>3 DEF Buffer
  <2> QED BY <1>8, <2>2, <2>4
<1>9. \/ /\ overlap > 0
         /\ \E count \in Nat \ {0} :
              made \in [cells : {l + count * d + 1}, wraps : {FALSE},
                        has_phase : {TRUE}, on_stack : {FALSE},
                        shift : {[period_count |-> count, size |-> overlap,
                                  source |-> f + count * d]}]
      \/ /\ overlap <= 0
         /\ made \in [cells : {l + d + 1}, wraps : {FALSE},
                      has_phase : {FALSE}, on_stack : {FALSE},
                      shift : {[period_count |-> 1, size |-> 0, source |-> 0]}]
  BY <1>3, <1>5, ShiftingIs
<1>10. overlap = Highest(p, t, array) - (Lowest(p, t, array) + c.advance[array]) + 1 /\ overlap \in Int
  BY <1>2
<1> HIDE DEF overlap
<1>11. ASSUME overlap > 0, NEW count \in Nat \ {0},
              made \in [cells : {l + count * d + 1}, wraps : {FALSE},
                        has_phase : {TRUE}, on_stack : {FALSE},
                        shift : {[period_count |-> count, size |-> overlap,
                                  source |-> f + count * d]}]
       PROVE  Sliding(p, t, array, b, size[array], c.advance[array])
  <2>1. PICK cd \in Nat : cd = count * d
    OBVIOUS
  <2> DEFINE shift == [period_count |-> count, size |-> overlap, source |-> f + cd]
  <2>2. /\ shift \in [period_count : Nat \ {0}, size : Nat, source : Nat]
        /\ shift.period_count = count /\ shift.size = overlap /\ shift.source = f + cd
    BY <1>10, <1>11
  <2>3. made \in [cells : {l + cd + 1}, wraps : {FALSE}, has_phase : {TRUE}, on_stack : {FALSE},
                  shift : {shift}]
    BY <1>11, <2>1
  <2> HIDE DEF shift
  <2>4. l + cd + 1 \in Nat /\ l + cd + 1 >= 2 /\ l + cd + 1 >= size[array]
    BY <1>4
  <2>5. /\ b \in Buffer /\ b.wraps = FALSE /\ b.cells # 1 /\ b.cells >= size[array]
        /\ b.has_phase = TRUE /\ b.cells = l + cd + 1 /\ b.shift = shift
    BY <1>8, <2>2, <2>3, <2>4
  <2>6. b.shift.period_count = count /\ b.shift.size = overlap /\ b.shift.source = f + cd
    BY <2>2, <2>5
  <2> QED BY <1>1, <1>2, <1>10, <1>11, <2>1, <2>5, <2>6 DEF Sliding
<1>12. ASSUME overlap <= 0,
              made \in [cells : {l + d + 1}, wraps : {FALSE},
                        has_phase : {FALSE}, on_stack : {FALSE},
                        shift : {[period_count |-> 1, size |-> 0, source |-> 0]}]
       PROVE  Sliding(p, t, array, b, size[array], c.advance[array])
  <2> DEFINE shift == [period_count |-> 1, size |-> 0, source |-> 0]
  <2>1. shift \in [period_count : Nat \ {0}, size : Nat, source : Nat] /\ shift.size = 0
    OBVIOUS
  <2>2. made \in [cells : {l + d + 1}, wraps : {FALSE}, has_phase : {FALSE}, on_stack : {FALSE},
                  shift : {shift}]
    BY <1>12
  <2> HIDE DEF shift
  <2>3. l + d + 1 \in Nat /\ l + d + 1 >= 2 /\ l + d + 1 >= size[array]
    BY <1>4
  <2>4. /\ b \in Buffer /\ b.wraps = FALSE /\ b.cells # 1 /\ b.cells >= size[array]
        /\ b.has_phase = FALSE /\ b.cells = l + d + 1 /\ b.shift = shift
    BY <1>8, <2>1, <2>2, <2>3
  <2> QED BY <1>1, <1>2, <1>10, <1>12, <2>1, <2>4 DEF Sliding
<1> QED BY <1>9, <1>11, <1>12 DEF b

(* What the arrays of the program have become in the generated code        *)
IsLaidOut(c, p, t, size) ==
  /\ c.buffers = [a \in Arrays(p) |-> c.buffers[a]]
  /\ c.advance = [a \in Arrays(p) |-> c.advance[a]]
  /\ \A a \in Arrays(p) : /\ \/ Buffered(p, a, c.buffers[a], size[a], c.advance[a])
                             \/ Sliding(p, t, a, c.buffers[a], size[a], c.advance[a])
                          /\ c.advance[a] \in Nat
                          /\ IsBounded(p, a) => c.advance[a] = 0

LEMMA CodeHasItsForm ==
  ASSUME NEW p, NEW t, Framed(p, t), NEW c, IsCode(c, p, t), NEW size, IsLaidOut(c, p, t, size)
  PROVE  WellFormed(c)
<1>1. c.period_size \in Nat \ {0} /\ c.prog = p
  BY DEF Framed, IsCode
<1>2. ASSUME NEW a \in Arrays(p)
      PROVE  /\ c.buffers[a] \in Buffer /\ c.advance[a] \in Nat
             /\ c.buffers[a].wraps => c.buffers[a].shift.size = 0
             /\ c.buffers[a].has_phase /\ c.buffers[a].shift.size = 0 => c.buffers[a].wraps
  <2>1. CASE Buffered(p, a, c.buffers[a], size[a], c.advance[a])
    BY <2>1 DEF IsLaidOut, Buffered
  <2>2. CASE Sliding(p, t, a, c.buffers[a], size[a], c.advance[a])
    <3> DEFINE b == c.buffers[a]
    <3>1. b \in Buffer /\ ~b.wraps
      BY <2>2, Zenon DEF Sliding
    <3>2. PICK o : (o > 0 /\ b.shift.size = o) \/ ~b.has_phase
      BY <2>2, Zenon DEF Sliding
    <3>3. b.shift.size \in Nat
      BY <3>1 DEF Buffer
    <3>4. c.advance[a] \in Nat
      BY DEF IsLaidOut
    <3> QED BY ONLY <3>1, <3>2, <3>3, <3>4
  <2> QED BY <2>1, <2>2 DEF IsLaidOut
<1>3. c.buffers \in [Arrays(p) -> Buffer]
  <2>1. c.buffers = [a \in Arrays(p) |-> c.buffers[a]]
    BY DEF IsLaidOut
  <2> QED BY <1>2, <2>1
<1>4. c.advance \in [Arrays(p) -> Nat]
  <2>1. c.advance = [a \in Arrays(p) |-> c.advance[a]]
    BY DEF IsLaidOut
  <2> QED BY <1>2, <2>1
<1> QED BY <1>1, <1>2, <1>3, <1>4 DEF WellFormed

(* A body of the code has room in the buffers, also when they have moved.  *)
LEMMA BodyHasRoom ==
  ASSUME NEW p, IsProgram(p), IsScheduled(p), Accessing(p), WithinArrays(p),
         NEW c, c.prog = p, NEW t, NEW size, IsLaidOut(c, p, t, size),
         NEW S \in SUBSET Instances(p), NEW body \in Seq(S),
         NEW phase,
         \A a \in Arrays(p) : Buffered(p, a, c.buffers[a], size[a], c.advance[a]) => phase[a] = 0,
         \A a \in Arrays(p) : Sliding(p, t, a, c.buffers[a], size[a], c.advance[a]) =>
           \A e \in S : \A x \in Reads(p.stmts[e[1]]) \cup Writes(p.stmts[e[1]]) :
             x.array = a => Index(x, e[2]) + phase[a] < c.buffers[a].cells
  PROVE  RoomFor(c, body, phase)
<1>1. \A e \in S : /\ e \in Statements(p) \X Nat
                   /\ e[1] \in DOMAIN p.stmts /\ e[2] \in Nat /\ InDomain(e[2], p.stmts[e[1]])
  <2> TAKE e \in S
  <2>1. /\ e[1] \in DOMAIN p.stmts /\ e[2] \in 0..(2 * Horizon) /\ e = <<e[1], e[2]>>
        /\ InDomain(e[2], p.stmts[e[1]])
    BY InstanceParts
  <2>2. e[2] \in Nat
    BY <2>1, HorizonAssumption
  <2> QED BY <2>1, <2>2 DEF Statements
<1>2. body \in Seq(Statements(p) \X Nat) /\ \A n \in DOMAIN body : body[n] \in S
  <2>1. S \subseteq Statements(p) \X Nat
    BY <1>1
  <2> QED BY <2>1
<1>3. ASSUME NEW n \in DOMAIN body,
             NEW x \in Reads(p.stmts[body[n][1]]) \cup Writes(p.stmts[body[n][1]])
      PROVE  HasRoom(c, x, Index(x, body[n][2]), phase)
  <2>1. body[n][1] \in DOMAIN p.stmts /\ body[n][2] \in Nat /\ InDomain(body[n][2], p.stmts[body[n][1]])
    BY <1>1, <1>2
  <2>2. x.array \in Arrays(p)
    BY <2>1 DEF Accessing
  <2>3. /\ Index(x, body[n][2]) \in Nat
        /\ IsBounded(p, x.array) => /\ p.arrays[x.array].size \in Nat
                                    /\ Index(x, body[n][2]) < p.arrays[x.array].size
    BY <2>1 DEF WithinArrays
  <2> DEFINE b == c.buffers[x.array]
  <2>4. CASE Buffered(p, x.array, b, size[x.array], c.advance[x.array])
    <3>1. /\ b \in Buffer /\ phase[x.array] = 0
          /\ b.wraps \/ b.cells = 1 \/ (IsBounded(p, x.array) /\ ~(p.arrays[x.array].size > b.cells))
      BY <2>2, <2>4 DEF Buffered
    <3>2. b.cells \in Nat
      BY <3>1 DEF Buffer
    <3>3. IsBounded(p, x.array) /\ ~(p.arrays[x.array].size > b.cells)
            => Index(x, body[n][2]) + phase[x.array] < b.cells
      BY <2>3, <3>1, <3>2
    <3> QED BY <2>2, <2>3, <3>1, <3>3 DEF HasRoom
  <2>5. CASE Sliding(p, t, x.array, b, size[x.array], c.advance[x.array])
    <3>1. Index(x, body[n][2]) + phase[x.array] < b.cells
      BY <1>2, <2>2, <2>5
    <3> QED BY <2>2, <2>3, <3>1 DEF HasRoom
  <2> QED BY <2>2, <2>4, <2>5 DEF IsLaidOut
<1> QED BY <1>2, <1>3 DEF RoomFor

LEMMA RoomToSlide ==
  ASSUME NEW p, NEW t, Framed(p, t), WithinArrays(p), NEW array, NEW b, NEW size,
         NEW advance \in Nat, Sliding(p, t, array, b, size, advance),
         NEW e \in Instances(p), NEW x \in Reads(p.stmts[e[1]]) \cup Writes(p.stmts[e[1]]),
         x.array = array
  PROVE  /\ e \in BeforePeriods(p, t) => Index(x, e[2]) < b.cells
         /\ e \in OfFirstPeriod(p, t) =>
              /\ Index(x, e[2]) < b.cells
              /\ b.has_phase => Index(x, e[2]) + (b.shift.period_count - 1) * advance < b.cells
<1>1. /\ IsProgram(p) /\ IsScheduled(p) /\ t.offset \in Nat /\ InPeriod(p, t, array) # {}
      /\ InReach(p, t, array) /\ Periodic(p) /\ b \in Buffer
  BY DEF Framed, Sliding
<1>2. PICK f \in Nat, l \in Nat : f = Lowest(p, t, array) /\ l = Highest(p, t, array)
  BY <1>1, ElementsAreMany
<1>3. \A y \in InPeriod(p, t, array) : y \in Nat /\ y <= l
  BY <1>1, <1>2, ElementsAreMany
<1> DEFINE a == <<Index(x, e[2]), Key(p, e)>>
<1>4. a \in Written(p, array) \cup ReadOut(p, array)
  BY DEF Written, ReadOut
<1>5. a[1] = Index(x, e[2]) /\ a[2] = Key(p, e) /\ a[1] \in Nat
  <2>1. a[1] \in Nat
    BY <1>1, <1>4, NaturalIndices
  <2> QED BY <2>1
<1> HIDE DEF a
<1>6. PICK count \in Nat \ {0} : count = b.shift.period_count
  BY <1>1 DEF Buffer
<1>7. PICK cd \in Nat : cd = count * advance
  OBVIOUS
<1>8. /\ l < b.cells /\ b.cells \in Nat
      /\ b.has_phase => l + (count - 1) * advance < b.cells
  <2>1. (count - 1) * advance = cd - advance
    BY <1>7
  <2> QED BY <1>1, <1>2, <1>6, <1>7, <2>1 DEF Sliding, Buffer
<1>9. ASSUME e \in BeforePeriods(p, t) PROVE a[1] <= l
  <2>1. PICK n \in DOMAIN p.stmts, i \in Nat :
          e = <<n, i>> /\ n = e[1] /\ i = e[2] /\ Time(p.stmts[n], i) < Horizon
    BY <1>1, InstanceParts, HorizonAssumption
  <2>2. /\ Time(p.stmts[n], i) \in Int /\ Key(p, <<n, i>>) \in Int /\ KeyOfTime(p, t.offset) \in Int
        /\ p.stmts[n].band = LastBand(p) =>
             (Key(p, <<n, i>>) >= KeyOfTime(p, t.offset) <=> Time(p.stmts[n], i) >= t.offset)
        /\ p.stmts[n].band # LastBand(p) /\ Time(p.stmts[n], i) < Horizon /\ t.offset >= 0 =>
             Key(p, <<n, i>>) < KeyOfTime(p, t.offset)
    <3>1. i \in Int /\ t.offset \in Int
      BY <1>1
    <3> QED BY <1>1, <3>1, KeyIs
  <2>3. ~(p.stmts[n].band = LastBand(p) /\ Time(p.stmts[n], i) >= t.offset)
    BY <1>1, <1>9, <2>1 DEF BeforePeriods, InPeriods
  <2>4. a[2] < KeyOfTime(p, t.offset)
    BY <1>1, <1>5, <2>1, <2>2, <2>3
  <2>5. PICK y \in InPeriod(p, t, array) : a[1] <= y
    BY <1>1, <1>4, <2>4 DEF InReach
  <2> QED BY <1>3, <1>5, <2>5
<1>10. ASSUME e \in OfFirstPeriod(p, t) PROVE a[1] <= l
  <2>1. a[2] \in KeysOfFirst(p, t)
    BY <1>5, <1>10 DEF OfFirstPeriod, KeysOfFirst
  <2>2. a[1] \in ElementsAccessed(Written(p, array), KeysOfFirst(p, t))
                \cup ElementsAccessed(ReadOut(p, array), KeysOfFirst(p, t))
    BY <1>4, <2>1 DEF ElementsAccessed
  <2>3. a[1] \in InPeriod(p, t, array)
    BY <2>2 DEF InPeriod, AccessInPeriod, KeysOfFirst
  <2> QED BY <1>3, <2>3
<1>11. PICK z \in Nat : z = (count - 1) * advance
  OBVIOUS
<1> QED BY <1>5, <1>6, <1>8, <1>9, <1>10, <1>11

LEMMA CodeFits ==
  ASSUME NEW p, NEW t, Framed(p, t), Accessing(p), WithinArrays(p),
         NEW c, IsCode(c, p, t), NEW size, IsLaidOut(c, p, t, size)
  PROVE  Fits(c)
<1>1. c.prog = p /\ IsProgram(p) /\ IsScheduled(p)
  BY DEF IsCode, Framed
<1>2. /\ BeforePeriods(p, t) \in SUBSET Instances(p) /\ c.prelude \in Seq(BeforePeriods(p, t))
      /\ OfFirstPeriod(p, t) \in SUBSET Instances(p) /\ c.period \in Seq(OfFirstPeriod(p, t))
  BY CodeLists DEF BeforePeriods, OfFirstPeriod, Lists
<1>3. \A a \in Arrays(p) : Unmoved(c)[a] = 0
  BY <1>1 DEF Unmoved
<1>4. ASSUME NEW a \in Arrays(p), Buffered(p, a, c.buffers[a], size[a], c.advance[a])
      PROVE  LastPhase(c)[a] = 0
  <2>1. c.buffers[a].shift.period_count = 1 /\ c.advance[a] \in Nat
    BY <1>4 DEF IsLaidOut, Buffered
  <2>2. (c.buffers[a].shift.period_count - 1) * c.advance[a] = 0
    BY <2>1
  <2> QED BY <1>1, <2>2 DEF LastPhase
<1>5. ASSUME NEW a \in Arrays(p), Sliding(p, t, a, c.buffers[a], size[a], c.advance[a]),
             NEW e \in Instances(p), NEW x \in Reads(p.stmts[e[1]]) \cup Writes(p.stmts[e[1]]),
             x.array = a
      PROVE  /\ e \in BeforePeriods(p, t) => Index(x, e[2]) + Unmoved(c)[a] < c.buffers[a].cells
             /\ e \in OfFirstPeriod(p, t) => Index(x, e[2]) + LastPhase(c)[a] < c.buffers[a].cells
  <2>1. c.advance[a] \in Nat
    BY DEF IsLaidOut
  <2>2. /\ e \in BeforePeriods(p, t) => Index(x, e[2]) < c.buffers[a].cells
        /\ e \in OfFirstPeriod(p, t) =>
             /\ Index(x, e[2]) < c.buffers[a].cells
             /\ c.buffers[a].has_phase =>
                  Index(x, e[2]) + (c.buffers[a].shift.period_count - 1) * c.advance[a]
                    < c.buffers[a].cells
    BY <1>5, <2>1, RoomToSlide
  <2>3. Index(x, e[2]) \in Nat
    <3>1. e[1] \in DOMAIN p.stmts /\ e[2] \in Nat /\ InDomain(e[2], p.stmts[e[1]])
      BY <1>1, InstanceParts, HorizonAssumption
    <3> QED BY <3>1 DEF WithinArrays
  <2>4. LastPhase(c)[a] = IF c.buffers[a].has_phase
                          THEN (c.buffers[a].shift.period_count - 1) * c.advance[a] ELSE 0
    BY <1>1 DEF LastPhase
  <2> QED BY <1>3, <2>2, <2>3, <2>4
<1>6. RoomFor(c, c.prelude, Unmoved(c))
  <2>1. \A a \in Arrays(p) : Sliding(p, t, a, c.buffers[a], size[a], c.advance[a]) =>
          \A e \in BeforePeriods(p, t) : \A x \in Reads(p.stmts[e[1]]) \cup Writes(p.stmts[e[1]]) :
            x.array = a => Index(x, e[2]) + Unmoved(c)[a] < c.buffers[a].cells
    BY <1>2, <1>5
  <2> QED BY <1>1, <1>2, <1>3, <2>1, BodyHasRoom
<1>7. RoomFor(c, c.period, LastPhase(c))
  <2>1. \A a \in Arrays(p) : Sliding(p, t, a, c.buffers[a], size[a], c.advance[a]) =>
          \A e \in OfFirstPeriod(p, t) : \A x \in Reads(p.stmts[e[1]]) \cup Writes(p.stmts[e[1]]) :
            x.array = a => Index(x, e[2]) + LastPhase(c)[a] < c.buffers[a].cells
    BY <1>2, <1>5
  <2> QED BY <1>1, <1>2, <1>4, <2>1, BodyHasRoom
<1> QED BY <1>6, <1>7 DEF Fits

(* A period later every access is further on by as much as its array.      *)
LEMMA CodeIsSteady ==
  ASSUME NEW p, NEW t, Framed(p, t), Accessing(p), WithinArrays(p), MoveAlike(p),
         NEW c, IsCode(c, p, t), NEW size, IsLaidOut(c, p, t, size),
         NEW o, IsTiled(c, p, t, o)
  PROVE  Steady(c)
<1>1. c.prog = p /\ c.period_size = t.size /\ IsProgram(p) /\ IsScheduled(p)
  BY DEF IsCode, Framed
<1>2. ASSUME NEW k \in DOMAIN c.period
      PROVE  LET s == p.stmts[c.period[k][1]] IN
             /\ s.rate # 0
             /\ \A x \in Reads(s) \cup Writes(s) : x.mul * (t.size \div s.rate) = c.advance[x.array]
  <2>1. c.period[k] \in OfFirstPeriod(p, t)
    <3>1. c.period \in Seq(OfFirstPeriod(p, t))
      BY CodeLists DEF Lists
    <3> QED BY <3>1
  <2>2. PICK n \in DOMAIN p.stmts, i \in Nat : c.period[k] = <<n, i>> /\ InDomain(i, p.stmts[n])
    <3>1. PICK e \in Instances(p) : e = c.period[k]
      BY <2>1 DEF OfFirstPeriod
    <3>2. /\ e[1] \in DOMAIN p.stmts /\ e[2] \in 0..(2 * Horizon) /\ e = <<e[1], e[2]>>
          /\ InDomain(e[2], p.stmts[e[1]])
      BY <1>1, InstanceParts
    <3>3. e[2] \in Nat
      BY <3>2, HorizonAssumption
    <3> QED BY <3>1, <3>2, <3>3
  <2>3. /\ Periodic(p) /\ p.stmts[n].band = LastBand(p) /\ Time(p.stmts[n], i) >= t.offset
    BY <2>1, <2>2 DEF OfFirstPeriod, InFirstPeriod, InPeriods
  <2>4. PICK v \in Nat \ {0}, z \in Nat \ {0} : v = p.stmts[n].rate /\ z = t.size
    <3>1. p.stmts[n].rate \in Nat \ {0}
      BY <1>1, StatementParts
    <3> QED BY <3>1 DEF Framed
  <2>5. /\ Analysed(p) = AccessInfos(p) /\ o.period_offset \in Nat /\ o.period_scale \in Nat \ {0}
        /\ t = find_periodic_tiling(AccessInfos(p), o) /\ i \in Int
    BY <2>3 DEF IsTiled, Analysed
  <2>6. ASSUME NEW x \in Reads(p.stmts[n]) \cup Writes(p.stmts[n])
        PROVE  x.mul * (t.size \div p.stmts[n].rate) = c.advance[x.array]
    <3>1. x.array \in Arrays(p)
      BY DEF Accessing
    <3>2. /\ c.advance[x.array] = InterTileOffset(t, AccessInfos(p), x.array)
          /\ InterTileOffset(t, AccessInfos(p), x.array) # Inconsistent
      BY <2>5, <3>1 DEF IsTiled
    <3>3. PICK d \in Nat : MovesBy(p, t, AccessInfos(p), n, x, i, d)
      BY <1>1, <2>2, <2>3, <2>5, <3>2, MovesOn
    <3>4. x.mul * d = c.advance[x.array] /\ v * d = z
      BY <2>4, <3>2, <3>3 DEF MovesBy
    <3>5. z \div v = d
      <4>1. z = v * d + 0 /\ 0 \in Nat /\ 0 < v /\ z \in Nat
        BY <3>4
      <4> QED BY <4>1, QuotientIs
    <3> QED BY <2>4, <3>4, <3>5
  <2>7. c.period[k][1] = n
    BY <2>2
  <2> QED BY <2>4, <2>6, <2>7
<1>3. ASSUME NEW a \in Arrays(p), c.buffers[a].wraps, ~c.buffers[a].has_phase
      PROVE  c.advance[a] % c.buffers[a].cells = 0
  <2>1. /\ IsBounded(p, a) \/ c.advance[a] % c.buffers[a].cells = 0
        /\ IsBounded(p, a) => c.advance[a] = 0
        /\ c.buffers[a] \in Buffer
    BY <1>3 DEF IsLaidOut, Buffered, Sliding
  <2>2. c.buffers[a].cells \in Nat \ {0}
    BY <2>1 DEF Buffer
  <2>3. 0 % c.buffers[a].cells = 0
    BY <2>2
  <2> QED BY <2>1, <2>3
<1> QED BY <1>1, <1>2, <1>3 DEF Steady

(* Without shifting, what neither wraps nor has a phase stays.             *)
LEMMA NothingShifts ==
  ASSUME NEW c, NEW p, NEW a, NEW size, Buffered(p, a, c.buffers[a], size, c.advance[a]),
         IsBounded(p, a) => c.advance[a] = 0
  PROVE  KeptPerPeriod(c, a) /\ KeptByShift(c, a)
<1>1. KeptPerPeriod(c, a)
  BY DEF KeptPerPeriod, Buffered
<1>2. KeptByShift(c, a)
  <2>1. ~(c.buffers[a].shift.size > 0)
    BY DEF Buffered
  <2> QED BY <2>1 DEF KeptByShift
<1> QED BY <1>1, <1>2

(* Two elements each written before a read of the other are in conflict.   *)
LEMMA InConflict ==
  ASSUME NEW W, IsFiniteSet(W), NEW R, IsFiniteSet(R),
         \A c \in W \cup R : c[1] \in Int /\ c[2] \in Int,
         NEW v \in W, NEW w \in W, NEW r \in R, NEW x \in R,
         r[1] = v[1], x[1] = w[1], v[2] < x[2], w[2] < r[2]
  PROVE  Distance(v[1], w[1]) \in ConflictDistances(W, R)
<1> DEFINE first(y) == Min({u[2] : u \in {z \in W : z[1] = y}})
           last(y)  == Max({u[2] : u \in {z \in R : z[1] = y}})
           Life(y)  == <<y, first(y), last(y)>>
<1>1. ASSUME NEW A, IsFiniteSet(A), \A c \in A : c[1] \in Int /\ c[2] \in Int, NEW u \in A
      PROVE  LET K == {z[2] : z \in {y \in A : y[1] = u[1]}}
             IN  IsFiniteSet(K) /\ K \in SUBSET Int /\ u[2] \in K
  <2> DEFINE key == [z \in A |-> z[2]]
             B   == {y \in A : y[1] = u[1]}
             K   == {z[2] : z \in B}
  <2>1. B \in SUBSET A /\ u \in B
    BY <1>1
  <2>2. IsFiniteSet(B)
    <3> HIDE DEF B
    <3> QED BY <1>1, <2>1, FS_Subset
  <2>3. IsFiniteSet({key[z] : z \in B})
    <3> HIDE DEF B, key
    <3> QED BY <2>2, FiniteImage
  <2>4. {key[z] : z \in B} = K
    OBVIOUS
  <2>5. K \in SUBSET Int /\ u[2] \in K
    BY <1>1, <2>1
  <2> QED BY <2>3, <2>4, <2>5
<1>2. ASSUME NEW u \in W PROVE first(u[1]) \in Int /\ first(u[1]) <= u[2]
  <2> DEFINE K == {z[2] : z \in {y \in W : y[1] = u[1]}}
  <2>1. IsFiniteSet(K) /\ K \in SUBSET Int /\ u[2] \in K
    BY <1>1
  <2> HIDE DEF K
  <2>2. Min(K) \in K /\ \A z \in K : Min(K) <= z
    BY <2>1, MinIsLeast
  <2> QED BY <2>1, <2>2 DEF K
<1>3. ASSUME NEW u \in R PROVE last(u[1]) \in Int /\ u[2] <= last(u[1])
  <2> DEFINE K == {z[2] : z \in {y \in R : y[1] = u[1]}}
  <2>1. IsFiniteSet(K) /\ K \in SUBSET Int /\ u[2] \in K
    BY <1>1
  <2> HIDE DEF K
  <2>2. Max(K) \in K /\ \A z \in K : z <= Max(K)
    BY <2>1, MaxIsLargest
  <2> QED BY <2>1, <2>2 DEF K
<1>4. Lifetimes(W, R) = {Life(y) : y \in {u[1] : u \in W} \cap {u[1] : u \in R}}
  BY DEF Lifetimes
<1> HIDE DEF first, last
<1>5. /\ first(v[1]) < last(w[1]) /\ first(w[1]) < last(v[1])
  <2>1. first(v[1]) \in Int /\ first(v[1]) <= v[2] /\ first(w[1]) \in Int /\ first(w[1]) <= w[2]
    BY <1>2
  <2>2. last(v[1]) \in Int /\ r[2] <= last(v[1]) /\ last(w[1]) \in Int /\ x[2] <= last(w[1])
    BY <1>3
  <2>3. v[2] \in Int /\ w[2] \in Int /\ r[2] \in Int /\ x[2] \in Int
    OBVIOUS
  <2> QED BY <2>1, <2>2, <2>3
<1> DEFINE c == <<Life(v[1]), Life(w[1])>>
<1>6. v[1] \in {u[1] : u \in W} \cap {u[1] : u \in R}
  OBVIOUS
<1>7. w[1] \in {u[1] : u \in W} \cap {u[1] : u \in R}
  OBVIOUS
<1>8. Life(v[1]) \in Lifetimes(W, R) /\ Life(w[1]) \in Lifetimes(W, R)
  BY <1>4, <1>6, <1>7
<1>9. /\ c \in Lifetimes(W, R) \X Lifetimes(W, R)
      /\ c[1][1] = v[1] /\ c[2][1] = w[1] /\ c[1][2] < c[2][3] /\ c[2][2] < c[1][3]
  BY <1>5, <1>8
<1> HIDE DEF c
<1> QED BY <1>9 DEF ConflictDistances

(* What there is to know of a write of the code                            *)
LEMMA WriteParts ==
  ASSUME NEW p, NEW t, Framed(p, t), WithinArrays(p), NEW c, IsCode(c, p, t),
         NEW array, NEW v \in WritesOf(c, array)
  PROVE  /\ v[1] \in Nat /\ v[2] \in Int /\ v[3] \in Nat
         /\ v[4] \in DOMAIN CodeOf(c, v[3]) /\ v[2] = KeyAt(c, v[3], v[4])
         /\ Periodic(p) => v[2] < EndOf(p, t, v[3])
         /\ DOMAIN p.stmts # {}
         /\ v[2] < KeyOfTime(p, Horizon) => <<v[1], v[2]>> \in Written(p, array)
<1>1. PICK m \in Calls : \E j \in DOMAIN CodeOf(c, m) : \E n \in DOMAIN p.stmts, i \in Nat :
        IsWriteIn(c, p, t, array, v, m, j, n, i)
  BY WritesAreInCalls
<1>2. PICK j \in DOMAIN CodeOf(c, m) : \E n \in DOMAIN p.stmts, i \in Nat :
        IsWriteIn(c, p, t, array, v, m, j, n, i)
  BY <1>1
<1>3. PICK n \in DOMAIN p.stmts, i \in Nat : IsWriteIn(c, p, t, array, v, m, j, n, i)
  BY <1>2
<1>4. PICK b \in Writes(p.stmts[n]) : b.array = array /\ v = <<Index(b, i), KeyAt(c, m, j), m, j>>
  BY <1>3 DEF IsWriteIn
<1>5. IsSlot(c, p, t, m, j, n, i) /\ m \in Nat
  BY <1>3, CallsAre DEF IsWriteIn
<1>6. /\ KeyAt(c, m, j) \in Int /\ KeyAt(c, m, j) = Key(p, <<n, i>>)
      /\ Periodic(p) => KeyAt(c, m, j) < EndOf(p, t, m)
      /\ InDomain(i, p.stmts[n])
  BY <1>5, SlotKeys DEF IsSlot
<1>7. Index(b, i) \in Nat
  BY <1>6 DEF WithinArrays
<1>8. v[1] = Index(b, i) /\ v[2] = KeyAt(c, m, j) /\ v[3] = m /\ v[4] = j
  BY <1>4
<1>9. ASSUME v[2] < KeyOfTime(p, Horizon) PROVE <<v[1], v[2]>> \in Written(p, array)
  <2>1. /\ IsProgram(p) /\ IsScheduled(p) /\ i \in Int /\ Horizon \in Int
    BY HorizonAssumption DEF Framed
  <2>2. Time(p.stmts[n], i) < Horizon
    <3> SUFFICES ASSUME ~(Time(p.stmts[n], i) < Horizon) PROVE FALSE
      OBVIOUS
    <3>1. p.stmts[n].band = LastBand(p)
      BY <1>6, FarMembers
    <3>2. /\ Time(p.stmts[n], i) \in Int /\ KeyOfTime(p, Horizon) \in Int
          /\ Key(p, <<n, i>>) >= KeyOfTime(p, Horizon) <=> Time(p.stmts[n], i) >= Horizon
      BY <2>1, <3>1, KeyIs
    <3> QED BY <1>6, <1>8, <1>9, <2>1, <3>2
  <2>3. <<n, i>> \in Instances(p)
    BY <1>6, <2>1, <2>2, InstanceParts
  <2> DEFINE e == <<n, i>>
  <2>4. e[1] = n /\ e[2] = i /\ e \in Instances(p)
    BY <2>3
  <2> HIDE DEF e
  <2>5. b \in {a \in Writes(p.stmts[e[1]]) : a.array = array}
    BY <1>4, <2>4
  <2>6. <<Index(b, e[2]), Key(p, e)>> \in Written(p, array)
    BY <2>4, <2>5 DEF Written
  <2> QED BY <1>6, <1>8, <2>4, <2>6 DEF e
<1>10. DOMAIN p.stmts # {}
  OBVIOUS
<1> QED BY <1>2, <1>5, <1>6, <1>7, <1>8, <1>9, <1>10

(* The call that executes what has a key: CallOf, for any program          *)
CallFor(p, t, key) ==
  IF ~Periodic(p) \/ key < KeyOfTime(p, t.offset) THEN 0
  ELSE 1 + (key - KeyOfTime(p, t.offset)) \div (t.size * Len(p.stmts))

LEMMA CallBounds ==
  ASSUME NEW p, NEW t, Framed(p, t), Periodic(p), DOMAIN p.stmts # {},
         NEW m \in Nat, NEW key \in Int
  PROVE  CallFor(p, t, key) <= m <=> key < EndOf(p, t, m)
<1>1. PICK later \in Nat \ {0} : later = t.size * Len(p.stmts)
  <2>1. PICK z \in Nat \ {0}, len \in Nat \ {0} : z = t.size /\ len = Len(p.stmts)
    BY DEF Framed, IsProgram
  <2>2. z * len \in Nat \ {0}
    OBVIOUS
  <2> QED BY <2>1, <2>2
<1>2. PICK from \in Int : from = KeyOfTime(p, t.offset)
  <2>1. 0 \in Nat
    OBVIOUS
  <2>2. EndOf(p, t, 0) \in Int /\ EndOf(p, t, 0) = KeyOfTime(p, t.offset) + 0 * (t.size * Len(p.stmts))
    BY <2>1, EndsGrow
  <2>3. EndOf(p, t, 0) = KeyOfTime(p, t.offset)
    BY DEF EndOf, Framed
  <2> QED BY <2>2, <2>3
<1>3. EndOf(p, t, m) = from + m * later
  BY <1>1, <1>2, EndsGrow
<1>4. PICK ml \in Nat : ml = m * later
  OBVIOUS
<1>5. CASE key < from
  <2>1. CallFor(p, t, key) = 0
    BY <1>2, <1>5 DEF CallFor
  <2>2. key < from + ml
    BY <1>5
  <2> QED BY <1>3, <1>4, <2>1, <2>2
<1>6. CASE ~(key < from)
  <2>1. PICK d \in Nat : d = key - from
    BY <1>6
  <2>2. /\ d % later \in Nat /\ d % later < later /\ d \div later \in Nat
        /\ (d % later) + later * (d \div later) = d
    BY DivisionIs
  <2>3. PICK u \in Nat, w \in Nat : u = d \div later /\ w = d % later
    BY <2>2
  <2>4. CallFor(p, t, key) = 1 + u
    BY <1>1, <1>2, <1>6, <2>1, <2>3 DEF CallFor
  <2>5. w + later * u = d /\ w < later
    BY <2>2, <2>3
  <2>6. ASSUME 1 + u <= m PROVE d < ml
    <3>1. PICK l \in Nat : m = 1 + u + l
      <4>1. m - (1 + u) \in Nat /\ m = 1 + u + (m - (1 + u))
        BY <2>6
      <4> QED BY <4>1
    <3>2. (1 + u + l) * later = later + later * u + l * later /\ l * later >= 0
      OBVIOUS
    <3>3. PICK x \in Int, y \in Int : x = later * u /\ y = l * later
      OBVIOUS
    <3> QED BY <1>4, <2>5, <3>1, <3>2, <3>3
  <2>7. ASSUME ~(1 + u <= m) PROVE d >= ml
    <3>1. PICK l \in Nat : u = m + l
      <4>1. u - m \in Nat /\ u = m + (u - m)
        BY <2>7
      <4> QED BY <4>1
    <3>2. later * (m + l) = m * later + later * l /\ later * l >= 0
      OBVIOUS
    <3>3. PICK x \in Int : x = later * l
      OBVIOUS
    <3> QED BY <1>4, <2>5, <3>1, <3>2, <3>3
  <2>8. 1 + u <= m <=> d < ml
    BY <2>6, <2>7
  <2>9. d < ml <=> key < from + ml
    BY <2>1
  <2> QED BY <1>3, <1>4, <2>4, <2>8, <2>9
<1> QED BY <1>5, <1>6

(* Nothing is read out of the stack later than in the call that wrote it.  *)
IsTransient(p, t, array) ==
  \A r \in ReadOut(p, array) :
    \E w \in Written(p, array) : w[1] = r[1] /\ CallFor(p, t, w[2]) = CallFor(p, t, r[2])

LEMMA StackIsKept ==
  ASSUME NEW p, NEW t, Framed(p, t), WithinArrays(p), NEW c, IsCode(c, p, t), c.period # <<>>,
         NEW a, WrittenOnce(p, a), c.buffers[a].on_stack => IsTransient(p, t, a)
  PROVE  KeptPerCall(c, a)
<1> SUFFICES ASSUME IsTransient(p, t, a), NEW v \in WritesOf(c, a), NEW r \in ReadOut(p, a),
                    r[1] = v[1], NEW m \in 1..MaxPeriods, v[3] < m
             PROVE  r[2] < StartOf(c, m)
  BY ReadsAreReadOut DEF KeptPerCall
<1>1. m \in Nat \ {0} /\ m - 1 \in Nat
  BY KernelAssumption
<1>2. 1 \in DOMAIN CodeOf(c, m) /\ StartOf(c, m) = KeyAt(c, m, 1)
  <2>1. /\ Len(CodeOf(c, m)) \in Nat /\ DOMAIN CodeOf(c, m) = 1..Len(CodeOf(c, m))
        /\ CodeOf(c, m) # <<>> <=> Len(CodeOf(c, m)) # 0
        /\ CodeOf(c, m) = c.period
    BY <1>1, CallsAre
  <2> QED BY <2>1 DEF StartOf
<1>3. /\ v[1] \in Nat /\ v[2] \in Int /\ v[3] \in Nat
      /\ v[4] \in DOMAIN CodeOf(c, v[3]) /\ v[2] = KeyAt(c, v[3], v[4])
      /\ Periodic(p) => v[2] < EndOf(p, t, v[3])
      /\ DOMAIN p.stmts # {}
      /\ v[2] < KeyOfTime(p, Horizon) => <<v[1], v[2]>> \in Written(p, a)
  BY WriteParts
<1>4. PICK n \in DOMAIN p.stmts, i \in Nat : IsSlot(c, p, t, m, 1, n, i)
  BY <1>1, <1>2, SlotIs
<1>5. StartOf(c, m) \in Int /\ Periodic(p) /\ StartOf(c, m) >= EndOf(p, t, m - 1)
  BY <1>1, <1>2, <1>4, SlotKeys
<1>6. r[2] \in Int /\ r[2] < KeyOfTime(p, Horizon)
  BY WrittenFinite DEF Framed
<1>7. KeyOfTime(p, Horizon) \in Int
  <2>1. IsProgram(p) /\ 0 \in Int /\ Horizon \in Int
    BY HorizonAssumption DEF Framed
  <2> QED BY <2>1, KeyIs
<1>8. CASE ~(v[2] < KeyOfTime(p, Horizon))
  <2>1. v[2] < StartOf(c, m)
    BY <1>1, <1>2, <1>3, SlotsGrow
  <2> QED BY <1>3, <1>5, <1>6, <1>7, <1>8, <2>1
<1>9. CASE v[2] < KeyOfTime(p, Horizon)
  <2>1. <<v[1], v[2]>> \in Written(p, a)
    BY <1>3, <1>9
  <2>2. PICK w \in Written(p, a) : w[1] = r[1] /\ CallFor(p, t, w[2]) = CallFor(p, t, r[2])
    BY DEF IsTransient
  <2>3. w[2] = v[2]
    <3> DEFINE u == <<v[1], v[2]>>
    <3>1. u[1] = v[1] /\ u[2] = v[2] /\ u \in Written(p, a)
      BY <2>1
    <3> HIDE DEF u
    <3>2. w[2] = u[2]
      BY <2>2, <3>1 DEF WrittenOnce
    <3> QED BY <3>1, <3>2
  <2>4. CallFor(p, t, v[2]) <= v[3]
    BY <1>3, <1>5, CallBounds
  <2>5. CallFor(p, t, r[2]) <= v[3]
    BY <2>2, <2>3, <2>4
  <2>6. r[2] < EndOf(p, t, v[3])
    BY <1>3, <1>5, <1>6, <2>5, CallBounds
  <2>7. EndOf(p, t, v[3]) <= EndOf(p, t, m - 1) /\ EndOf(p, t, v[3]) \in Int /\ EndOf(p, t, m - 1) \in Int
    <3>1. v[3] <= m - 1
      BY <1>1, <1>3
    <3> QED BY <1>1, <1>3, <3>1, EndsGrow
  <2> QED BY <1>5, <1>6, <2>6, <2>7
<1> QED BY <1>8, <1>9

(* What is still needed at the end of a period lies where the last         *)
(* accesses of that period and the first of the next overlap, which is     *)
(* what a shift moves; where they do not, nothing is needed.               *)
LEMMA KeptWhileSliding ==
  ASSUME NEW p, NEW t, NEW c, NEW o, NEW a, Followed(p, t, c, o, a), IsCode(c, p, t),
         c.period # <<>>, NEW size, Sliding(p, t, a, c.buffers[a], size, c.advance[a])
  PROVE  KeptPerPeriod(c, a) /\ KeptByShift(c, a)
<1>1. /\ Framed(p, t) /\ IsProgram(p) /\ IsScheduled(p) /\ WithinArrays(p) /\ Periodic(p)
      /\ DOMAIN p.stmts # {}
  BY DEF Followed, Framed
<1>2. InPeriod(p, t, a) # {} /\ InReach(p, t, a) /\ c.buffers[a] \in Buffer
  BY DEF Sliding
<1>3. PICK f \in Nat, l \in Nat, d \in Nat :
        f = Lowest(p, t, a) /\ l = Highest(p, t, a) /\ d = c.advance[a]
  BY <1>1, <1>2, ElementsAreMany DEF Followed
<1>4. ASSUME NEW v \in WritesOf(c, a), NEW r \in ReadsOf(c, a), r[1] = v[1],
             NEW m \in 1..MaxPeriods, v[3] <= m
      PROVE  /\ v[1] \in Nat /\ m \in Nat \ {0} /\ r[2] \in Int /\ StartOf(c, m + 1) \in Int
             /\ r[2] >= StartOf(c, m + 1) => f + m * d <= v[1] /\ v[1] <= l + (m - 1) * d
  <2>1. m \in Nat \ {0} /\ m + 1 \in Nat \ {0} /\ m - 1 \in Nat
    BY KernelAssumption
  <2>2. 1 \in DOMAIN CodeOf(c, m + 1) /\ StartOf(c, m + 1) = KeyAt(c, m + 1, 1)
    <3>1. /\ Len(CodeOf(c, m + 1)) \in Nat /\ DOMAIN CodeOf(c, m + 1) = 1..Len(CodeOf(c, m + 1))
          /\ CodeOf(c, m + 1) # <<>> <=> Len(CodeOf(c, m + 1)) # 0
          /\ CodeOf(c, m + 1) = c.period
      BY <1>1, <2>1, CallsAre
    <3> QED BY <3>1 DEF StartOf
  <2>3. PICK n \in DOMAIN p.stmts, i \in Nat : IsSlot(c, p, t, m + 1, 1, n, i)
    BY <1>1, <2>1, <2>2, SlotIs
  <2>4. StartOf(c, m + 1) \in Int /\ StartOf(c, m + 1) >= EndOf(p, t, m)
    <3>1. KeyAt(c, m + 1, 1) \in Int /\ KeyAt(c, m + 1, 1) >= EndOf(p, t, (m + 1) - 1)
      BY <1>1, <2>1, <2>3, SlotKeys
    <3>2. (m + 1) - 1 = m
      BY <2>1
    <3> QED BY <2>2, <3>1, <3>2
  <2>5. /\ v[1] \in Nat /\ v[2] \in Int /\ v[3] \in Nat /\ v[2] < EndOf(p, t, v[3])
        /\ v[2] < KeyOfTime(p, Horizon) => <<v[1], v[2]>> \in Written(p, a)
    BY <1>1, WriteParts
  <2>6. r \in ReadOut(p, a) /\ r[1] \in Int /\ r[2] \in Int /\ r[2] < KeyOfTime(p, Horizon)
    BY <1>1, ReadsAreReadOut, WrittenFinite
  <2>7. r = <<r[1], r[2]>>
    BY <2>6 DEF ReadOut
  <2>8. KeyOfTime(p, Horizon) \in Int
    <3>1. 0 \in Int /\ Horizon \in Int
      BY HorizonAssumption
    <3> QED BY <1>1, <3>1, KeyIs
  <2>9. v[2] < EndOf(p, t, m) /\ EndOf(p, t, m) \in Int
    <3>1. /\ EndOf(p, t, v[3]) \in Int /\ EndOf(p, t, m) \in Int
          /\ EndOf(p, t, v[3]) <= EndOf(p, t, m)
      BY <1>1, <1>4, <2>1, <2>5, EndsGrow
    <3> QED BY <2>5, <3>1
  <2>10. ASSUME r[2] >= StartOf(c, m + 1)
         PROVE  f + m * d <= v[1] /\ v[1] <= l + (m - 1) * d
    <3>1. r[2] >= EndOf(p, t, m)
      BY <2>4, <2>6, <2>9, <2>10
    <3>2. r[1] >= f + m * d
      BY <1>2, <1>3, <2>1, <2>6, <2>7, <3>1, RangeOfPeriods
    <3>3. v[2] < KeyOfTime(p, Horizon)
      BY <2>5, <2>6, <2>8, <2>9, <3>1
    <3>4. <<v[1], v[2]>> \in Written(p, a)
      BY <2>5, <3>3
    <3>5. PICK j \in Nat : j = m - 1
      BY <2>1
    <3>6. v[2] < EndOf(p, t, j + 1)
      <4>1. j + 1 = m
        BY <2>1, <3>5
      <4> QED BY <2>9, <4>1
    <3>7. v[1] <= Highest(p, t, a) + j * c.advance[a]
      <4>1. v[1] \in Int /\ v[2] \in Int /\ <<v[1], v[2]>> \in Written(p, a) \cup ReadOut(p, a)
        BY <2>5, <3>4
      <4> QED BY <1>2, <3>6, <4>1, RangeOfPeriods
    <3>8. v[1] <= l + (m - 1) * d
      BY ONLY <1>3, <3>5, <3>7
    <3> QED BY <1>4, <3>2, <3>8
  <2> QED BY <2>1, <2>4, <2>5, <2>6, <2>10
<1> DEFINE overlap == l - (f + d) + 1
<1>5. KeptPerPeriod(c, a)
  <2> SUFFICES ASSUME ~c.buffers[a].has_phase,
                      NEW v \in WritesOf(c, a), NEW r \in ReadsOf(c, a), r[1] = v[1],
                      NEW m \in 1..MaxPeriods, v[3] <= m, ~(r[2] < StartOf(c, m + 1))
               PROVE  FALSE
    BY DEF KeptPerPeriod
  <2>1. overlap <= 0
    BY <1>3 DEF Sliding
  <2>2. /\ v[1] \in Nat /\ m \in Nat \ {0} /\ r[2] >= StartOf(c, m + 1)
        /\ f + m * d <= v[1] /\ v[1] <= l + (m - 1) * d
    BY <1>4
  <2>3. PICK md \in Nat : md = m * d
    BY <2>2
  <2>4. (m - 1) * d = md - d
    BY <2>2, <2>3
  <2> QED BY <2>1, <2>2, <2>3, <2>4
<1>6. KeptByShift(c, a)
  <2> DEFINE b    == c.buffers[a]
             dest == b.shift.source - b.shift.period_count * c.advance[a]
  <2> SUFFICES ASSUME b.has_phase
               PROVE  /\ dest >= 0 /\ b.cells # 1
                      /\ \A v \in WritesOf(c, a) : \A r \in {x \in ReadsOf(c, a) : x[1] = v[1]} :
                           \A m \in 1..MaxPeriods :
                             v[3] <= m /\ r[2] >= StartOf(c, m + 1) =>
                               /\ dest <= v[1] - m * c.advance[a]
                               /\ v[1] - m * c.advance[a] < dest + b.shift.size
    BY DEF KeptByShift
  <2>1. b.shift.size = overlap /\ b.shift.source = f + b.shift.period_count * d /\ b.cells # 1
    BY <1>3 DEF Sliding
  <2>2. dest = f
    <3>1. PICK count \in Nat : count = b.shift.period_count
      BY <1>2 DEF Buffer
    <3>2. PICK cd \in Nat : cd = count * d
      OBVIOUS
    <3> QED BY <1>3, <2>1, <3>1, <3>2
  <2>3. ASSUME NEW v \in WritesOf(c, a), NEW r \in ReadsOf(c, a), r[1] = v[1],
               NEW m \in 1..MaxPeriods, v[3] <= m, r[2] >= StartOf(c, m + 1)
        PROVE  f <= v[1] - m * c.advance[a] /\ v[1] - m * c.advance[a] < f + overlap
    <3>1. /\ v[1] \in Nat /\ m \in Nat \ {0}
          /\ f + m * d <= v[1] /\ v[1] <= l + (m - 1) * d
      BY <1>4, <2>3
    <3>2. PICK md \in Nat : md = m * d
      BY <3>1
    <3>3. (m - 1) * d = md - d
      BY <3>1, <3>2
    <3>4. m * c.advance[a] = md
      BY <1>3, <3>2
    <3>5. f + md <= v[1] /\ v[1] <= l + (md - d)
      BY <3>1, <3>2, <3>3
    <3>6. f <= v[1] - md /\ v[1] - md < f + overlap
      <4>1. PICK x \in Nat : x = v[1]
        BY <3>1
      <4> QED BY ONLY <3>5, <4>1
    <3> QED BY <3>4, <3>6
  <2> HIDE DEF dest, b, overlap
  <2> QED BY <2>1, <2>2, <2>3
<1> QED BY <1>5, <1>6

(* The horizon is also behind the last read of whatever is written while   *)
(* an element of prelude or first period is still to be read.              *)
LivesInSight(p, t) ==
  \A a \in Arrays(p) : \A v, w \in Written(p, a) : \A r \in ReadOut(p, a) :
    /\ ~Periodic(p) \/ v[2] < KeyOfTime(p, t.offset + t.size)
    /\ r[1] = v[1] /\ v[2] <= w[2] /\ w[2] < r[2]
    => \E x \in ReadOut(p, a) : x[1] = w[1] /\ w[2] < x[2]

(* What is written while an element is still to be read is in conflict     *)
(* with it, in any period because it is in the first.                      *)
LEMMA Together ==
  ASSUME NEW p, NEW t, Framed(p, t), MoveAlike(p), LivesInSight(p, t), DOMAIN p.stmts # {},
         NEW c, NEW o, IsTiled(c, p, t, o), NEW array \in Arrays(p), c.advance[array] \in Int,
         NEW v \in Int, NEW w \in Int, NEW kv \in Int, NEW kw \in Int, NEW kr \in Int,
         <<v, kv>> \in Written(p, array), <<w, kw>> \in Written(p, array),
         <<v, kr>> \in ReadOut(p, array), kv <= kw, kw < kr
  PROVE  Distance(v, w) \in ConflictDistances(Written(p, array), ReadOut(p, array))
<1> DEFINE W == Written(p, array)
           R == ReadOut(p, array)
           later == t.size * Len(p.stmts)
           from  == KeyOfTime(p, t.offset)
           moved == c.advance[array]
<1>1. IsProgram(p) /\ IsScheduled(p)
  BY DEF Framed
<1>2. /\ IsFiniteSet(W) /\ IsFiniteSet(R)
      /\ \A e \in W \cup R : e[1] \in Int /\ e[2] \in Int
  BY <1>1, WrittenFinite
<1> HIDE DEF W, R
<1>3. ASSUME NEW x \in Int, NEW y \in Int, NEW kx \in Int, NEW ky \in Int, NEW kz \in Int,
             <<x, kx>> \in W, <<y, ky>> \in W, <<x, kz>> \in R, kx <= ky, ky < kz,
             ~Periodic(p) \/ kx < KeyOfTime(p, t.offset + t.size)
      PROVE  Distance(x, y) \in ConflictDistances(W, R)
  <2>1. PICK a \in W, b \in W, r \in R : a = <<x, kx>> /\ b = <<y, ky>> /\ r = <<x, kz>>
    BY <1>3
  <2>2. a[1] = x /\ a[2] = kx /\ b[1] = y /\ b[2] = ky /\ r[1] = x /\ r[2] = kz
    BY <2>1
  <2>3. PICK u \in R : u[1] = b[1] /\ b[2] < u[2]
    BY <1>3, <2>2 DEF LivesInSight, W, R
  <2>4. a[2] < u[2] /\ b[2] < r[2] /\ r[1] = a[1]
    BY <1>2, <1>3, <2>2, <2>3
  <2>5. Distance(a[1], b[1]) \in ConflictDistances(W, R)
    BY <1>2, <2>3, <2>4, InConflict
  <2> QED BY <2>2, <2>5
<1>4. CASE ~Periodic(p) \/ kv < KeyOfTime(p, t.offset + t.size)
  BY <1>3, <1>4 DEF W, R
<1>5. CASE Periodic(p) /\ ~(kv < KeyOfTime(p, t.offset + t.size))
  <2>1. PICK l \in Nat \ {0} : l = later
    <3>1. PICK z \in Nat \ {0}, len \in Nat \ {0} : z = t.size /\ len = Len(p.stmts)
      BY DEF Framed, IsProgram
    <3>2. z * len \in Nat \ {0}
      OBVIOUS
    <3> QED BY <3>1, <3>2
  <2>2. PICK f \in Int : f = from /\ KeyOfTime(p, t.offset + t.size) = f + l
    <3>1. EndOf(p, t, 0) = from /\ EndOf(p, t, 1) = KeyOfTime(p, t.offset + t.size)
      BY DEF EndOf, Framed
    <3>2. 0 \in Nat /\ 1 \in Nat
      OBVIOUS
    <3>3. /\ EndOf(p, t, 0) \in Int
          /\ EndOf(p, t, 1) = from + 1 * later
      BY <3>2, EndsGrow
    <3> QED BY <2>1, <3>1, <3>3
  <2>3. PICK d \in Nat : d = kv - f
    BY <1>5, <2>1, <2>2
  <2>4. /\ d % l \in Nat /\ d % l < l /\ d \div l \in Nat /\ (d % l) + l * (d \div l) = d
    BY <2>1, DivisionIs
  <2>5. PICK q \in Nat, s \in Nat : q = d \div l /\ s = d % l
    BY <2>4
  <2>6. PICK lq \in Nat, mq \in Int : lq = l * q /\ mq = moved * q
    <3>1. PICK z \in Int : z = moved
      BY DEF Framed
    <3>2. z * q \in Int /\ l * q \in Nat
      BY ONLY z \in Int, q \in Nat, l \in Nat \ {0}
    <3> QED BY ONLY <3>1, <3>2, Zenon
  <2>7. s + lq = kv - f /\ s < l
    BY <2>3, <2>4, <2>5, <2>6
  <2>8. kv - lq >= f /\ kw - lq >= f /\ kr - lq >= f /\ kv - lq < f + l
    BY <2>7
  <2>9. ASSUME NEW acc, NEW x \in Int, NEW k \in Int, <<x, k>> \in Accessed(p, acc), k - lq >= f,
               \A n \in DOMAIN p.stmts : \A a \in acc[n] :
                 a \in Reads(p.stmts[n]) \cup Writes(p.stmts[n]) /\ a.array = array,
               \A e \in Accessed(p, acc) : e[1] \in Int /\ e[2] \in Int
        PROVE  <<x - mq, k - lq>> \in Accessed(p, acc)
    <3>1. k - (t.size * Len(p.stmts)) * q >= KeyOfTime(p, t.offset)
      BY <2>1, <2>2, <2>6, <2>9
    <3>2. <<x - moved * q, k - (t.size * Len(p.stmts)) * q>> \in Accessed(p, acc)
      BY <1>5, <2>9, <3>1, InEarlierPeriods
    <3> QED BY <2>1, <2>6, <3>2
  <2>10. /\ W = Accessed(p, WritersOf(p, array)) /\ R = Accessed(p, ReadersOf(p, array))
         /\ \A n \in DOMAIN p.stmts : \A a \in WritersOf(p, array)[n] :
              a \in Reads(p.stmts[n]) \cup Writes(p.stmts[n]) /\ a.array = array
         /\ \A n \in DOMAIN p.stmts : \A a \in ReadersOf(p, array)[n] :
              a \in Reads(p.stmts[n]) \cup Writes(p.stmts[n]) /\ a.array = array
    BY <1>1, AccessesOf DEF W, R
  <2>11. <<v - mq, kv - lq>> \in W /\ <<w - mq, kw - lq>> \in W
    <3>1. \A e \in W : e[1] \in Int /\ e[2] \in Int
      BY <1>2
    <3>2. <<v, kv>> \in W /\ <<w, kw>> \in W
      BY DEF W
    <3> QED BY <2>8, <2>9, <2>10, <3>1, <3>2
  <2>12. <<v - mq, kr - lq>> \in R
    <3>1. \A e \in R : e[1] \in Int /\ e[2] \in Int
      BY <1>2
    <3>2. <<v, kr>> \in R
      BY DEF R
    <3> QED BY <2>8, <2>9, <2>10, <3>1, <3>2
  <2>13. Distance(v - mq, w - mq) \in ConflictDistances(W, R)
    <3>1. PICK x \in Int, y \in Int : x = v - mq /\ y = w - mq
      BY <2>6
    <3>2. PICK kx \in Int, ky \in Int : kx = kv - lq /\ ky = kw - lq
      BY <2>6
    <3>3. PICK kz \in Int : kz = kr - lq
      BY <2>6
    <3>4. kx <= ky /\ ky < kz /\ kx < KeyOfTime(p, t.offset + t.size)
      BY <2>2, <2>8, <3>2, <3>3
    <3>5. <<x, kx>> \in W /\ <<y, ky>> \in W /\ <<x, kz>> \in R
      BY <2>11, <2>12, <3>1, <3>2, <3>3
    <3> QED BY <1>3, <3>1, <3>4, <3>5
  <2>14. Distance(v - mq, w - mq) = Distance(v, w)
    BY <2>6 DEF Distance
  <2> QED BY <2>13, <2>14 DEF W, R
<1> QED BY <1>4, <1>5

(* So the elements that live together have cells of their own.             *)
LEMMA CodeKeepsApart ==
  ASSUME NEW p, NEW t, Framed(p, t), WithinArrays(p), MoveAlike(p), LivesInSight(p, t),
         NEW c, IsCode(c, p, t), NEW o, IsTiled(c, p, t, o), NEW size, IsLaidOut(c, p, t, size),
         NEW a \in Arrays(p), size[a] = compute_buffer_size(p, t, a), size[a] # Unbounded
  PROVE  KeptApart(c, a)
<1> SUFFICES ASSUME c.buffers[a].wraps \/ c.buffers[a].cells = 1,
                    NEW v \in WritesOf(c, a), NEW r \in ReadOut(p, a), r[1] = v[1],
                    NEW w \in WritesOf(c, a), v[2] <= w[2], w[2] < r[2]
             PROVE  v[1] - w[1] < c.buffers[a].cells /\ w[1] - v[1] < c.buffers[a].cells
  BY ReadsAreReadOut DEF KeptApart
<1>1. /\ v[1] \in Nat /\ v[2] \in Int /\ DOMAIN p.stmts # {}
      /\ v[2] < KeyOfTime(p, Horizon) => <<v[1], v[2]>> \in Written(p, a)
      /\ w[1] \in Nat /\ w[2] \in Int
      /\ w[2] < KeyOfTime(p, Horizon) => <<w[1], w[2]>> \in Written(p, a)
  BY WriteParts
<1>2. IsProgram(p) /\ r[2] \in Int /\ r[2] < KeyOfTime(p, Horizon)
  BY WrittenFinite DEF Framed
<1>3. KeyOfTime(p, Horizon) \in Int
  <2>1. 0 \in Int /\ Horizon \in Int
    BY HorizonAssumption
  <2> QED BY <1>1, <1>2, <2>1, KeyIs
<1>4. v[2] < KeyOfTime(p, Horizon) /\ w[2] < KeyOfTime(p, Horizon)
  BY <1>1, <1>2, <1>3
<1>5. <<v[1], r[2]>> \in ReadOut(p, a)
  <2>1. PICK e \in Instances(p) : \E b \in Reads(p.stmts[e[1]]) : r = <<Index(b, e[2]), Key(p, e)>>
    BY DEF ReadOut
  <2>2. r = <<r[1], r[2]>>
    BY <2>1
  <2> QED BY <2>2
<1>6. c.advance[a] \in Int /\ Buffered(p, a, c.buffers[a], size[a], c.advance[a])
  BY DEF IsLaidOut, Sliding
<1>7. Distance(v[1], w[1]) \in ConflictDistances(Written(p, a), ReadOut(p, a))
  <2>1. v[1] \in Int /\ w[1] \in Int
    BY <1>1
  <2> QED BY <1>1, <1>2, <1>4, <1>5, <1>6, <2>1, Together
<1>8. Distance(v[1], w[1]) < size[a] /\ size[a] \in Nat
  BY <1>2, <1>7, DistancesWithinSize
<1>9. c.buffers[a].cells \in Nat /\ c.buffers[a].cells >= size[a]
  BY <1>6 DEF Buffered, Buffer
<1>10. /\ v[1] - w[1] <= Distance(v[1], w[1]) /\ w[1] - v[1] <= Distance(v[1], w[1])
       /\ Distance(v[1], w[1]) \in Int
  BY <1>1 DEF Distance
<1> QED BY <1>1, <1>8, <1>9, <1>10

-----------------------------------------------------------------------------
(* What the invariants of the passes say of the finished code              *)
LEMMA FramedWhenDone ==
  ASSUME DInv, Typed, TilingFound, stage = "done", InSight(prog, tiling), Accessing(prog)
  PROVE  /\ Framed(prog, tiling)
         /\ RespectsDataFlow(source) => RespectsDataFlow(prog)
<1>1. prog = DropUnread(source) /\ IsProgram(source) /\ IsScheduled(source)
  BY DEF DInv
<1>2. IsProgram(prog) /\ IsScheduled(prog) /\ (RespectsDataFlow(source) => RespectsDataFlow(prog))
  BY <1>1, DroppingKeepsProgram, DroppingKeepsSchedule, FlowKept
<1>3. tiling.offset \in Nat /\ tiling.size \in Nat \ {0}
  BY DEF Typed
<1>4. InfiniteBands(prog) \subseteq {LastBand(prog)}
  BY DEF TilingFound, InfiniteBandNotLast
<1>5. ASSUME Periodic(prog) PROVE AllStepOn(prog, tiling)
  <2>1. opt.period_offset \in Nat /\ opt.period_scale \in Nat \ {0}
    BY OptionsAssumption DEF Typed
  <2>2. tiling = find_periodic_tiling(AccessInfos(prog), opt)
    BY <1>5 DEF TilingFound, Analysed
  <2> QED BY <1>2, <2>1, <2>2, StepsGoOn
<1> QED BY <1>2, <1>3, <1>4, <1>5 DEF Framed

LEMMA CodeWhenDone ==
  ASSUME Typed, TilingFound, Coded, stage = "done"
  PROVE  IsCode(code, prog, tiling) /\ IsTiled(code, prog, tiling, opt)
<1>1. /\ code.prog = prog /\ code.period_size = tiling.size /\ code.advance = period
      /\ code.prelude = Prelude(prog, tiling) /\ code.period = Period(prog, tiling)
  BY DEF Coded, Generated
<1>2. opt.period_offset \in Nat /\ opt.period_scale \in Nat \ {0}
  BY OptionsAssumption DEF Typed
<1>3. IsTiled(code, prog, tiling, opt)
  BY <1>1, <1>2 DEF TilingFound, IsTiled
<1> QED BY <1>1, <1>3 DEF IsCode

(* The storage allocator has found a period that accesses each array that  *)
(* does not end.                                                           *)
Visited ==
  stage \in {"allocated", "timed", "done"} =>
    \A a \in Arrays(prog) : IsBounded(prog, a) \/ InPeriod(prog, tiling, a) # {}

LEMMA VisitedStep == (Init => Visited) /\ (Visited /\ [Next]_vars => Visited')
<1>1. Init => Visited
  BY DEF Init, Visited
<1>2. ASSUME Visited, [Next]_vars PROVE Visited'
  <2>1. CASE DropUnreadInstances \/ MakePeriodicSchedule
    <3>1. stage' \notin {"allocated", "timed", "done"}
      BY <2>1 DEF DropUnreadInstances, MakePeriodicSchedule
    <3> QED BY <3>1 DEF Visited
  <2>2. CASE ScheduleOutOfOrder \/ ScheduleNotSteady \/ AllocationFails
    <3>1. stage' \in Errors
      <4>1. \A a \in Arrays(prog) : ArrayError(a) # "none" => ArrayError(a) \in Errors
        BY DEF ArrayError, Errors
      <4> QED BY <2>2, <4>1
        DEF ScheduleOutOfOrder, ScheduleNotSteady, AllocationFails, Fail, Errors
    <3>2. stage' \notin {"allocated", "timed", "done"}
      BY <3>1 DEF Errors, NotLast, NotSteady, TooLong, NeverWritten, NotAccessed
    <3> QED BY <3>2 DEF Visited
  <2>3. CASE AllocateStorage
    <3>1. UNCHANGED <<prog, tiling>> /\ \A a \in Arrays(prog) : ArrayError(a) = "none"
      BY <2>3 DEF AllocateStorage
    <3>2. \A a \in Arrays(prog) : IsBounded(prog, a) \/ InPeriod(prog, tiling, a) # {}
      BY <3>1 DEF ArrayError, NeverWritten, TooLong, NotAccessed, IsBounded, InPeriod
    <3>3. /\ Arrays(prog)' = Arrays(prog)
          /\ \A a : /\ IsBounded(prog, a)' = IsBounded(prog, a)
                    /\ InPeriod(prog, tiling, a)' = InPeriod(prog, tiling, a)
      BY <3>1
    <3> QED BY <3>2, <3>3 DEF Visited
  <2>4. CASE ComputeIoLatencies \/ GenerateCode \/ UNCHANGED vars
    <3>1. /\ UNCHANGED <<prog, tiling>>
          /\ stage' \in {"allocated", "timed", "done"} => stage \in {"allocated", "timed", "done"}
      BY <2>4 DEF ComputeIoLatencies, GenerateCode, vars
    <3>2. /\ Arrays(prog)' = Arrays(prog)
          /\ \A a : /\ IsBounded(prog, a)' = IsBounded(prog, a)
                    /\ InPeriod(prog, tiling, a)' = InPeriod(prog, tiling, a)
      BY <3>1
    <3> QED BY <1>2, <3>1, <3>2 DEF Visited
  <2> QED BY <1>2, <2>1, <2>2, <2>3, <2>4 DEF Next
<1> QED BY <1>1, <1>2

LEMMA VisitedInPeriods ==
  ASSUME NEW p, IsProgram(p), NEW t, NEW array, InPeriod(p, t, array) # {}
  PROVE  Periodic(p) /\ DOMAIN p.stmts # {}
<1>1. PICK x \in InPeriod(p, t, array) : TRUE
  OBVIOUS
<1>2. PICK e \in Instances(p) : InFirstPeriod(p, t, e)
  BY <1>1 DEF InPeriod, AccessInPeriod, ElementsAccessed
<1>3. Periodic(p)
  BY <1>2 DEF InFirstPeriod, InPeriods
<1>4. e[1] \in 1..Len(p.stmts) /\ DOMAIN p.stmts = 1..Len(p.stmts)
  BY InstancesFinite DEF IsProgram
<1> QED BY <1>3, <1>4

(* Where data are shifted, the prelude accesses nothing beyond what the    *)
(* first period does.                                                      *)
PreludeInReach ==
  opt.buffer_data_shifting =>
    \A a \in Arrays(prog) :
      buffer_size[a] > 1 => IsBounded(prog, a) \/ InReach(prog, tiling, a)

LEMMA LaidOutWhenDone ==
  ASSUME DInv, CInv, Typed, TilingFound, Visited, Coded, stage = "done", MoveAlike(prog),
         Accessing(prog), WithinArrays(prog), InSight(prog, tiling), PreludeInReach
  PROVE  IsLaidOut(code, prog, tiling, buffer_size)
<1>1. IsProgram(prog) /\ IsScheduled(prog) /\ Framed(prog, tiling)
  BY FramedWhenDone DEF Framed
<1>2. /\ code = Generated(prog, tiling, period, buffer_size, opt)
      /\ code.advance = period /\ code.buffers = Layout(prog, tiling, period, buffer_size, opt)
  BY DEF Coded, Generated
<1>3. code.buffers = [a \in Arrays(prog) |-> code.buffers[a]]
  BY <1>2 DEF Layout
<1>4. code.advance = [a \in Arrays(prog) |-> code.advance[a]]
  BY <1>2 DEF TilingFound
<1>5. ASSUME NEW a \in Arrays(prog)
      PROVE  /\ \/ Buffered(prog, a, code.buffers[a], buffer_size[a], code.advance[a])
                \/ Sliding(prog, tiling, a, code.buffers[a], buffer_size[a], code.advance[a])
             /\ code.advance[a] \in Nat
             /\ IsBounded(prog, a) => code.advance[a] = 0
  <2>1. /\ opt \in Options /\ tiling = find_periodic_tiling(Analysed(prog), opt)
        /\ code.advance[a] = InterTileOffset(tiling, Analysed(prog), a)
        /\ InterTileOffset(tiling, Analysed(prog), a) # Inconsistent
    BY <1>2 DEF Typed, TilingFound
  <2>2. code.advance[a] \in Nat /\ (IsBounded(prog, a) => code.advance[a] = 0)
    BY <1>1, <2>1, MovedForward
  <2>3. PICK n \in Nat \ {0} : n = buffer_size[a]
    BY DEF Typed
  <2>4. CASE ~opt.buffer_data_shifting \/ IsBounded(prog, a) \/ n <= 1
    <3>1. PICK m \in Nat \ {0} : m = Rounded(n, opt) /\ m >= n
      <4>1. next_power_of_two(n) \in Nat /\ next_power_of_two(n) >= n
        BY RoundedUp
      <4>2. Rounded(n, opt) \in Nat \ {0} /\ Rounded(n, opt) >= n
        BY <4>1 DEF Rounded
      <4> QED BY <4>2
    <3>2. \/ IsPlain(prog, a, code.buffers[a], n)
          \/ IsWrapping(prog, a, code.buffers[a], m, code.advance[a])
          \/ IsBuffer(code.buffers[a], m, TRUE, TRUE)
      BY <1>2, <2>3, <2>4, <3>1, KindsOfBuffers
    <3>3. Buffered(prog, a, code.buffers[a], n, code.advance[a])
      BY <3>1, <3>2, BufferIs
    <3> QED BY <2>2, <2>3, <3>3
  <2>5. CASE opt.buffer_data_shifting /\ ~IsBounded(prog, a) /\ n > 1
    <3>1. InPeriod(prog, tiling, a) # {} /\ InReach(prog, tiling, a)
      BY <2>3, <2>5 DEF Visited, PreludeInReach
    <3>2. Followed(prog, tiling, code, opt, a)
      BY <1>1, <2>2, <3>1, CodeWhenDone, VisitedInPeriods DEF Followed
    <3>3. /\ buffer_size[a] = compute_buffer_size(prog, tiling, a) /\ buffer_size[a] # Unbounded
          /\ buffer_size[a] \in Nat /\ buffer_size[a] > 1 /\ period[a] = code.advance[a]
      BY <1>2, <2>3, <2>5 DEF CInv
    <3>4. Sliding(prog, tiling, a, code.buffers[a], buffer_size[a], code.advance[a])
      <4>1. Sliding(prog, tiling, a, Generated(prog, tiling, period, buffer_size, opt).buffers[a],
                    buffer_size[a], code.advance[a])
        BY <2>5, <3>1, <3>2, <3>3, SlidingIs
      <4> QED BY <1>2, <4>1
    <3> QED BY <2>2, <3>4
  <2>6. n <= 1 \/ n > 1
    OBVIOUS
  <2> QED BY <2>4, <2>5, <2>6
<1> QED BY <1>3, <1>4, <1>5 DEF IsLaidOut

(* Calls come in the order of the schedule, and execute all there is.      *)
LEMMA ExecutedAsScheduled ==
  ASSUME DInv, Typed, TilingFound, Coded, stage = "done",
         InSight(prog, tiling), Accessing(prog)
  PROVE  Ordered(code) /\ Whole(code) /\ (RespectsDataFlow(source) => Flows(code))
<1>1. Framed(prog, tiling) /\ (RespectsDataFlow(source) => RespectsDataFlow(prog))
  BY FramedWhenDone
<1>2. IsCode(code, prog, tiling)
  BY CodeWhenDone
<1> QED BY <1>1, <1>2, CodeIsOrdered, CodeIsWhole, CodeFlows

(* Whatever the options, also with shifting: prelude() and the period(),   *)
(* one after the other, execute every instance there is once, in the order *)
(* of the schedule, and each after those that wrote what it reads.         *)
THEOREM CodeFollowsTheSchedule ==
  Spec => [](stage = "done" /\ InSight(prog, tiling) /\ Accessing(prog)
             => Ordered(code) /\ Whole(code) /\ (RespectsDataFlow(source) => Flows(code)))
<1>1. DInv /\ Typed /\ TilingFound /\ Coded
        => (stage = "done" /\ InSight(prog, tiling) /\ Accessing(prog)
            => Ordered(code) /\ Whole(code) /\ (RespectsDataFlow(source) => Flows(code)))
  BY ExecutedAsScheduled
<1> QED BY <1>1, CodedStep, TilingStays, TypedFromTheStart, TypedStep, DroppedOnce, PTL DEF Spec

(* Elements stay where they are as long as they are needed.                *)
LEMMA NeededElementsStay ==
  ASSUME NEW p, NEW t, Framed(p, t), Accessing(p), WithinArrays(p), MoveAlike(p),
         LivesInSight(p, t), NEW c, IsCode(c, p, t), NEW o, IsTiled(c, p, t, o),
         NEW size, IsLaidOut(c, p, t, size),
         \A a \in Arrays(p) : /\ size[a] = compute_buffer_size(p, t, a) /\ size[a] # Unbounded
                              /\ WrittenOnce(p, a)
                              /\ c.buffers[a].on_stack => IsTransient(p, t, a)
  PROVE  Keeps(c)
<1>1. c.prog = p /\ IsProgram(p) /\ Ordered(c) /\ Steady(c)
  BY CodeIsOrdered, CodeIsSteady DEF IsCode, Framed
<1>2. ASSUME NEW a \in Arrays(p), NEW x \in WritesOf(c, a) \cup ReadsOf(c, a) PROVE x[1] \in Nat
  <2>1. CASE x \in WritesOf(c, a)
    BY <2>1, WriteParts
  <2>2. CASE x \in ReadOut(p, a)
    <3>1. PICK e \in Instances(p) : \E b \in Reads(p.stmts[e[1]]) : x = <<Index(b, e[2]), Key(p, e)>>
      BY <2>2 DEF ReadOut
    <3>2. PICK b \in Reads(p.stmts[e[1]]) : x = <<Index(b, e[2]), Key(p, e)>>
      BY <3>1
    <3>3. e[1] \in DOMAIN p.stmts /\ e[2] \in Nat /\ InDomain(e[2], p.stmts[e[1]])
      BY InstanceParts, HorizonAssumption DEF Framed
    <3>4. Index(b, e[2]) \in Nat
      BY <3>3 DEF WithinArrays
    <3> QED BY <3>2, <3>4
  <2> QED BY <1>2, <2>1, <2>2, ReadsAreReadOut
<1>3. ASSUME NEW a \in Arrays(p) PROVE KeptApart(c, a)
  BY CodeKeepsApart
<1>4. ASSUME NEW a \in Arrays(p), c.period # <<>> PROVE KeptPerCall(c, a)
  BY <1>4, StackIsKept
<1>5. ASSUME NEW a \in Arrays(p), c.period # <<>> PROVE KeptPerPeriod(c, a) /\ KeptByShift(c, a)
  <2>1. CASE Buffered(p, a, c.buffers[a], size[a], c.advance[a])
    BY <2>1, NothingShifts DEF IsLaidOut
  <2>2. CASE Sliding(p, t, a, c.buffers[a], size[a], c.advance[a])
    <3>1. Periodic(p) /\ DOMAIN p.stmts # {} /\ c.advance[a] \in Nat
      BY <2>2, VisitedInPeriods DEF IsLaidOut, Sliding, Framed
    <3>2. Followed(p, t, c, o, a)
      BY <3>1 DEF Followed
    <3> QED BY <1>5, <2>2, <3>2, KeptWhileSliding
  <2> QED BY <2>1, <2>2 DEF IsLaidOut
<1> QED BY <1>1, <1>2, <1>3, <1>4, <1>5 DEF Keeps

(* Programs and options for which the contract is proved to be kept:       *)
(* elements written once, before they are read, and within their arrays; a *)
(* horizon behind the first period and behind whatever lives on from it;   *)
(* and a prelude that stays within what is shifted.                        *)
Manageable ==
  /\ Sound(source) /\ MoveAlike(prog) /\ Accessing(prog) /\ WithinArrays(prog)
  /\ InSight(prog, tiling) /\ LivesInSight(prog, tiling)
  /\ PreludeInReach

CompilerInv == DInv /\ CInv /\ Typed /\ TilingFound /\ Visited /\ Coded

LEMMA ContractWhenDone ==
  ASSUME CompilerInv, stage = "done", Manageable
  PROVE  KeepsContract(code)
<1> USE DEF CompilerInv
<1>1. Framed(prog, tiling) /\ RespectsDataFlow(prog)
  BY FramedWhenDone DEF Sound, Manageable
<1>2. IsCode(code, prog, tiling) /\ IsTiled(code, prog, tiling, opt)
  BY CodeWhenDone
<1>3. IsLaidOut(code, prog, tiling, buffer_size)
  BY LaidOutWhenDone DEF Manageable
<1>4. WellFormed(code) /\ Fits(code) /\ Flows(code) /\ Whole(code)
  BY <1>1, <1>2, <1>3, CodeHasItsForm, CodeFits, CodeFlows, CodeIsWhole DEF Manageable
<1>5. ASSUME NEW a \in Arrays(prog)
      PROVE  /\ buffer_size[a] = compute_buffer_size(prog, tiling, a) /\ buffer_size[a] # Unbounded
             /\ WrittenOnce(prog, a)
             /\ code.buffers[a].on_stack => IsTransient(prog, tiling, a)
  <2>1. buffer_size[a] = compute_buffer_size(prog, tiling, a) /\ buffer_size[a] # Unbounded
    BY DEF CInv
  <2>2. WrittenOnce(prog, a)
    <3>1. prog = DropUnread(source) /\ IsProgram(source) /\ IsScheduled(source)
      BY DEF DInv
    <3>2. Arrays(prog) = Arrays(source)
      BY <3>1 DEF IsProgram, DropUnread, Arrays
    <3> QED BY <3>1, <3>2, StillWrittenOnce DEF Sound, Manageable
  <2>3. StackIsTransient
    BY FilledInTheSameCall DEF Manageable
  <2>4. \A key : CallFor(prog, tiling, key) = CallOf(key)
    BY DEF CallFor, CallOf
  <2>5. code.buffers[a].on_stack => IsTransient(prog, tiling, a)
    BY <2>3, <2>4 DEF StackIsTransient, IsTransient
  <2> QED BY <2>1, <2>2, <2>5
<1>6. Keeps(code)
  BY <1>1, <1>2, <1>3, <1>5, NeededElementsStay DEF Manageable
<1> QED BY <1>4, <1>6 DEF KeepsContract

LEMMA CompilerInvHolds == Spec => []CompilerInv
BY CompilerInit, CompilerStep, CodedStep, VisitedStep, TilingStays, TypedFromTheStart, TypedStep,
   DroppedOnce, PTL DEF Spec, CompilerInv

(* Whatever the schedule, the period and the options, the code that is     *)
(* generated keeps the contract with the class: buffers have room for all  *)
(* that is accessed in any period and phase, elements that live together   *)
(* keep apart in them, or are moved together, for ever although the        *)
(* allocator has looked no further than the horizon, and all of the        *)
(* instances are executed in their order.                                  *)
THEOREM CompilerKeepsTheContract ==
  Spec => [](stage = "done" /\ Manageable => KeepsContract(code))
<1>1. CompilerInv => (stage = "done" /\ Manageable => KeepsContract(code))
  BY ContractWhenDone
<1> QED BY <1>1, CompilerInvHolds, PTL

(* No buffer is smaller than what the storage allocator asks for, also     *)
(* those whose data are shifted, which get their size from the period's    *)
(* first and last element instead.                                         *)
THEOREM BuffersAreLargeEnough ==
  Spec => []((stage = "done" => Manageable) => TypeOK)
<1>1. ASSUME CompilerInv, stage = "done", Manageable, NEW a \in Arrays(prog)
      PROVE  code.buffers[a].cells >= buffer_size[a]
  <2>1. IsLaidOut(code, prog, tiling, buffer_size)
    BY <1>1, LaidOutWhenDone DEF CompilerInv, Manageable
  <2> QED BY <2>1 DEF IsLaidOut, Buffered, Sliding
<1>2. CompilerInv => ((stage = "done" => Manageable) => TypeOK)
  BY <1>1 DEF CompilerInv, Typed, TypeOK, Stages
<1> QED BY <1>2, CompilerInvHolds, PTL
-----------------------------------------------------------------------------
(* Latencies.  An endless statement has instances in every period from the *)
(* period's offset on, a whole number of them apart.                       *)
GoesOnFor(p, t, n, m) ==
  /\ m \in Nat \ {0} /\ p.stmts[n].rate * m = t.size
  /\ \A q \in Nat : \E i \in Nat :
       /\ InDomain(i, p.stmts[n])
       /\ Time(p.stmts[n], i) >= t.offset + t.size * q
       /\ Time(p.stmts[n], i) < t.offset + t.size * q + t.size
  /\ \A i \in Nat :
       InDomain(i, p.stmts[n]) /\ Time(p.stmts[n], i) >= t.offset + t.size =>
         /\ i - m \in Nat /\ InDomain(i - m, p.stmts[n])
         /\ Time(p.stmts[n], i - m) = Time(p.stmts[n], i) - t.size

LEMMA InEachPeriod ==
  ASSUME NEW p, IsProgram(p), IsScheduled(p),
         NEW t, t.offset \in Nat, t.size \in Nat \ {0}, AllStepOn(p, t),
         NEW n \in DOMAIN p.stmts, IsInfinite(p.stmts[n]), p.stmts[n].band = LastBand(p)
  PROVE  GoesOnFor(p, t, n, StepOf(p, t, n))
<1> DEFINE s == p.stmts[n]
<1>1. PICK g \in s.domain : g.last = Infinite
  BY DEF IsInfinite
<1>2. g \in Progression /\ Time(s, g.first) >= 0 /\ s.rate \in Nat \ {0} /\ s.start \in Int
  BY StatementParts
<1>3. PICK v \in Nat \ {0}, st \in Int, f \in Nat, k \in Nat \ {0} :
        v = s.rate /\ st = s.start /\ f = g.first /\ k = g.stride
  BY <1>2 DEF Progression
<1>4. PICK off \in Nat, z \in Nat \ {0} : off = t.offset /\ z = t.size
  OBVIOUS
<1>5. \A i \in Int : Time(s, i) = v * i + st
  BY <1>3 DEF Time
<1>6. InProgression(f, g)
  <2>1. f - f = k * 0
    BY <1>3
  <2>2. Divides(k, f - f)
    BY <2>1 DEF Divides
  <2> QED BY <1>1, <1>2, <1>3, <2>2, InProgressionIff
<1>7. PICK i \in Nat : InDomain(i, s) /\ Time(s, i) >= off
  <2>1. PICK d \in Nat : d = k * off
    OBVIOUS
  <2>2. InProgression(f + d, g)
    BY <1>1, <1>2, <1>3, <1>6, <2>1, GoesOn
  <2>3. d >= off
    <3>1. k * off = off + (k - 1) * off /\ (k - 1) * off >= 0
      OBVIOUS
    <3> QED BY <2>1, <3>1
  <2>4. v * d >= d
    <3>1. v * d = d + (v - 1) * d /\ (v - 1) * d >= 0
      OBVIOUS
    <3> QED BY <3>1
  <2>5. v * (f + d) = v * f + v * d
    OBVIOUS
  <2>6. PICK x \in Int, y \in Int : x = v * f /\ y = v * d
    OBVIOUS
  <2>7. x + st >= 0
    BY <1>2, <1>3, <1>5, <2>6
  <2>8. Time(s, f + d) = x + y + st
    BY <1>5, <2>5, <2>6
  <2>9. Time(s, f + d) >= off
    BY <2>3, <2>4, <2>6, <2>7, <2>8
  <2> QED BY <2>2, <2>9 DEF InDomain
<1>8. ASSUME NEW j \in Nat, InDomain(j, s), Time(s, j) >= off
      PROVE  StepsOn(p, t, n, j)
  BY <1>4, <1>8 DEF AllStepOn
<1>9. PICK m \in Nat \ {0} : m = StepOf(p, t, n) /\ v * m = z
  BY <1>3, <1>4, <1>7, <1>8 DEF StepsOn
<1>10. ASSUME NEW j \in Nat, InDomain(j, s), Time(s, j) >= off, NEW q \in Nat
       PROVE  /\ InDomain(j + q * m, s) /\ j + q * m \in Nat
              /\ Time(s, j + q * m) = Time(s, j) + z * q
              /\ Time(s, j - q * m) = Time(s, j) - z * q
              /\ Time(s, j) - z * q >= off => InDomain(j - q * m, s) /\ j - q * m \in Nat
  <2>1. PICK c \in Nat : c = q * m
    OBVIOUS
  <2>2. v * c = z * q
    <3>1. v * (q * m) = (v * m) * q
      OBVIOUS
    <3> QED BY <1>9, <2>1, <3>1
  <2>3. v * (j + c) = v * j + v * c /\ v * (j - c) = v * j - v * c
    OBVIOUS
  <2>4. PICK x \in Int, y \in Int : x = v * j /\ y = z * q
    OBVIOUS
  <2>5. Time(s, j + c) = Time(s, j) + y /\ Time(s, j - c) = Time(s, j) - y
    <3>1. /\ Time(s, j) = v * j + st /\ Time(s, j + c) = v * (j + c) + st
          /\ Time(s, j - c) = v * (j - c) + st
      <4>1. j \in Int /\ j + c \in Int /\ j - c \in Int
        OBVIOUS
      <4> QED BY <1>5, <4>1
    <3>2. PICK a \in Int, b \in Int : a = v * (j + c) /\ b = v * (j - c)
      OBVIOUS
    <3>3. a = x + y /\ b = x - y
      BY <2>2, <2>3, <2>4, <3>2
    <3> QED BY <2>4, <3>1, <3>2, <3>3
  <2>6. InDomain(j + c, s)
    BY <1>8, <1>9, <1>10, <2>1 DEF StepsOn
  <2>7. Time(s, j - c) >= off => InDomain(j - c, s) /\ j - c >= 0
    BY <1>4, <1>8, <1>9, <1>10, <2>1 DEF StepsOn
  <2> QED BY <2>1, <2>4, <2>5, <2>6, <2>7
<1>11. PICK j \in Nat : InDomain(j, s) /\ Time(s, j) >= off /\ Time(s, j) < off + z
  <2>1. PICK x \in Nat : x = Time(s, i) - off
    BY <1>5, <1>7
  <2>2. PICK q \in Nat, r \in Nat : x = r + z * q /\ r < z
    BY DivisionIs
  <2>3. PICK c \in Nat : c = z * q
    OBVIOUS
  <2>4. Time(s, i) - z * q = off + r
    <3>1. PICK u \in Int : u = Time(s, i)
      BY <1>5
    <3> QED BY <2>1, <2>2, <2>3, <3>1
  <2>5. InDomain(i - q * m, s) /\ i - q * m \in Nat /\ Time(s, i - q * m) = off + r
    BY <1>7, <1>10, <2>4
  <2> QED BY <2>2, <2>5
<1>12. ASSUME NEW q \in Nat
       PROVE  \E l \in Nat : /\ InDomain(l, s) /\ Time(s, l) >= off + z * q
                             /\ Time(s, l) < off + z * q + z
  <2>1. PICK y \in Nat : y = z * q
    OBVIOUS
  <2>2. Time(s, j) \in Int
    BY <1>5
  <2>3. PICK l \in Nat : l = j + q * m
    OBVIOUS
  <2>4. InDomain(l, s) /\ Time(s, l) = Time(s, j) + y
    BY <1>10, <1>11, <2>1, <2>3
  <2>5. Time(s, l) >= off + y /\ Time(s, l) < off + y + z
    BY <1>11, <2>2, <2>4
  <2> QED BY <2>1, <2>4, <2>5
<1>13. ASSUME NEW l \in Nat, InDomain(l, s), Time(s, l) >= off + z
       PROVE  l - m \in Nat /\ InDomain(l - m, s) /\ Time(s, l - m) = Time(s, l) - z
  <2>1. Time(s, l) \in Int
    BY <1>5
  <2>2. 1 * m = m /\ z * 1 = z
    OBVIOUS
  <2>3. Time(s, l) >= off /\ Time(s, l) - z >= off
    BY <1>13, <2>1
  <2> QED BY <1>10, <1>13, <2>2, <2>3
<1> HIDE DEF s
<1>14. GoesOnFor(p, t, n, m)
  BY <1>3, <1>4, <1>9, <1>12, <1>13 DEF GoesOnFor, s
<1> QED BY <1>9, <1>14

(* Inputs and outputs move on in their arrays, element by element.         *)
OneWayStreams(p) ==
  /\ Inputs(p) \cap Outputs(p) = {}
  /\ \A n \in Inputs(p) \cup Outputs(p) :
       \A a \in Reads(p.stmts[n]) \cup Writes(p.stmts[n]) : a.mul = 1

LEMMA StreamsMove ==
  ASSUME NEW p, IsProgram(p), IsScheduled(p), Accessing(p), MoveAlike(p),
         NEW o, o.period_offset \in Nat, o.period_scale \in Nat \ {0},
         NEW t, t = find_periodic_tiling(AccessInfos(p), o),
         t.offset \in Nat, t.size \in Nat \ {0}, AllStepOn(p, t),
         NEW n \in DOMAIN p.stmts, IsInfinite(p.stmts[n]), p.stmts[n].band = LastBand(p),
         \A a \in Reads(p.stmts[n]) \cup Writes(p.stmts[n]) : a.mul = 1,
         InterTileOffset(t, AccessInfos(p), ArrayOf(p, n)) # Inconsistent
  PROVE  /\ ArrayOf(p, n) \in Arrays(p)
         /\ GoesOnFor(p, t, n, InterTileOffset(t, AccessInfos(p), ArrayOf(p, n)))
<1> DEFINE s == p.stmts[n]
           a == CHOOSE b \in Reads(s) \cup Writes(s) : TRUE
           infos == AccessInfos(p)
           moved == InterTileOffset(t, infos, ArrayOf(p, n))
           m == StepOf(p, t, n)
<1>1. a \in Reads(s) \cup Writes(s) /\ a.array \in Arrays(p) /\ ArrayOf(p, n) = a.array
  BY DEF Accessing, ArrayOf
<1>2. a.mul = 1
  BY <1>1
<1>3. GoesOnFor(p, t, n, m)
  BY InEachPeriod
<1>4. PICK i \in Nat : InDomain(i, s) /\ Time(s, i) >= t.offset
  <2>1. 0 \in Nat /\ t.offset + t.size * 0 = t.offset
    OBVIOUS
  <2> QED BY <1>3, <2>1 DEF GoesOnFor
<1> HIDE DEF a
<1>5. PICK d \in Nat : MovesBy(p, t, infos, n, a, i, d)
  <2>1. InterTileOffset(t, infos, a.array) # Inconsistent /\ infos = AccessInfos(p)
        /\ t = find_periodic_tiling(infos, o)
    BY <1>1
  <2> HIDE DEF infos
  <2> QED BY <1>1, <1>4, <2>1, MovesOn
<1>6. a.mul * d = moved /\ s.rate * d = t.size
  BY <1>1, <1>5 DEF MovesBy
<1>7. d = moved
  BY <1>2, <1>6
<1>8. m = d
  <2>1. PICK v \in Nat \ {0} : v = s.rate
    BY StatementParts
  <2>2. m \in Nat /\ v * m = v * d
    BY <1>3, <1>6, <2>1 DEF GoesOnFor
  <2> HIDE DEF m
  <2> QED BY <2>1, <2>2, Cancelled
<1> HIDE DEF moved, m, infos
<1>9. GoesOnFor(p, t, n, moved)
  BY <1>3, <1>7, <1>8
<1> QED BY <1>1, <1>9 DEF moved, infos
(* How far the input is ahead of the output, in each pair of an instance   *)
(* of the one and a later instance of the other, before a key              *)
InAndOut(p, in, out, until) == {e \in Instances(p) : e[1] \in {in, out} /\ Key(p, e) < until}
PairsBefore(p, in, out, until) ==
  {c \in InAndOut(p, in, out, until) \X InAndOut(p, in, out, until) :
     c[1][1] = in /\ c[2][1] = out /\ Key(p, c[1]) < Key(p, c[2])}
Leads(p, period_of, in, out, until) ==
  {c[1][2] - Expected(p, period_of, in, out, c[2][2]) : c \in PairsBefore(p, in, out, until)}

LEMMA LatencyIs ==
  ASSUME NEW p, NEW t, NEW period_of, NEW in, NEW out
  PROVE  LET near == Max(Leads(p, period_of, in, out, KeyOfTime(p, Horizon - t.size)))
             far  == Max(Leads(p, period_of, in, out, KeyOfTime(p, Horizon)))
         IN  LatencyOf(p, t, period_of, in, out) = IF far > near THEN -1 ELSE far
BY DEF LatencyOf, Leads, PairsBefore, InAndOut

IsPair(p, in, out, until, i, o) ==
  /\ <<in, i>> \in Instances(p) /\ <<out, o>> \in Instances(p)
  /\ Key(p, <<in, i>>) < Key(p, <<out, o>>) /\ Key(p, <<out, o>>) < until

LEMMA LeadsAre ==
  ASSUME NEW p, IsProgram(p), IsScheduled(p), NEW period_of, NEW in, NEW out, NEW until \in Int
  PROVE  /\ \A i, o \in Nat : IsPair(p, in, out, until, i, o) =>
              i - Expected(p, period_of, in, out, o) \in Leads(p, period_of, in, out, until)
         /\ \A x \in Leads(p, period_of, in, out, until) : \E i, o \in Nat :
              IsPair(p, in, out, until, i, o) /\ x = i - Expected(p, period_of, in, out, o)
         /\ IsFiniteSet(Leads(p, period_of, in, out, until))
<1>1. ASSUME NEW i \in Nat, NEW o \in Nat, IsPair(p, in, out, until, i, o)
      PROVE  i - Expected(p, period_of, in, out, o) \in Leads(p, period_of, in, out, until)
  <2> DEFINE c == <<<<in, i>>, <<out, o>>>>
  <2>1. Key(p, <<in, i>>) \in Int /\ Key(p, <<out, o>>) \in Int
    BY <1>1, KeyBound DEF IsPair
  <2>2. Key(p, <<in, i>>) < until /\ Key(p, <<out, o>>) < until
    BY <1>1, <2>1 DEF IsPair
  <2>3. <<in, i>> \in InAndOut(p, in, out, until) /\ <<out, o>> \in InAndOut(p, in, out, until)
    BY <1>1, <2>2 DEF InAndOut, IsPair
  <2>4. c[1] = <<in, i>> /\ c[2] = <<out, o>> /\ c[1][1] = in /\ c[2][1] = out
        /\ c[1][2] = i /\ c[2][2] = o
    OBVIOUS
  <2>5. c \in InAndOut(p, in, out, until) \X InAndOut(p, in, out, until)
    BY <2>3
  <2> HIDE DEF c
  <2>6. c \in PairsBefore(p, in, out, until)
    BY <1>1, <2>4, <2>5 DEF PairsBefore, IsPair
  <2> QED BY <2>4, <2>6 DEF Leads
<1>2. ASSUME NEW x \in Leads(p, period_of, in, out, until)
      PROVE  \E i, o \in Nat : IsPair(p, in, out, until, i, o)
                                 /\ x = i - Expected(p, period_of, in, out, o)
  <2>1. PICK c \in PairsBefore(p, in, out, until) :
          x = c[1][2] - Expected(p, period_of, in, out, c[2][2])
    BY DEF Leads
  <2>2. /\ c[1] \in Instances(p) /\ c[2] \in Instances(p) /\ c[1][1] = in /\ c[2][1] = out
        /\ Key(p, c[1]) < Key(p, c[2]) /\ Key(p, c[2]) < until
    BY DEF PairsBefore, InAndOut
  <2>3. PICK i \in Nat, o \in Nat : c[1] = <<in, i>> /\ c[2] = <<out, o>>
    <3>1. /\ c[1] = <<c[1][1], c[1][2]>> /\ c[1][2] \in 0..(2 * Horizon)
          /\ c[2] = <<c[2][1], c[2][2]>> /\ c[2][2] \in 0..(2 * Horizon)
      BY <2>2, InstanceParts
    <3> QED BY <2>2, <3>1
  <2>4. x = i - Expected(p, period_of, in, out, o)
    BY <2>1, <2>3
  <2> QED BY <2>2, <2>3, <2>4 DEF IsPair
<1>3. IsFiniteSet(Leads(p, period_of, in, out, until))
  <2> DEFINE P == PairsBefore(p, in, out, until)
             f == [c \in P |-> c[1][2] - Expected(p, period_of, in, out, c[2][2])]
  <2>1. IsFiniteSet(InAndOut(p, in, out, until))
    BY InstancesFinite, FS_Subset DEF InAndOut
  <2>2. IsFiniteSet(InAndOut(p, in, out, until) \X InAndOut(p, in, out, until))
    BY <2>1, FS_Product
  <2>3. IsFiniteSet(P)
    BY <2>2, FS_Subset DEF PairsBefore
  <2>4. Leads(p, period_of, in, out, until) = {f[c] : c \in P}
    BY DEF Leads
  <2> HIDE DEF f, P
  <2> QED BY <2>3, <2>4, FiniteImage
<1> QED BY <1>1, <1>2, <1>3

(* A period earlier, the output's elements correspond to those of the      *)
(* input a period earlier.                                                 *)
LEMMA ExpectedEarlier ==
  ASSUME NEW a \in Nat, NEW b \in Nat \ {0}, NEW o \in Nat, o - b \in Nat
  PROVE  (o * a) \div b = ((o - b) * a) \div b + a /\ ((o - b) * a) \div b \in Nat
<1>1. PICK c \in Nat : c = o - b
  OBVIOUS
<1>2. PICK n \in Nat : n = c * a
  OBVIOUS
<1>3. PICK q \in Nat, r \in Nat : q = n \div b /\ n = r + b * q /\ r < b
  BY DivisionIs
<1>4. o * a = n + b * a
  <2>1. (c + b) * a = c * a + b * a
    OBVIOUS
  <2> QED BY <1>1, <1>2, <2>1
<1>5. b * (q + a) = b * q + b * a
  OBVIOUS
<1>6. PICK x \in Nat, y \in Nat, w \in Nat : x = b * q /\ y = b * a /\ w = b * (q + a)
  OBVIOUS
<1>7. PICK m \in Nat : m = o * a
  OBVIOUS
<1>8. m = b * (q + a) + r
  BY <1>3, <1>4, <1>5, <1>6, <1>7
<1>9. m \div b = q + a
  <2>1. q + a \in Nat
    OBVIOUS
  <2> QED BY <1>3, <1>8, <2>1, QuotientIs, Zenon
<1> QED BY <1>1, <1>2, <1>3, <1>7, <1>9

(* With three periods in sight, looking a period less far finds pairs in   *)
(* which the input is as far ahead.                                        *)
LEMMA LeadsSettle ==
  ASSUME NEW p, IsProgram(p), IsScheduled(p),
         NEW t, t.offset \in Nat, t.size \in Nat \ {0}, t.offset + 3 * t.size <= Horizon,
         NEW in \in DOMAIN p.stmts, NEW out \in DOMAIN p.stmts,
         p.stmts[in].band = LastBand(p), p.stmts[out].band = LastBand(p),
         NEW period_of,
         GoesOnFor(p, t, in, period_of[ArrayOf(p, in)]),
         GoesOnFor(p, t, out, period_of[ArrayOf(p, out)])
  PROVE  LET near == Leads(p, period_of, in, out, KeyOfTime(p, Horizon - t.size))
             far  == Leads(p, period_of, in, out, KeyOfTime(p, Horizon))
         IN  /\ near # {} /\ near \subseteq Int /\ far # {} /\ far \subseteq Int
             /\ \A x \in far : \E y \in near : x <= y
<1> DEFINE u == KeyOfTime(p, Horizon - t.size)
           h == KeyOfTime(p, Horizon)
           near == Leads(p, period_of, in, out, u)
           far == Leads(p, period_of, in, out, h)
<1>1. PICK off \in Nat, z \in Nat \ {0}, a \in Nat \ {0}, b \in Nat \ {0} :
        /\ off = t.offset /\ z = t.size
        /\ a = period_of[ArrayOf(p, in)] /\ b = period_of[ArrayOf(p, out)]
  BY DEF GoesOnFor
<1>2. \A o \in Nat : Expected(p, period_of, in, out, o) = (o * a) \div b
  BY <1>1 DEF Expected
<1>3. \A o \in Nat : Expected(p, period_of, in, out, o) \in Nat
  <2>1. ASSUME NEW o \in Nat PROVE (o * a) \div b \in Nat
    <3>1. PICK n \in Nat : n = o * a
      OBVIOUS
    <3> QED BY <3>1, DivisionIs
  <2> QED BY <1>2, <2>1
<1>4. PICK mid \in Int : mid = off + z
  OBVIOUS
<1>5. ASSUME NEW n \in {in, out}, NEW i \in Int
      PROVE  /\ Time(p.stmts[n], i) \in Int /\ Key(p, <<n, i>>) \in Int
             /\ KeyOfTime(p, mid) \in Int /\ u \in Int /\ h \in Int
             /\ Key(p, <<n, i>>) >= KeyOfTime(p, mid) <=> Time(p.stmts[n], i) >= off + z
             /\ Key(p, <<n, i>>) >= u <=> Time(p.stmts[n], i) >= Horizon - z
             /\ Key(p, <<n, i>>) >= h <=> Time(p.stmts[n], i) >= Horizon
  <2>1. n \in DOMAIN p.stmts /\ p.stmts[n].band = LastBand(p)
    OBVIOUS
  <2>2. Horizon \in Int /\ Horizon - t.size \in Int
    BY <1>1, HorizonAssumption
  <2> QED BY <1>1, <1>4, <2>1, <2>2, KeyIs
<1>14. off + z + z + z <= Horizon /\ Horizon \in Int
  <2>1. off + 3 * z <= Horizon
    BY <1>1
  <2> QED BY <2>1, HorizonAssumption
<1>15. \A i \in Int : Time(p.stmts[in], i) \in Int /\ Time(p.stmts[out], i) \in Int
  BY <1>5
<1> HIDE DEF u, h
<1>6. ASSUME NEW until \in {u, h}, NEW x \in Leads(p, period_of, in, out, until)
      PROVE  x \in Int
  <2>1. until \in Int
    BY <1>5
  <2>2. PICK i \in Nat, o \in Nat : x = i - Expected(p, period_of, in, out, o)
    BY <2>1, LeadsAre
  <2> QED BY <1>3, <2>2
<1>7. u \in Int /\ h \in Int
  BY <1>5
<1>8. ASSUME NEW i \in Nat, InDomain(i, p.stmts[in]), NEW o \in Nat, InDomain(o, p.stmts[out]),
             Key(p, <<in, i>>) < Key(p, <<out, o>>), Time(p.stmts[out], o) < Horizon - z
      PROVE  IsPair(p, in, out, u, i, o)
  <2>1. Key(p, <<out, o>>) < u
    BY <1>5, <1>8, HorizonAssumption
  <2>2. Time(p.stmts[in], i) < Horizon
    BY <1>1, <1>5, <1>8, <2>1, HorizonAssumption
  <2>3. Time(p.stmts[out], o) < Horizon
    BY <1>5, <1>8, HorizonAssumption
  <2>4. <<in, i>> \in Instances(p) /\ <<out, o>> \in Instances(p)
    BY <1>8, <2>2, <2>3, InstanceParts
  <2> QED BY <1>8, <2>1, <2>4 DEF IsPair
<1>9. near # {}
  <2>1. PICK i \in Nat : InDomain(i, p.stmts[in]) /\ Time(p.stmts[in], i) < off + z
    <3>1. 0 \in Nat /\ t.offset + t.size * 0 + t.size = off + z
      BY <1>1
    <3> QED BY <3>1 DEF GoesOnFor
  <2>2. PICK o \in Nat : /\ InDomain(o, p.stmts[out]) /\ Time(p.stmts[out], o) >= off + z
                         /\ Time(p.stmts[out], o) < off + z + z
    <3>1. 1 \in Nat /\ t.offset + t.size * 1 + t.size = off + z + z
          /\ t.offset + t.size * 1 = off + z
      BY <1>1
    <3> QED BY <3>1 DEF GoesOnFor
  <2>3. Key(p, <<in, i>>) < Key(p, <<out, o>>)
    <3>1. ~(Key(p, <<in, i>>) >= KeyOfTime(p, mid)) /\ Key(p, <<out, o>>) >= KeyOfTime(p, mid)
      BY <1>5, <2>1, <2>2
    <3> QED BY <1>5, <3>1
  <2>4. Time(p.stmts[out], o) < Horizon - z
    <3>1. PICK v \in Int : v = Time(p.stmts[out], o)
      BY <1>15
    <3> QED BY <1>14, <2>2, <3>1
  <2>5. IsPair(p, in, out, u, i, o)
    BY <1>8, <2>1, <2>2, <2>3, <2>4
  <2> QED BY <1>7, <2>5, LeadsAre
<1>10. ASSUME NEW x \in far PROVE \E y \in near : x <= y
  <2>1. PICK i \in Nat, o \in Nat :
          IsPair(p, in, out, h, i, o) /\ x = i - Expected(p, period_of, in, out, o)
    BY <1>7, LeadsAre
  <2>2. /\ InDomain(i, p.stmts[in]) /\ InDomain(o, p.stmts[out])
        /\ Key(p, <<in, i>>) < Key(p, <<out, o>>)
    <3>1. \A e \in Instances(p) : InDomain(e[2], p.stmts[e[1]])
      BY InstanceParts
    <3> QED BY <2>1, <3>1 DEF IsPair
  <2>3. PICK y \in Nat : y = Expected(p, period_of, in, out, o)
    BY <1>3
  <2>6. PICK v \in Int, v1 \in Int : v = Time(p.stmts[out], o) /\ v1 = Time(p.stmts[in], i)
    BY <1>15
  <2>4. CASE Time(p.stmts[out], o) < Horizon - z
    <3>1. IsPair(p, in, out, u, i, o)
      BY <1>8, <2>2, <2>4
    <3>2. x \in near
      BY <1>7, <2>1, <3>1, LeadsAre
    <3> QED BY <2>1, <2>3, <3>2
  <2>5. CASE Time(p.stmts[out], o) >= Horizon - z
    <3>1. Time(p.stmts[out], o) >= off + z + z
      BY <1>14, <2>5, <2>6
    <3>2. /\ o - b \in Nat /\ InDomain(o - b, p.stmts[out])
          /\ Time(p.stmts[out], o - b) = Time(p.stmts[out], o) - z
      <4>1. Time(p.stmts[out], o) >= t.offset + t.size
        BY <1>1, <2>6, <3>1
      <4>2. \A l \in Nat :
              InDomain(l, p.stmts[out]) /\ Time(p.stmts[out], l) >= t.offset + t.size =>
                /\ l - b \in Nat /\ InDomain(l - b, p.stmts[out])
                /\ Time(p.stmts[out], l - b) = Time(p.stmts[out], l) - t.size
        BY <1>1 DEF GoesOnFor
      <4> QED BY <1>1, <2>2, <4>1, <4>2
    <3>3. Time(p.stmts[out], o) < Horizon
      BY <2>1, <1>5, HorizonAssumption DEF IsPair
    <3>4. Time(p.stmts[out], o - b) < Horizon - z /\ Time(p.stmts[out], o - b) >= off + z
      BY <1>14, <2>6, <3>1, <3>2, <3>3
    <3>5. PICK w \in Nat : w = Expected(p, period_of, in, out, o - b) /\ y = w + a
      <4>1. /\ (o * a) \div b = ((o - b) * a) \div b + a
            /\ ((o - b) * a) \div b \in Nat
        BY <3>2, ExpectedEarlier
      <4> QED BY <1>2, <2>3, <3>2, <4>1
    <3>6. CASE Time(p.stmts[in], i) < off + z
      <4>1. ~(Key(p, <<in, i>>) >= KeyOfTime(p, mid))
            /\ Key(p, <<out, o - b>>) >= KeyOfTime(p, mid)
        BY <1>5, <3>2, <3>4, <3>6
      <4>2. Key(p, <<in, i>>) < Key(p, <<out, o - b>>)
        BY <1>5, <3>2, <4>1
      <4>3. IsPair(p, in, out, u, i, o - b)
        BY <1>8, <2>2, <3>2, <3>4, <4>2
      <4>4. i - w \in near
        BY <1>7, <3>2, <3>5, <4>3, LeadsAre
      <4>5. x <= i - w
        BY <2>1, <2>3, <3>5
      <4> QED BY <4>4, <4>5
    <3>7. CASE Time(p.stmts[in], i) >= off + z
      <4>1. i - a \in Nat /\ InDomain(i - a, p.stmts[in])
        BY <1>1, <2>2, <3>7 DEF GoesOnFor
      <4>2. Key(p, <<in, i - a>>) < Key(p, <<out, o - b>>)
        <5>1. p.stmts[in].rate * a = z /\ p.stmts[out].rate * b = z
          BY <1>1 DEF GoesOnFor
        <5>2. PICK r \in Nat \ {0}, r1 \in Nat \ {0}, len \in Nat :
                r = p.stmts[in].rate /\ r1 = p.stmts[out].rate /\ len = Len(p.stmts)
          BY StatementParts DEF IsProgram
        <5>3. PICK k \in Int, l \in Int, k1 \in Int, l1 \in Int :
                /\ k = Key(p, <<in, i>>) /\ l = Key(p, <<out, o>>)
                /\ k1 = Key(p, <<in, i - a>>) /\ l1 = Key(p, <<out, o - b>>)
          BY <1>5, <3>2, <4>1
        <5>4. PICK c \in Int : c = z * len
          OBVIOUS
        <5>5. Key(p, <<in, (i - a) + a>>) = Key(p, <<in, i - a>>) + r * a * len
          BY <4>1, <5>2, KeyMoves
        <5>6. Key(p, <<out, (o - b) + b>>) = Key(p, <<out, o - b>>) + r1 * b * len
          BY <3>2, <5>2, KeyMoves
        <5>7. (i - a) + a = i /\ (o - b) + b = o
          OBVIOUS
        <5>8. k = k1 + c /\ l = l1 + c
          BY <5>1, <5>2, <5>3, <5>4, <5>5, <5>6, <5>7
        <5> QED BY <2>2, <5>3, <5>8
      <4>3. IsPair(p, in, out, u, i - a, o - b)
        BY <1>8, <3>2, <3>4, <4>1, <4>2
      <4>4. (i - a) - w \in near
        BY <1>7, <3>2, <3>5, <4>1, <4>3, LeadsAre
      <4>5. x <= (i - a) - w
        BY <2>1, <2>3, <3>5
      <4> QED BY <4>4, <4>5
    <3>8. v1 < off + z \/ v1 >= off + z
      OBVIOUS
    <3> QED BY <2>6, <3>6, <3>7, <3>8
  <2>7. v < Horizon - z \/ v >= Horizon - z
    BY <1>14
  <2> QED BY <2>4, <2>5, <2>6, <2>7
<1>11. far # {}
  <2>1. PICK x \in near : TRUE
    BY <1>9
  <2>2. PICK i \in Nat, o \in Nat :
          IsPair(p, in, out, u, i, o) /\ x = i - Expected(p, period_of, in, out, o)
    BY <1>7, LeadsAre
  <2>3. Key(p, <<out, o>>) < h
    BY <2>2, KeyBound DEF IsPair, h
  <2>4. IsPair(p, in, out, h, i, o)
    BY <2>2, <2>3 DEF IsPair
  <2> QED BY <1>7, <2>4, LeadsAre
<1>12. near \subseteq Int /\ far \subseteq Int
  BY <1>6
<1> HIDE DEF near, far
<1>13. near # {} /\ near \subseteq Int /\ far # {} /\ far \subseteq Int
       /\ \A x \in far : \E y \in near : x <= y
  BY <1>9, <1>10, <1>11, <1>12
<1> QED BY <1>13 DEF near, far, u, h
LEMMA LatencyBounds ==
  ASSUME NEW p, IsProgram(p), IsScheduled(p),
         NEW t, t.offset \in Nat, t.size \in Nat \ {0}, t.offset + 3 * t.size <= Horizon,
         NEW in \in DOMAIN p.stmts, NEW out \in DOMAIN p.stmts,
         p.stmts[in].band = LastBand(p), p.stmts[out].band = LastBand(p),
         NEW period_of,
         GoesOnFor(p, t, in, period_of[ArrayOf(p, in)]),
         GoesOnFor(p, t, out, period_of[ArrayOf(p, out)])
  PROVE  /\ LatencyOf(p, t, period_of, in, out) \in Int
         /\ \A x \in Leads(p, period_of, in, out, KeyOfTime(p, Horizon)) :
              x <= LatencyOf(p, t, period_of, in, out)
<1> DEFINE near == Leads(p, period_of, in, out, KeyOfTime(p, Horizon - t.size))
           far  == Leads(p, period_of, in, out, KeyOfTime(p, Horizon))
<1>1. /\ near # {} /\ near \subseteq Int /\ far # {} /\ far \subseteq Int
      /\ \A x \in far : \E y \in near : x <= y
  BY LeadsSettle
<1>2. IsFiniteSet(near) /\ IsFiniteSet(far)
  <2>1. Horizon \in Int /\ Horizon - t.size \in Int /\ 0 \in Int
    BY HorizonAssumption
  <2>2. KeyOfTime(p, Horizon - t.size) \in Int /\ KeyOfTime(p, Horizon) \in Int
    BY <2>1, KeyIs
  <2> QED BY <2>2, LeadsAre
<1>3. LatencyOf(p, t, period_of, in, out) = IF Max(far) > Max(near) THEN -1 ELSE Max(far)
  BY LatencyIs
<1> HIDE DEF near, far
<1>4. Max(far) \in Int /\ Max(far) \in far /\ \A x \in far : x <= Max(far)
  BY <1>1, <1>2, MaxIsLargest
<1>5. Max(near) \in Int /\ \A x \in near : x <= Max(near)
  BY <1>1, <1>2, MaxIsLargest
<1>6. ~(Max(far) > Max(near))
  <2>1. PICK y \in near : Max(far) <= y
    BY <1>1, <1>4
  <2>2. y \in Int /\ y <= Max(near)
    BY <1>1, <1>5, <2>1
  <2> QED BY <1>4, <1>5, <2>1, <2>2
<1> QED BY <1>3, <1>4, <1>6 DEF far

(* The last element of an input that an instance needs is the last that    *)
(* those need who write what it reads.                                     *)
Suppliers(p, e) ==
  {w \in Instances(p) : \E a \in Reads(p.stmts[e[1]]) : \E b \in Writes(p.stmts[w[1]]) :
     b.array = a.array /\ Index(b, w[2]) = Index(a, e[2])}
LastOf(p, n, f, e) ==
  IF e[1] = n THEN e[2] ELSE Max({-1} \cup {f[w] : w \in Suppliers(p, e)})

LEMMA LastIs ==
  ASSUME NEW p, IsProgram(p), IsScheduled(p), NEW n, NEW f, NEW e \in Instances(p),
         \A w \in Suppliers(p, e) : f[w] \in Int
  PROVE  /\ LastOf(p, n, f, e) \in Int
         /\ \/ e[1] = n /\ LastOf(p, n, f, e) = e[2]
            \/ LastOf(p, n, f, e) = -1
            \/ \E w \in Suppliers(p, e) : LastOf(p, n, f, e) = f[w]
<1> DEFINE S == {f[w] : w \in Suppliers(p, e)}
<1>1. e[2] \in Int
  BY InstancesFinite
<1>2. IsFiniteSet({-1} \cup S)
  <2>1. IsFiniteSet(Suppliers(p, e))
    BY InstancesFinite, FS_Subset DEF Suppliers
  <2>2. IsFiniteSet(S)
    BY <2>1, FiniteImage
  <2>3. IsFiniteSet({-1})
    BY FS_Singleton
  <2> HIDE DEF S
  <2> QED BY <2>2, <2>3, FS_Union
<1>3. {-1} \cup S \in SUBSET Int /\ {-1} \cup S # {}
  OBVIOUS
<1>4. Max({-1} \cup S) \in {-1} \cup S
  <2> HIDE DEF S
  <2> QED BY <1>2, <1>3, MaxIsLargest
<1>5. Max({-1} \cup S) \in Int /\ (Max({-1} \cup S) = -1 \/ Max({-1} \cup S) \in S)
  <2> HIDE DEF S
  <2> QED BY <1>3, <1>4
<1>6. CASE e[1] = n
  BY <1>1, <1>6 DEF LastOf
<1>7. CASE e[1] # n
  <2>1. LastOf(p, n, f, e) = Max({-1} \cup S)
    BY <1>7 DEF LastOf
  <2> QED BY <1>5, <2>1
<1> QED BY <1>6, <1>7

(* Schedules of isl: whoever supplies an instance comes before it.         *)
InTurn(p) == \A e \in Instances(p) : \A w \in Suppliers(p, e) : Key(p, w) < Key(p, e)

LEMMA KeyNatural ==
  ASSUME NEW p, IsProgram(p), IsScheduled(p), NEW e \in Instances(p)
  PROVE  Key(p, e) \in Nat
<1>1. PICK n \in DOMAIN p.stmts, i \in Nat : e = <<n, i>> /\ InDomain(i, p.stmts[n])
  <2>1. /\ e[1] \in DOMAIN p.stmts /\ e[2] \in 0..(2 * Horizon) /\ e = <<e[1], e[2]>>
        /\ InDomain(e[2], p.stmts[e[1]])
    BY InstanceParts
  <2> QED BY <2>1, HorizonAssumption
<1>2. PICK g \in p.stmts[n].domain : InProgression(i, g)
  BY <1>1 DEF InDomain
<1>3. /\ g \in Progression /\ Time(p.stmts[n], g.first) >= 0
      /\ p.stmts[n].rate \in Nat \ {0} /\ p.stmts[n].start \in Int /\ p.stmts[n].band \in Nat
  BY StatementParts
<1>4. PICK v \in Nat \ {0}, s \in Int, f \in Nat, b \in Nat :
        v = p.stmts[n].rate /\ s = p.stmts[n].start /\ f = g.first /\ b = p.stmts[n].band
  BY <1>3 DEF Progression
<1>5. PICK u \in Nat : u = Time(p.stmts[n], i)
  <2>1. i >= f
    BY <1>2, <1>4 DEF InProgression
  <2>2. PICK d \in Nat : i = f + d
    <3>1. i - f \in Nat /\ i = f + (i - f)
      BY <2>1
    <3> QED BY <3>1
  <2>3. v * i = v * f + v * d /\ v * d \in Nat
    BY <2>2
  <2>4. PICK x \in Int, y \in Nat : x = v * f /\ y = v * d
    BY <2>3
  <2>5. Time(p.stmts[n], i) = x + y + s /\ x + s >= 0
    BY <1>3, <1>4, <2>3, <2>4 DEF Time
  <2> QED BY <2>4, <2>5
<1>6. PICK len \in Nat : len = Len(p.stmts) /\ n \in 1..len
  BY DEF IsProgram
<1>7. PICK z \in Nat : z = 2 * Horizon * b
  <2>1. PICK hz \in Nat : hz = 2 * Horizon
    BY HorizonAssumption
  <2> QED BY <2>1
<1>8. Key(p, e) = (z + u) * len + n - 1
  BY <1>1, <1>4, <1>5, <1>6, <1>7 DEF Key
<1>9. PICK c \in Nat : c = (z + u) * len
  OBVIOUS
<1>10. Key(p, e) = c + (n - 1) /\ n - 1 \in Nat
  BY <1>6, <1>8, <1>9
<1> QED BY <1>10

LEMMA LatestExists ==
  ASSUME NEW p, IsProgram(p), IsScheduled(p), InTurn(p), NEW n
  PROVE  \E f : f = [e \in Instances(p) |-> LastOf(p, n, f, e)]
<1> DEFINE Until(k) == {e \in Instances(p) : Key(p, e) < k}
           Solves(g, k) == /\ g \in [Until(k) -> Int]
                           /\ \A e \in Until(k) : g[e] = LastOf(p, n, g, e)
           Bad == {k \in Nat : \A g : ~Solves(g, k)}
<1>1. ASSUME NEW e \in Instances(p) PROVE Key(p, e) \in Nat
  BY KeyNatural
<1>2. ASSUME NEW e \in Instances(p), NEW w \in Suppliers(p, e)
      PROVE  w \in Instances(p) /\ Key(p, w) < Key(p, e)
  BY DEF Suppliers, InTurn
<1>3. ASSUME NEW e, NEW f, NEW g, \A w \in Suppliers(p, e) : f[w] = g[w]
      PROVE  LastOf(p, n, f, e) = LastOf(p, n, g, e)
  <2>1. {f[w] : w \in Suppliers(p, e)} = {g[w] : w \in Suppliers(p, e)}
    BY <1>3
  <2> QED BY <2>1 DEF LastOf
<1>4. Bad = {}
  <2> SUFFICES ASSUME Bad # {} PROVE FALSE
    OBVIOUS
  <2>1. PICK m \in Bad : \A k \in Nat : k < m => k \notin Bad
    <3>1. Bad \in SUBSET Nat
      OBVIOUS
    <3> HIDE DEF Bad
    <3> QED BY <3>1, LeastOf
  <2>2. m \in Nat /\ \A g : ~Solves(g, m)
    OBVIOUS
  <2>3. CASE m = 0
    <3> DEFINE g == [e \in Until(0) |-> 0]
    <3>1. Until(0) = {}
      BY <1>1
    <3>2. Solves(g, 0)
      BY <3>1
    <3> HIDE DEF Solves
    <3> QED BY <2>2, <2>3, <3>2
  <2>4. CASE m # 0
    <3>1. PICK l \in Nat : l = m - 1
      BY <2>2, <2>4
    <3>2. l \notin Bad
      <4> HIDE DEF Bad
      <4> QED BY <2>1, <2>2, <3>1
    <3>3. PICK g : Solves(g, l)
      <4> HIDE DEF Solves
      <4> QED BY <3>2
    <3> DEFINE h == [e \in Until(m) |-> IF e \in Until(l) THEN g[e] ELSE LastOf(p, n, g, e)]
    <3>4. ASSUME NEW e \in Until(m)
          PROVE  \A w \in Suppliers(p, e) : w \in Until(l) /\ w \in Until(m)
      BY <1>1, <1>2, <2>2, <3>1
    <3>5. \A e \in Until(l) : e \in Until(m)
      BY <1>1, <2>2, <3>1
    <3> HIDE DEF Until
    <3>6. \A e \in Until(m) : e \in Instances(p)
      BY DEF Until
    <3>7. ASSUME NEW e \in Until(m) PROVE h[e] = LastOf(p, n, g, e) /\ h[e] \in Int
      <4>1. \A w \in Suppliers(p, e) : g[w] \in Int
        BY <3>3, <3>4
      <4>2. LastOf(p, n, g, e) \in Int
        BY <3>6, <4>1, LastIs
      <4>3. e \in Until(l) => g[e] = LastOf(p, n, g, e)
        BY <3>3
      <4> QED BY <4>2, <4>3
    <3>8. \A e \in Until(l) : h[e] = g[e]
      BY <3>5
    <3>9. h \in [Until(m) -> Int]
      <4>1. \A e \in Until(m) : h[e] \in Int
        BY <3>7
      <4>2. h = [e \in Until(m) |-> h[e]]
        OBVIOUS
      <4> HIDE DEF h
      <4> QED BY <4>1, <4>2
    <3> HIDE DEF h
    <3>10. ASSUME NEW e \in Until(m) PROVE h[e] = LastOf(p, n, h, e)
      <4>1. \A w \in Suppliers(p, e) : g[w] = h[w]
        BY <3>4, <3>8
      <4>2. LastOf(p, n, g, e) = LastOf(p, n, h, e)
        BY <1>3, <4>1
      <4> QED BY <3>7, <4>2
    <3>11. Solves(h, m)
      BY <3>9, <3>10
    <3> HIDE DEF Solves
    <3> QED BY <2>2, <3>11
  <2> QED BY <2>3, <2>4
<1>5. PICK k \in Nat : Until(k) = Instances(p)
  <2> DEFINE keys == {Key(p, e) : e \in Instances(p)}
  <2>1. keys \in SUBSET Int
    BY <1>1
  <2>2. IsFiniteSet(keys)
    <3> DEFINE f == [e \in Instances(p) |-> Key(p, e)]
    <3>1. IsFiniteSet(Instances(p)) /\ keys = {f[e] : e \in Instances(p)}
      BY InstancesFinite
    <3> HIDE DEF f, keys
    <3> QED BY <3>1, FiniteImage
  <2>3. PICK b \in Int : \A x \in keys : x <= b
    <3> HIDE DEF keys
    <3> QED BY <2>1, <2>2, FiniteIsBounded
  <2>4. \A e \in Instances(p) : Key(p, e) <= b
    BY <2>3
  <2>5. PICK k \in Nat : k > b
    <3>1. CASE b >= 0
      <4>1. b + 1 \in Nat /\ b + 1 > b
        BY <3>1
      <4> QED BY <4>1
    <3>2. CASE b < 0
      <4>1. 0 \in Nat /\ 0 > b
        BY <3>2
      <4> QED BY <4>1
    <3> QED BY <3>1, <3>2
  <2>6. \A e \in Instances(p) : Key(p, e) < k
    BY <1>1, <2>4, <2>5
  <2> QED BY <2>6
<1>6. PICK f : Solves(f, k)
  <2> HIDE DEF Solves
  <2> QED BY <1>4
<1>7. f = [e \in Instances(p) |-> f[e]] /\ \A e \in Instances(p) : f[e] = LastOf(p, n, f, e)
  BY <1>5, <1>6
<1>8. f = [e \in Instances(p) |-> LastOf(p, n, f, e)]
  <2> HIDE DEF Solves, Until
  <2> QED BY <1>7
<1> QED BY <1>8
LEMMA LatestEquation ==
  ASSUME NEW p, IsProgram(p), IsScheduled(p), InTurn(p), NEW n
  PROVE  LatestNeeded(p, n) = [e \in Instances(p) |-> LastOf(p, n, LatestNeeded(p, n), e)]
<1> DEFINE Of(e, a) == {w \in Instances(p) : \E b \in Writes(p.stmts[w[1]]) :
                          b.array = a.array /\ Index(b, w[2]) = Index(a, e[2])}
           All(f, e) == UNION {{f[w] : w \in Of(e, a)} : a \in Reads(p.stmts[e[1]])}
           Solves(f) == f = [e \in Instances(p) |->
                               IF e[1] = n THEN e[2] ELSE Max({-1} \cup All(f, e))]
<1>1. LatestNeeded(p, n) = CHOOSE f : Solves(f)
  BY DEF LatestNeeded
<1>2. ASSUME NEW f
      PROVE  Solves(f) <=> f = [e \in Instances(p) |-> LastOf(p, n, f, e)]
  <2>1. ASSUME NEW e PROVE All(f, e) = {f[w] : w \in Suppliers(p, e)}
    <3>1. ASSUME NEW x \in All(f, e) PROVE x \in {f[w] : w \in Suppliers(p, e)}
      <4>1. PICK a \in Reads(p.stmts[e[1]]) : x \in {f[w] : w \in Of(e, a)}
        BY <3>1
      <4>2. PICK w \in Of(e, a) : x = f[w]
        BY <4>1
      <4>3. w \in Suppliers(p, e)
        BY <4>2 DEF Suppliers
      <4> QED BY <4>2, <4>3
    <3>2. ASSUME NEW w \in Suppliers(p, e) PROVE f[w] \in All(f, e)
      <4>1. PICK a \in Reads(p.stmts[e[1]]) : w \in Of(e, a)
        BY DEF Suppliers
      <4> HIDE DEF Of
      <4> QED BY <4>1
    <3> HIDE DEF All
    <3> QED BY <3>1, <3>2
  <2> HIDE DEF All
  <2>2. ASSUME NEW e
        PROVE  (IF e[1] = n THEN e[2] ELSE Max({-1} \cup All(f, e))) = LastOf(p, n, f, e)
    BY <2>1, Zenon DEF LastOf
  <2>3. [e \in Instances(p) |-> IF e[1] = n THEN e[2] ELSE Max({-1} \cup All(f, e))]
          = [e \in Instances(p) |-> LastOf(p, n, f, e)]
    BY <2>2, Zenon
  <2> QED BY <2>3
<1> HIDE DEF Solves
<1>3. \E f : Solves(f)
  BY <1>2, LatestExists
<1>4. Solves(LatestNeeded(p, n))
  BY <1>1, <1>3
<1> QED BY <1>2, <1>4

LEMMA NeededBefore ==
  ASSUME NEW p, IsProgram(p), IsScheduled(p), InTurn(p), NEW n,
         NEW needed, needed = LatestNeeded(p, n), NEW e \in Instances(p)
  PROVE  /\ needed[e] \in Int
         /\ needed[e] >= 0 =>
              <<n, needed[e]>> \in Instances(p) /\ Key(p, <<n, needed[e]>>) <= Key(p, e)
<1> DEFINE Known(d) == /\ needed[d] \in Int
                       /\ needed[d] >= 0 => /\ <<n, needed[d]>> \in Instances(p)
                                            /\ Key(p, <<n, needed[d]>>) <= Key(p, d)
           Bad == {Key(p, d) : d \in {c \in Instances(p) : ~Known(c)}}
<1>1. \A d \in Instances(p) : needed[d] = LastOf(p, n, needed, d)
  BY LatestEquation
<1>2. Bad \in SUBSET Nat
  BY KeyNatural
<1>3. Bad = {}
  <2> SUFFICES ASSUME Bad # {} PROVE FALSE
    OBVIOUS
  <2>1. PICK k \in Bad : \A l \in Nat : l < k => l \notin Bad
    <3> HIDE DEF Bad
    <3> QED BY <1>2, LeastOf
  <2>2. PICK d \in Instances(p) : ~Known(d) /\ k = Key(p, d)
    OBVIOUS
  <2>3. ASSUME NEW w \in Suppliers(p, d)
        PROVE  w \in Instances(p) /\ Known(w) /\ Key(p, w) \in Int /\ Key(p, w) < Key(p, d)
    <3>1. w \in Instances(p) /\ Key(p, w) < Key(p, d)
      BY <2>2 DEF Suppliers, InTurn
    <3>2. Key(p, w) \in Nat
      BY <3>1, KeyNatural
    <3>3. Key(p, w) \notin Bad
      <4> HIDE DEF Bad
      <4> QED BY <2>1, <2>2, <3>1, <3>2
    <3>4. Known(w)
      <4> HIDE DEF Known
      <4> QED BY <3>1, <3>3
    <3> HIDE DEF Known
    <3> QED BY <3>1, <3>2, <3>4
  <2>4. Key(p, d) \in Int
    BY KeyNatural
  <2>5. /\ LastOf(p, n, needed, d) \in Int
        /\ \/ d[1] = n /\ LastOf(p, n, needed, d) = d[2]
           \/ LastOf(p, n, needed, d) = -1
           \/ \E w \in Suppliers(p, d) : LastOf(p, n, needed, d) = needed[w]
    <3>1. \A w \in Suppliers(p, d) : needed[w] \in Int
      BY <2>3
    <3> HIDE DEF Known, Bad
    <3> QED BY <3>1, LastIs
  <2>6. needed[d] = LastOf(p, n, needed, d) /\ needed[d] \in Int
    BY <1>1, <2>5
  <2>7. CASE d[1] = n /\ needed[d] = d[2]
    <3>1. d = <<n, needed[d]>>
      BY <2>7, InstanceParts
    <3> QED BY <2>2, <2>4, <2>6, <3>1
  <2>8. CASE needed[d] = -1
    BY <2>2, <2>8
  <2>9. ASSUME NEW w \in Suppliers(p, d), needed[d] = needed[w] PROVE FALSE
    <3>1. Known(w) /\ Key(p, w) \in Int /\ Key(p, w) < Key(p, d)
      BY <2>3
    <3>2. ASSUME needed[d] >= 0
          PROVE  <<n, needed[d]>> \in Instances(p) /\ Key(p, <<n, needed[d]>>) <= Key(p, d)
      <4>1. <<n, needed[d]>> \in Instances(p) /\ Key(p, <<n, needed[d]>>) <= Key(p, w)
        BY <2>9, <3>1, <3>2
      <4>2. Key(p, <<n, needed[d]>>) \in Int
        BY <4>1, KeyNatural
      <4> QED BY <2>4, <3>1, <4>1, <4>2
    <3> QED BY <2>2, <2>6, <3>2
  <2> HIDE DEF Known, Bad
  <2> QED BY <2>5, <2>6, <2>7, <2>8, <2>9
<1> QED BY <1>3

LEMMA SuppliedInTurn ==
  ASSUME NEW p, IsProgram(p), IsScheduled(p), Accessing(p), Sound(p)
  PROVE  InTurn(p)
<1> SUFFICES ASSUME NEW e \in Instances(p), NEW w \in Suppliers(p, e)
             PROVE  Key(p, w) < Key(p, e)
  BY DEF InTurn
<1>1. PICK a \in Reads(p.stmts[e[1]]) : \E b \in Writes(p.stmts[w[1]]) :
        b.array = a.array /\ Index(b, w[2]) = Index(a, e[2])
  BY DEF Suppliers
<1>2. PICK b \in Writes(p.stmts[w[1]]) : b.array = a.array /\ Index(b, w[2]) = Index(a, e[2])
  BY <1>1
<1>3. PICK v \in Instances(p) : \E c \in Writes(p.stmts[v[1]]) :
        c.array = a.array /\ Index(c, v[2]) = Index(a, e[2]) /\ Key(p, v) < Key(p, e)
  BY DEF Sound, RespectsDataFlow
<1>4. PICK c \in Writes(p.stmts[v[1]]) :
        c.array = a.array /\ Index(c, v[2]) = Index(a, e[2]) /\ Key(p, v) < Key(p, e)
  BY <1>3
<1>5. a.array \in Arrays(p)
  <2>1. e[1] \in DOMAIN p.stmts
    BY InstanceParts
  <2> QED BY <2>1 DEF Accessing
<1>6. WrittenOnce(p, a.array)
  BY <1>5 DEF Sound
<1> DEFINE x == <<Index(b, w[2]), Key(p, w)>>
           y == <<Index(c, v[2]), Key(p, v)>>
<1>7. w \in Instances(p)
  BY DEF Suppliers
<1>8. x \in Written(p, a.array) /\ y \in Written(p, a.array)
  BY <1>2, <1>4, <1>7 DEF Written
<1>9. x[1] = Index(b, w[2]) /\ x[2] = Key(p, w) /\ y[1] = Index(c, v[2]) /\ y[2] = Key(p, v)
  OBVIOUS
<1> HIDE DEF x, y
<1>10. x[2] = y[2]
  BY <1>2, <1>4, <1>6, <1>8, <1>9 DEF WrittenOnce
<1> QED BY <1>4, <1>9, <1>10

Timed == stage = "timed" => latency = compute_io_latencies(prog, tiling, period)

LEMMA TimedStep == (Init => Timed) /\ (Timed /\ [Next]_vars => Timed')
<1>1. Init => Timed
  BY DEF Init, Timed
<1>2. ASSUME Timed, [Next]_vars PROVE Timed'
  <2>1. CASE ComputeIoLatencies
    <3>1. /\ UNCHANGED <<prog, tiling, period>>
          /\ latency' = compute_io_latencies(prog, tiling, period)
      BY <2>1 DEF ComputeIoLatencies
    <3>2. compute_io_latencies(prog, tiling, period)' = compute_io_latencies(prog, tiling, period)
      BY <3>1
    <3> QED BY <3>1, <3>2 DEF Timed
  <2>2. CASE DropUnreadInstances \/ MakePeriodicSchedule \/ AllocateStorage \/ GenerateCode
    <3>1. stage' # "timed"
      BY <2>2 DEF DropUnreadInstances, MakePeriodicSchedule, AllocateStorage, GenerateCode
    <3> QED BY <3>1 DEF Timed
  <2>3. CASE ScheduleOutOfOrder \/ ScheduleNotSteady \/ AllocationFails
    <3>1. stage' \in Errors
      <4>1. \A a \in Arrays(prog) : ArrayError(a) # "none" => ArrayError(a) \in Errors
        BY DEF ArrayError, Errors
      <4> QED BY <2>3, <4>1
        DEF ScheduleOutOfOrder, ScheduleNotSteady, AllocationFails, Fail, Errors
    <3>2. stage' # "timed"
      BY <3>1 DEF Errors, NotLast, NotSteady, TooLong, NeverWritten, NotAccessed
    <3> QED BY <3>2 DEF Timed
  <2>4. CASE UNCHANGED vars
    <3>1. UNCHANGED <<stage, latency, prog, tiling, period>>
      BY <2>4 DEF vars
    <3>2. compute_io_latencies(prog, tiling, period)' = compute_io_latencies(prog, tiling, period)
      BY <3>1
    <3> QED BY <1>2, <3>1, <3>2 DEF Timed
  <2> QED BY <1>2, <2>1, <2>2, <2>3, <2>4 DEF Next
<1> QED BY <1>1, <1>2

(* Programs whose latencies are judged by enough of their periods          *)
Streaming ==
  /\ Sound(source) /\ MoveAlike(prog) /\ Accessing(prog) /\ OneWayStreams(prog)
  /\ Periodic(prog) => tiling.offset + 3 * tiling.size <= Horizon

LEMMA EnoughIsHandedIn ==
  ASSUME DInv, Typed, TilingFound, Timed, Streaming
  PROVE  LatenciesSuffice
<1> SUFFICES ASSUME stage = "timed"
             PROVE  /\ latency \in [Inputs(prog) -> Int]
                    /\ \A in \in Endless(prog, Inputs(prog)) : \A out \in FirstOutput(prog) :
                         \A e \in {d \in DOMAIN LatestNeeded(prog, in) :
                                     d[1] = out /\ LatestNeeded(prog, in)[d] >= 0} :
                           LatestNeeded(prog, in)[e]
                             <= Expected(prog, period, in, out, e[2]) + latency[in]
  BY DEF LatenciesSuffice
<1>1. prog = DropUnread(source) /\ IsProgram(source) /\ IsScheduled(source)
  BY DEF DInv
<1>2. IsProgram(prog) /\ IsScheduled(prog)
  BY <1>1, DroppingKeepsProgram, DroppingKeepsSchedule
<1>3. Sound(prog)
  <2>1. Arrays(prog) = Arrays(source)
    BY <1>1 DEF IsProgram, DropUnread, Arrays
  <2> QED BY <1>1, <2>1, FlowKept, StillWrittenOnce DEF Sound, Streaming
<1>4. InTurn(prog)
  BY <1>2, <1>3, SuppliedInTurn DEF Streaming
<1>5. /\ opt.period_offset \in Nat /\ opt.period_scale \in Nat \ {0}
      /\ tiling.offset \in Nat /\ tiling.size \in Nat \ {0}
  BY OptionsAssumption DEF Typed
<1>6. latency = compute_io_latencies(prog, tiling, period)
  BY DEF Timed
<1>7. ASSUME NEW n \in Inputs(prog) \cup Outputs(prog), IsInfinite(prog.stmts[n])
      PROVE  /\ n \in DOMAIN prog.stmts /\ prog.stmts[n].band = LastBand(prog)
             /\ tiling.offset + 3 * tiling.size <= Horizon
             /\ GoesOnFor(prog, tiling, n, period[ArrayOf(prog, n)])
  <2>1. n \in DOMAIN prog.stmts
    BY DEF Inputs, Outputs, Statements
  <2>2. prog.stmts[n].band \in InfiniteBands(prog)
    BY <1>7, <2>1 DEF InfiniteBands, Statements
  <2>3. Periodic(prog) /\ prog.stmts[n].band = LastBand(prog)
    BY <2>2 DEF Periodic, TilingFound, InfiniteBandNotLast
  <2>4. /\ tiling = find_periodic_tiling(AccessInfos(prog), opt)
        /\ \A a \in Arrays(prog) :
             period[a] = InterTileOffset(tiling, AccessInfos(prog), a) /\ period[a] # Inconsistent
    BY <2>3 DEF TilingFound, Analysed
  <2>5. AllStepOn(prog, tiling)
    BY <1>2, <1>5, <2>4, StepsGoOn DEF Streaming
  <2>6. ArrayOf(prog, n) \in Arrays(prog)
    BY <2>1 DEF Accessing, ArrayOf, Streaming
  <2>7. GoesOnFor(prog, tiling, n, InterTileOffset(tiling, AccessInfos(prog), ArrayOf(prog, n)))
    <3>1. \A a \in Reads(prog.stmts[n]) \cup Writes(prog.stmts[n]) : a.mul = 1
      BY DEF OneWayStreams, Streaming
    <3>2. Accessing(prog) /\ MoveAlike(prog)
      BY DEF Streaming
    <3>3. InterTileOffset(tiling, AccessInfos(prog), ArrayOf(prog, n)) # Inconsistent
      BY <2>4, <2>6
    <3> QED BY <1>2, <1>5, <1>7, <2>1, <2>3, <2>4, <2>5, <3>1, <3>2, <3>3, StreamsMove
  <2>8. tiling.offset + 3 * tiling.size <= Horizon
    BY <2>3 DEF Streaming
  <2> QED BY <2>1, <2>3, <2>4, <2>6, <2>7, <2>8
<1>8. \A m, n \in FirstOutput(prog) : m = n
  <2>1. \A n \in Outputs(prog) : n \in Int
    BY <1>2 DEF IsProgram, Outputs, Statements
  <2> QED BY <2>1 DEF FirstOutput, Endless
<1>9. ASSUME NEW in \in Inputs(prog), IsInfinite(prog.stmts[in]), NEW out \in FirstOutput(prog)
      PROVE  /\ latency[in] = LatencyOf(prog, tiling, period, in, out) /\ latency[in] \in Int
             /\ \A x \in Leads(prog, period, in, out, KeyOfTime(prog, Horizon)) : x <= latency[in]
             /\ in # out /\ in \in DOMAIN prog.stmts /\ out \in DOMAIN prog.stmts
             /\ \A i \in Nat : Expected(prog, period, in, out, i) \in Nat
  <2>1. out \in Outputs(prog) /\ IsInfinite(prog.stmts[out])
    BY DEF FirstOutput, Endless
  <2>2. (CHOOSE o \in FirstOutput(prog) : TRUE) = out
    BY <1>8
  <2>3. latency[in] = LatencyOf(prog, tiling, period, in, out)
    BY <1>6, <1>9, <2>2 DEF compute_io_latencies
  <2>4. /\ in \in DOMAIN prog.stmts /\ out \in DOMAIN prog.stmts
        /\ prog.stmts[in].band = LastBand(prog) /\ prog.stmts[out].band = LastBand(prog)
        /\ tiling.offset + 3 * tiling.size <= Horizon
        /\ GoesOnFor(prog, tiling, in, period[ArrayOf(prog, in)])
        /\ GoesOnFor(prog, tiling, out, period[ArrayOf(prog, out)])
    BY <1>7, <1>9, <2>1
  <2>5. /\ LatencyOf(prog, tiling, period, in, out) \in Int
        /\ \A x \in Leads(prog, period, in, out, KeyOfTime(prog, Horizon)) :
             x <= LatencyOf(prog, tiling, period, in, out)
    BY <1>2, <1>5, <2>4, LatencyBounds
  <2>6. in # out
    BY <2>1 DEF OneWayStreams, Streaming
  <2>7. ASSUME NEW i \in Nat PROVE Expected(prog, period, in, out, i) \in Nat
    <3>1. PICK a \in Nat, b \in Nat \ {0} :
            a = period[ArrayOf(prog, in)] /\ b = period[ArrayOf(prog, out)]
      BY <2>4 DEF GoesOnFor
    <3>2. PICK c \in Nat : c = i * a
      OBVIOUS
    <3>3. c \div b \in Nat
      BY DivisionIs
    <3> QED BY <3>1, <3>2, <3>3 DEF Expected
  <2> QED BY <2>3, <2>4, <2>5, <2>6, <2>7
<1>10. latency \in [Inputs(prog) -> Int]
  <2>1. ASSUME NEW in \in Inputs(prog) PROVE latency[in] \in Int
    <3>1. CASE FirstOutput(prog) = {} \/ ~IsInfinite(prog.stmts[in])
      BY <1>6, <3>1 DEF compute_io_latencies
    <3>2. CASE FirstOutput(prog) # {} /\ IsInfinite(prog.stmts[in])
      BY <1>9, <3>2
    <3> QED BY <3>1, <3>2
  <2>2. latency = [in \in Inputs(prog) |-> latency[in]]
    BY <1>6 DEF compute_io_latencies
  <2> QED BY <2>1, <2>2
<1>11. ASSUME NEW in \in Endless(prog, Inputs(prog)), NEW out \in FirstOutput(prog),
              NEW e \in DOMAIN LatestNeeded(prog, in), e[1] = out,
              LatestNeeded(prog, in)[e] >= 0
       PROVE  LatestNeeded(prog, in)[e] <= Expected(prog, period, in, out, e[2]) + latency[in]
  <2>1. in \in Inputs(prog) /\ IsInfinite(prog.stmts[in])
    BY DEF Endless
  <2>2. e \in Instances(prog)
    BY <1>2, <1>4, LatestEquation
  <2>3. PICK i : i = LatestNeeded(prog, in)[e]
    OBVIOUS
  <2>4. i \in Nat /\ <<in, i>> \in Instances(prog) /\ Key(prog, <<in, i>>) <= Key(prog, e)
    <3>1. /\ i \in Int
          /\ i >= 0 => <<in, i>> \in Instances(prog) /\ Key(prog, <<in, i>>) <= Key(prog, e)
      BY <1>2, <1>4, <2>2, <2>3, NeededBefore
    <3> QED BY <1>11, <2>3, <3>1
  <2>5. PICK o \in Nat : e = <<out, o>>
    <3>1. e = <<e[1], e[2]>> /\ e[2] \in 0..(2 * Horizon)
      BY <1>2, <2>2, InstanceParts
    <3> QED BY <1>11, <3>1, HorizonAssumption
  <2>6. Key(prog, <<in, i>>) \in Int /\ Key(prog, e) \in Int
        /\ Key(prog, e) < KeyOfTime(prog, Horizon)
    BY <1>2, <2>2, <2>4, KeyBound
  <2>7. Key(prog, <<in, i>>) # Key(prog, e)
    <3>1. in # out /\ in \in DOMAIN prog.stmts /\ out \in DOMAIN prog.stmts
      BY <1>9, <2>1
    <3>2. i \in Int /\ o \in Int
      BY <2>4
    <3> QED BY <1>2, <2>5, <3>1, <3>2, KeysDiffer
  <2>8. IsPair(prog, in, out, KeyOfTime(prog, Horizon), i, o)
    BY <2>2, <2>4, <2>5, <2>6, <2>7 DEF IsPair
  <2>9. KeyOfTime(prog, Horizon) \in Int
    <3>1. Horizon \in Int /\ 0 \in Int /\ in \in DOMAIN prog.stmts
      BY <1>9, <2>1, HorizonAssumption
    <3> QED BY <1>2, <3>1, KeyIs
  <2>10. i - Expected(prog, period, in, out, o)
           \in Leads(prog, period, in, out, KeyOfTime(prog, Horizon))
    BY <1>2, <2>4, <2>8, <2>9, LeadsAre
  <2>11. PICK x \in Nat, l \in Int :
           /\ x = Expected(prog, period, in, out, o) /\ l = latency[in]
           /\ i - x <= l
    BY <1>9, <2>1, <2>10
  <2>12. i <= x + l
    BY <2>4, <2>11
  <2> QED BY <2>3, <2>5, <2>11, <2>12
<1> QED BY <1>10, <1>11

(* A client that keeps each input `latency' elements ahead of the first    *)
(* output has handed in all that any output depends on, through whatever   *)
(* other statements, when the output is computed: the largest lead before  *)
(* the horizon is the largest there is, since leads recur every period.    *)
THEOREM LatenciesAreEnough == Spec => [](Streaming => LatenciesSuffice)
<1>1. DInv /\ Typed /\ TilingFound /\ Timed => (Streaming => LatenciesSuffice)
  BY EnoughIsHandedIn
<1> QED BY <1>1, CompilerInvHolds, TimedStep, PTL DEF Spec, CompilerInv
=============================================================================
