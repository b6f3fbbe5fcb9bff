----------------------- MODULE ReferenceAnalysisProofs ------------------------
(***************************************************************************)
(* Reference analysis, on any graph of definitions and in any order: every *)
(* loop has a member that is marked, and whoever is marked is on a loop.   *)
(*                                                                         *)
(* A definition that is being visited may be done already, because a loop  *)
(* led back to it.  It is marked then.  What is done and not being visited *)
(* is complete: all that it refers to is complete too, or marked.          *)
(***************************************************************************)
EXTENDS ReferenceAnalysis, TLAPS, WellFoundedInduction, NaturalsInduction

Complete == done \ Visited

Frames == [id : Ids, left : Seq(Ids)]

Types ==
  /\ refs \in [Ids -> Seq(Ids)]
  /\ order \in Seq(Ids)
  /\ path \in Seq(Frames)
  /\ done \in SUBSET Ids
  /\ marked \in SUBSET Ids

Distinct == \A j, k \in DOMAIN path : path[j].id = path[k].id => j = k

(* What the definition at position k of the path refers to is still to be  *)
(* followed, or complete, or marked, or it is what is visited next.        *)
ToFollow(k, v) == \E m \in DOMAIN path[k].left : path[k].left[m] = v
VisitedNext(k, v) == k + 1 \in DOMAIN path /\ path[k + 1].id = v

Followed ==
  \A k \in DOMAIN path : \A v \in Ids :
    Refers(path[k].id, v) => ToFollow(k, v) \/ v \in Complete \cup marked \/ VisitedNext(k, v)

AllRefer(S) == \A u \in S : \E v \in S : Refers(u, v)

Cut ==
  /\ done \cap Visited \subseteq marked
  /\ \A u \in Complete : \A v \in Ids : Refers(u, v) => v \in Complete \cup marked
  /\ \A S \in SUBSET (Complete \ marked) : AllRefer(S) => S = {}

Chain ==
  /\ \A k \in DOMAIN path : \A m \in DOMAIN path[k].left : Refers(path[k].id, path[k].left[m])
  /\ \A k \in DOMAIN path : k + 1 \in DOMAIN path => Refers(path[k].id, path[k + 1].id)

IInv == Types /\ Distinct /\ Followed /\ Cut /\ Chain /\ OnlyLoopsMarked
-----------------------------------------------------------------------------
LEMMA OnThePath ==
  ASSUME Types
  PROVE  \A k \in DOMAIN path : /\ path[k] \in Frames
                                /\ path[k].id \in Ids
                                /\ path[k].left \in Seq(Ids)
                                /\ refs[path[k].id] \in Seq(Ids)
<1>1. path \in Seq(Frames) /\ refs \in [Ids -> Seq(Ids)]
  BY DEF Types
<1>2. \A k \in DOMAIN path : path[k] \in Frames
  BY <1>1
<1> QED
  BY <1>1, <1>2 DEF Frames

(* The path once a reference of its last definition has been followed      *)
LEMMA RestOfPath ==
  ASSUME Types, path # <<>>, Top.left # <<>>
  PROVE  /\ Len(path) \in DOMAIN path
         /\ Rest \in Seq(Frames)
         /\ Len(Rest) = Len(path)
         /\ \A k \in DOMAIN path : Rest[k].id = path[k].id
         /\ \A k \in DOMAIN path : k # Len(path) => Rest[k] = path[k]
         /\ Rest[Len(path)].left = Tail(Top.left)
<1>1. path \in Seq(Frames) /\ Len(path) \in DOMAIN path
  BY DEF Types
<1>2. Top \in Frames
  BY <1>1 DEF Top
<1>3. Tail(Top.left) \in Seq(Ids)
  BY <1>2 DEF Frames
<1>4. [Top EXCEPT !.left = Tail(@)] = [id |-> Top.id, left |-> Tail(Top.left)]
  BY <1>2 DEF Frames
<1>5. Rest = [path EXCEPT ![Len(path)] = [id |-> Top.id, left |-> Tail(Top.left)]]
  BY <1>4 DEF Rest, Top
<1>6. [id |-> Top.id, left |-> Tail(Top.left)] \in Frames
  BY <1>2, <1>3 DEF Frames
<1> QED
  BY <1>1, <1>5, <1>6 DEF Top

(* Along the path, from a definition in a set that has all that its        *)
(* members refer to                                                        *)
LEMMA AlongThePath ==
  ASSUME Types, Chain, NEW S \in SUBSET Ids, Closed(S),
         NEW a \in DOMAIN path, path[a].id \in S
  PROVE  \A j \in DOMAIN path : j >= a => path[j].id \in S
<1> DEFINE T == {j \in DOMAIN path : j >= a /\ path[j].id \notin S}
<1>1. path \in Seq(Frames)
  BY DEF Types
<1>2. SUFFICES ASSUME T # {} PROVE FALSE
  OBVIOUS
<1>3. T \subseteq Nat
  BY <1>1
<1>4. PICK j \in T : \A k \in T : ~(<<k, j>> \in OpToRel(<, Nat))
  <2> HIDE DEF T
  <2> QED BY <1>2, <1>3, NatLessThanWellFounded, WFMin
<1>5. \A k \in T : ~(k < j)
  BY <1>3, <1>4 DEF OpToRel
<1>6. j # a
  OBVIOUS
<1>7. /\ j \in DOMAIN path /\ (j - 1) + 1 = j
      /\ j - 1 \in DOMAIN path /\ j - 1 >= a /\ j - 1 \notin T
  BY <1>1, <1>5, <1>6
<1>8. path[j].id \in Ids
  BY <1>7, OnThePath
<1>9. path[j - 1].id \in S
  BY <1>7
<1>10. Refers(path[j - 1].id, path[j].id)
  <2> DEFINE k == j - 1
  <2>1. k \in DOMAIN path /\ k + 1 \in DOMAIN path /\ k + 1 = j
    BY <1>7
  <2> HIDE DEF k
  <2>2. Refers(path[k].id, path[k + 1].id)
    BY <2>1 DEF Chain
  <2> QED BY <2>1, <2>2 DEF k
<1>11. path[j].id \in S
  BY <1>8, <1>9, <1>10 DEF Closed
<1> QED
  BY <1>11

LEMMA RestFollowed ==
  ASSUME Types, Followed, Chain, path # <<>>, Top.left # <<>>
  PROVE  /\ Head(Top.left) \in Ids /\ Refers(Top.id, Head(Top.left))
         /\ \A k \in DOMAIN Rest : \A m \in DOMAIN Rest[k].left :
              Refers(Rest[k].id, Rest[k].left[m])
         /\ \A k \in DOMAIN Rest : k + 1 \in DOMAIN Rest => Refers(Rest[k].id, Rest[k + 1].id)
         /\ \A k \in DOMAIN Rest : \A v \in Ids :
              Refers(Rest[k].id, v) =>
                \/ \E m \in DOMAIN Rest[k].left : Rest[k].left[m] = v
                \/ v \in Complete \cup marked
                \/ k + 1 \in DOMAIN Rest /\ Rest[k + 1].id = v
                \/ k = Len(path) /\ v = Head(Top.left)
<1> DEFINE n == Len(path)
<1>1. /\ path \in Seq(Frames) /\ n \in DOMAIN path
      /\ Rest \in Seq(Frames) /\ DOMAIN Rest = DOMAIN path
      /\ \A k \in DOMAIN path : Rest[k].id = path[k].id
      /\ \A k \in DOMAIN path : k # n => Rest[k] = path[k]
      /\ Rest[n].left = Tail(path[n].left)
  BY RestOfPath DEF Types, Top
<1>2. path[n].left \in Seq(Ids) /\ path[n].left # <<>>
  BY <1>1, OnThePath DEF Top
<1>3. /\ 1 \in DOMAIN path[n].left /\ Head(path[n].left) = path[n].left[1]
      /\ Head(path[n].left) \in Ids
      /\ \A m \in DOMAIN Tail(path[n].left) :
           m + 1 \in DOMAIN path[n].left /\ Tail(path[n].left)[m] = path[n].left[m + 1]
      /\ \A m \in DOMAIN path[n].left :
           m # 1 => /\ m - 1 \in DOMAIN Tail(path[n].left)
                    /\ Tail(path[n].left)[m - 1] = path[n].left[m]
  BY <1>2
<1>4. Head(Top.left) \in Ids /\ Refers(Top.id, Head(Top.left))
  BY <1>1, <1>3 DEF Top, Chain
<1>5. ASSUME NEW k \in DOMAIN Rest, NEW m \in DOMAIN Rest[k].left
      PROVE  Refers(Rest[k].id, Rest[k].left[m])
  <2>1. CASE k # n
    BY <1>1, <2>1 DEF Chain
  <2>2. CASE k = n
    <3>1. /\ m \in DOMAIN Tail(path[n].left)
          /\ Rest[k].left[m] = path[n].left[m + 1] /\ m + 1 \in DOMAIN path[n].left
      BY <1>1, <1>3, <2>2
    <3>2. Refers(path[n].id, path[n].left[m + 1])
      BY <1>1, <3>1 DEF Chain
    <3> QED BY <1>1, <2>2, <3>1, <3>2
  <2> QED BY <2>1, <2>2
<1>6. ASSUME NEW k \in DOMAIN Rest, k + 1 \in DOMAIN Rest
      PROVE  Refers(Rest[k].id, Rest[k + 1].id)
  BY <1>1, <1>6 DEF Chain
<1>7. ASSUME NEW k \in DOMAIN Rest, NEW v \in Ids, Refers(Rest[k].id, v)
      PROVE  \/ \E m \in DOMAIN Rest[k].left : Rest[k].left[m] = v
             \/ v \in Complete \cup marked
             \/ k + 1 \in DOMAIN Rest /\ Rest[k + 1].id = v
             \/ k = n /\ v = Head(Top.left)
  <2>1. k \in DOMAIN path /\ Refers(path[k].id, v)
    BY <1>1, <1>7
  <2>2. ToFollow(k, v) \/ v \in Complete \cup marked \/ VisitedNext(k, v)
    BY <2>1 DEF Followed
  <2>3. CASE VisitedNext(k, v)
    BY <1>1, <2>1, <2>3 DEF VisitedNext
  <2>4. CASE ToFollow(k, v)
    <3>1. PICK m \in DOMAIN path[k].left : path[k].left[m] = v
      BY <2>4 DEF ToFollow
    <3>2. CASE k # n
      BY <1>1, <2>1, <3>1, <3>2
    <3>3. CASE k = n /\ m = 1
      BY <1>3, <3>1, <3>3 DEF Top
    <3>4. CASE k = n /\ m # 1
      <4>1. m \in DOMAIN path[n].left /\ Rest[k].left = Tail(path[n].left)
        BY <1>1, <3>1, <3>4
      <4>2. m - 1 \in DOMAIN Rest[k].left /\ Rest[k].left[m - 1] = v
        BY <1>3, <3>1, <3>4, <4>1
      <4> QED BY <4>2, Zenon
    <3> QED BY <3>2, <3>3, <3>4
  <2> QED BY <2>2, <2>3, <2>4
<1> QED
  BY <1>4, <1>5, <1>6, <1>7
-----------------------------------------------------------------------------
LEMMA InitIInv ==
  ASSUME NEW Nodes, NEW graph \in [Nodes -> Seq(Nodes)], NEW sequence \in Seq(Nodes),
         SearchInit(graph, sequence)
  PROVE  IInv
<1>1. Ids = Nodes
  BY DEF SearchInit, Ids
<1>2. path = <<>> /\ DOMAIN path = {} /\ Complete = {}
  BY DEF SearchInit, Complete
<1>3. Types
  BY <1>1, <1>2 DEF SearchInit, Types
<1>4. Distinct /\ Followed /\ Chain /\ OnlyLoopsMarked
  BY <1>2 DEF SearchInit, Distinct, Followed, Chain, OnlyLoopsMarked
<1>5. Cut
  BY <1>2 DEF SearchInit, Cut
<1> QED
  BY <1>3, <1>4, <1>5 DEF IInv

LEMMA TypesKept ==
  ASSUME Types, SearchNext
  PROVE  Types' /\ refs' = refs /\ Ids' = Ids
<1>1. refs' = refs /\ Ids' = Ids
  BY DEF SearchNext, Start, Return, FollowDone, FollowLoop, FollowNew, Following, Ids
<1>2. CASE Start
  <2>1. Head(order) \in Ids /\ Tail(order) \in Seq(Ids)
    BY <1>2 DEF Start, Types
  <2>2. [id |-> Head(order), left |-> refs[Head(order)]] \in Frames
    BY <2>1 DEF Types, Frames
  <2>3. path' \in Seq(Frames)
    BY <1>2, <2>2 DEF Start, Types, Enter
  <2> QED BY <1>1, <1>2, <2>1, <2>3 DEF Start, Types, Frames
<1>3. CASE Return
  <2>1. Len(path) \in DOMAIN path /\ Top.id \in Ids
    BY <1>3, OnThePath DEF Return, Top, Types
  <2>2. path' \in Seq(Frames)
    BY <1>3, <2>1 DEF Return, Types
  <2> QED BY <1>1, <1>3, <2>1, <2>2 DEF Return, Types, Frames
<1>4. ASSUME NEW id \in Ids, FollowDone(id) \/ FollowLoop(id) \/ FollowNew(id)
      PROVE  Types'
  <2>1. path # <<>> /\ Top.left # <<>> /\ order' = order
    BY <1>4 DEF FollowDone, FollowLoop, FollowNew, Following
  <2>2. Rest \in Seq(Frames)
    BY <2>1, RestOfPath
  <2>3. CASE FollowDone(id)
    BY <1>1, <2>1, <2>2, <2>3 DEF FollowDone, Types, Frames
  <2>4. CASE FollowLoop(id)
    <3>1. \A k \in DOMAIN path : path[k].id \in Ids
      BY OnThePath
    <3>2. PICK first \in DOMAIN path : marked' = marked \cup {path[k].id : k \in first..Len(path)}
      BY <2>4 DEF FollowLoop
    <3>3. first..Len(path) \subseteq DOMAIN path
      BY DEF Types
    <3>4. marked' \in SUBSET Ids /\ done' \in SUBSET Ids
      BY <2>4, <3>1, <3>2, <3>3 DEF FollowLoop, Types
    <3> QED BY <1>1, <2>1, <2>2, <2>4, <3>4 DEF FollowLoop, Types, Frames
  <2>5. CASE FollowNew(id)
    <3>1. [id |-> id, left |-> refs[id]] \in Frames
      BY DEF Types, Frames
    <3>2. path' \in Seq(Frames)
      BY <2>2, <2>5, <3>1 DEF FollowNew, Enter
    <3> QED BY <1>1, <2>1, <2>5, <3>2 DEF FollowNew, Types, Frames
  <2> QED BY <1>4, <2>3, <2>4, <2>5
<1> QED
  BY <1>1, <1>2, <1>3, <1>4 DEF SearchNext
-----------------------------------------------------------------------------
LEMMA LoopsStay ==
  ASSUME refs' = refs
  PROVE  \A u : OnLoop(u)' <=> OnLoop(u)
BY DEF OnLoop, Closed, Refers, Ids

LEMMA CutStays ==
  ASSUME Cut, refs' = refs, Complete' = Complete, marked \subseteq marked',
         (done \cap Visited \subseteq marked)'
  PROVE  Cut'
<1>1. \A u, v : Refers(u, v)' <=> Refers(u, v)
  BY DEF Refers
<1>2. \A S : AllRefer(S)' <=> AllRefer(S)
  BY <1>1 DEF AllRefer
<1> QED
  BY <1>1, <1>2 DEF Cut, Ids

LEMMA StartStep ==
  ASSUME IInv, Start
  PROVE  (Distinct /\ Followed /\ Cut /\ Chain /\ OnlyLoopsMarked)'
<1>1. /\ path = <<>> /\ Visited = {} /\ Complete = done
      /\ refs' = refs /\ Ids' = Ids /\ done' = done /\ marked' = marked
  BY DEF Start, Visited, Complete, Ids
<1>2. OnlyLoopsMarked'
  BY <1>1, LoopsStay DEF OnlyLoopsMarked, IInv
<1>3. CASE Head(order) \in done
  <2>1. path' = <<>> /\ Visited' = {} /\ Complete' = Complete
    BY <1>1, <1>3 DEF Start, Visited, Complete
  <2>2. Cut'
    BY <1>1, <2>1, CutStays DEF IInv
  <2> QED BY <1>2, <2>1, <2>2 DEF Distinct, Followed, Chain
<1>4. CASE Head(order) \notin done
  <2> DEFINE h == Head(order)
  <2>1. h \in Ids /\ refs[h] \in Seq(Ids)
    BY DEF IInv, Types, Start
  <2>2. path' = <<[id |-> h, left |-> refs[h]]>>
    BY <1>1, <1>4 DEF Start, Enter
  <2>3. /\ DOMAIN path' = {1} /\ path'[1].id = h /\ path'[1].left = refs[h]
        /\ Visited' = {h}
    BY <2>2 DEF Visited
  <2>4. Complete' = Complete
    BY <1>1, <1>4, <2>3 DEF Complete
  <2>5. Cut'
    BY <1>1, <1>4, <2>3, <2>4, CutStays DEF IInv
  <2>6. Distinct' /\ Followed' /\ Chain'
    BY <1>1, <2>1, <2>3 DEF Distinct, Followed, Chain, ToFollow, Refers
  <2> QED BY <1>2, <2>5, <2>6
<1> QED
  BY <1>3, <1>4

LEMMA ReturnStep ==
  ASSUME IInv, Return
  PROVE  (Distinct /\ Followed /\ Cut /\ Chain /\ OnlyLoopsMarked)'
<1> DEFINE n == Len(path)
           t == Top.id
<1>1. /\ path \in Seq(Frames) /\ n \in DOMAIN path /\ n \in Nat /\ n >= 1
      /\ path[n] = Top /\ Top.left = <<>> /\ t \in Ids
      /\ refs' = refs /\ Ids' = Ids /\ done' = done \cup {t} /\ marked' = marked
  BY OnThePath DEF IInv, Types, Return, Top, Ids
<1>2. /\ path' = SubSeq(path, 1, n - 1)
      /\ DOMAIN path' = 1..(n - 1) /\ DOMAIN path = 1..n
      /\ \A k \in 1..(n - 1) : path'[k] = path[k]
  BY <1>1 DEF Return
<1>3. \A k \in 1..(n - 1) : path[k].id # t
  BY <1>1, <1>2 DEF IInv, Distinct
<1>4. Visited' = Visited \ {t} /\ t \in Visited
  <2>1. 1..n = 1..(n - 1) \cup {n}
    BY <1>1
  <2>2. Visited' = {path[k].id : k \in 1..(n - 1)}
    BY <1>2 DEF Visited
  <2>3. Visited = {path[k].id : k \in 1..n} /\ path[n].id = t
    BY <1>1, <1>2 DEF Visited
  <2>4. Visited = Visited' \cup {t}
    <3> DEFINE ids(D) == {path[k].id : k \in D}
    <3>1. ids(1..n) = ids(1..(n - 1)) \cup ids({n})
      BY <2>1, Zenon
    <3>2. ids({n}) = {t}
      BY <2>3
    <3> QED BY <2>2, <2>3, <3>1, <3>2
  <2> QED BY <1>3, <2>2, <2>4
<1>5. Complete' = Complete \cup {t} /\ t \notin Complete
  BY <1>1, <1>4 DEF Complete
<1>6. \A u, v : Refers(u, v)' <=> Refers(u, v)
  BY <1>1 DEF Refers
<1>7. OnlyLoopsMarked'
  BY <1>1, LoopsStay DEF OnlyLoopsMarked, IInv
<1>8. Distinct'
  BY <1>2 DEF IInv, Distinct
<1>9. Chain'
  BY <1>1, <1>2, <1>6 DEF IInv, Chain
<1>10. Followed'
  <2> SUFFICES ASSUME NEW k \in 1..(n - 1), NEW v \in Ids, Refers(path[k].id, v)
               PROVE  ToFollow(k, v)' \/ v \in (Complete \cup marked)' \/ VisitedNext(k, v)'
    BY <1>1, <1>2, <1>6 DEF Followed
  <2>1. ToFollow(k, v) \/ v \in Complete \cup marked \/ VisitedNext(k, v)
    BY <1>2 DEF IInv, Followed
  <2>2. CASE ToFollow(k, v)
    BY <1>2, <2>2 DEF ToFollow
  <2>3. CASE VisitedNext(k, v) /\ k + 1 = n
    BY <1>1, <1>5, <2>3 DEF VisitedNext
  <2>4. CASE VisitedNext(k, v) /\ k + 1 # n
    <3>3. path[k + 1].id = v /\ k + 1 \in DOMAIN path
      BY <2>4 DEF VisitedNext
    <3>1. k + 1 \in 1..(n - 1)
      <4> HIDE DEF n
      <4> QED BY <1>1, <1>2, <2>4, <3>3
    <3>2. VisitedNext(k, v)'
      BY <1>2, <3>3, <3>1 DEF VisitedNext
    <3> QED BY <3>2
  <2> QED BY <1>1, <1>5, <2>1, <2>2, <2>3, <2>4
<1>11. \A v \in Ids : Refers(t, v) => v \in Complete \cup marked
  BY <1>1, <1>2 DEF IInv, Followed, ToFollow, VisitedNext
<1>12. Cut'
  <2>1. (done \cap Visited \subseteq marked)'
    BY <1>1, <1>4 DEF IInv, Cut
  <2>2. \A u \in Complete' : \A v \in Ids' : Refers(u, v)' => v \in (Complete \cup marked)'
    BY <1>1, <1>5, <1>6, <1>11 DEF IInv, Cut
  <2>3. ASSUME NEW S \in SUBSET (Complete' \ marked'), AllRefer(S)'
        PROVE  S = {}
    <3>1. \A u \in S : \E v \in S : Refers(u, v)
      BY <1>6, <2>3 DEF AllRefer
    <3>2. t \in S => \A u \in Complete : ~Refers(u, t)
      BY <1>1, <1>5 DEF IInv, Cut
    <3>3. ~(t \in S /\ Refers(t, t))
      BY <1>1, <1>5, <1>11
    <3>4. S \ {t} \subseteq Complete \ marked
      BY <1>1, <1>5
    <3>5. \A u \in S \ {t} : \E v \in S \ {t} : Refers(u, v)
      BY <3>1, <3>2, <3>4
    <3>6. S \ {t} = {}
      BY <3>4, <3>5 DEF IInv, Cut, AllRefer
    <3> QED BY <3>1, <3>3, <3>6
  <2> QED BY <2>1, <2>2, <2>3 DEF Cut
<1> QED
  BY <1>7, <1>8, <1>9, <1>10, <1>12

(* The steps that follow a reference, with what they have in common        *)
LEMMA FollowFacts ==
  ASSUME IInv, NEW id \in Ids, Following(id)
  PROVE  /\ path # <<>> /\ Top.left # <<>> /\ Head(Top.left) = id
         /\ Refers(Top.id, id)
         /\ Len(path) \in DOMAIN path /\ Top \in Frames /\ Top = path[Len(path)]
         /\ Rest \in Seq(Frames) /\ DOMAIN Rest = DOMAIN path /\ Len(Rest) = Len(path)
         /\ \A k \in DOMAIN path : Rest[k].id = path[k].id
         /\ refs' = refs /\ Ids' = Ids
         /\ \A u, v : Refers(u, v)' <=> Refers(u, v)
<1>1. path # <<>> /\ Top.left # <<>> /\ Head(Top.left) = id /\ refs' = refs /\ Ids' = Ids
  BY DEF Following, Ids
<1>2. Refers(Top.id, id)
  BY <1>1, RestFollowed DEF IInv
<1>3. /\ Len(path) \in DOMAIN path /\ Rest \in Seq(Frames) /\ Len(Rest) = Len(path)
      /\ \A k \in DOMAIN path : Rest[k].id = path[k].id
  BY <1>1, RestOfPath DEF IInv
<1>4. DOMAIN Rest = DOMAIN path /\ Top \in Frames /\ Top = path[Len(path)]
  BY <1>3, OnThePath DEF IInv, Types, Top
<1> QED
  BY <1>1, <1>2, <1>3, <1>4 DEF Refers

LEMMA RestStep ==
  ASSUME IInv, NEW id \in Ids, Following(id), path' = Rest,
         Complete' = Complete, marked \subseteq marked', id \in Complete \cup marked'
  PROVE  (Distinct /\ Followed /\ Chain)' /\ Visited' = Visited
<1>1. Visited' = Visited /\ Distinct'
  BY FollowFacts DEF Visited, Distinct, IInv
<1>2. Chain'
  BY FollowFacts, RestFollowed DEF IInv, Chain
<1>3. Followed'
  BY FollowFacts, RestFollowed DEF IInv, Followed, ToFollow, VisitedNext
<1> QED
  BY <1>1, <1>2, <1>3

LEMMA FollowDoneStep ==
  ASSUME IInv, NEW id \in Ids, FollowDone(id)
  PROVE  (Distinct /\ Followed /\ Cut /\ Chain /\ OnlyLoopsMarked)'
<1>1. Following(id) /\ id \in done /\ path' = Rest /\ done' = done /\ marked' = marked
  BY DEF FollowDone
<1>2. Visited' = Visited /\ Complete' = Complete
  BY <1>1, FollowFacts DEF Visited, Complete
<1>3. id \in Complete \cup marked
  BY <1>1 DEF IInv, Cut, Complete
<1>4. (Distinct /\ Followed /\ Chain)'
  BY <1>1, <1>2, <1>3, RestStep
<1>5. Cut'
  BY <1>1, <1>2, FollowFacts, CutStays DEF IInv, Cut
<1>6. OnlyLoopsMarked'
  BY <1>1, FollowFacts, LoopsStay DEF IInv, OnlyLoopsMarked
<1> QED
  BY <1>4, <1>5, <1>6

(* Whoever is on the path behind a definition that the last one refers to  *)
(* is on a loop.                                                           *)
LEMMA LoopFound ==
  ASSUME Types, Chain, NEW first \in DOMAIN path, Refers(path[Len(path)].id, path[first].id),
         NEW k \in first..Len(path)
  PROVE  OnLoop(path[k].id)
<1> SUFFICES ASSUME NEW S \in SUBSET Ids, Closed(S),
                    \A v \in Ids : Refers(path[k].id, v) => v \in S
             PROVE  path[k].id \in S
  BY DEF OnLoop
<1> DEFINE n == Len(path)
<1>1. /\ path \in Seq(Frames) /\ n \in DOMAIN path /\ k \in DOMAIN path
      /\ \A j \in DOMAIN path : path[j].id \in Ids
  BY OnThePath DEF Types
<1>2. path[first].id \in S
  <2>1. CASE k = n
    BY <1>1, <2>1
  <2>2. CASE k # n
    <3>1. k + 1 \in DOMAIN path /\ k + 1 <= n
      BY <1>1, <2>2
    <3>2. path[k + 1].id \in S
      BY <1>1, <3>1 DEF Chain
    <3>3. path[n].id \in S
      BY <1>1, <3>1, <3>2, AlongThePath
    <3> QED BY <1>1, <3>3 DEF Closed
  <2> QED BY <2>1, <2>2
<1> QED
  BY <1>1, <1>2, AlongThePath

LEMMA FollowLoopStep ==
  ASSUME IInv, NEW id \in Ids, FollowLoop(id)
  PROVE  (Distinct /\ Followed /\ Cut /\ Chain /\ OnlyLoopsMarked)'
<1> DEFINE n == Len(path)
<1>1. Following(id) /\ id \in Visited /\ path' = Rest /\ done' = done \cup {id}
  BY DEF FollowLoop
<1>2. PICK first \in DOMAIN path :
        /\ path[first].id = id
        /\ marked' = marked \cup {path[k].id : k \in first..n}
  BY DEF FollowLoop
<1>3. Visited' = Visited /\ Complete' = Complete
  BY <1>1, FollowFacts DEF Visited, Complete
<1>4. first \in first..n
  BY DEF IInv, Types
<1>5. marked \subseteq marked' /\ id \in marked'
  BY <1>2, <1>4
<1>6. (Distinct /\ Followed /\ Chain)'
  BY <1>1, <1>3, <1>5, RestStep
<1>7. Cut'
  <2>1. (done \cap Visited \subseteq marked)'
    BY <1>1, <1>3, <1>5 DEF IInv, Cut
  <2> QED BY <1>1, <1>3, <1>5, <2>1, FollowFacts, CutStays DEF IInv
<1>8. OnlyLoopsMarked'
  <2>1. Refers(path[n].id, path[first].id)
    BY <1>1, <1>2, FollowFacts
  <2>2. \A k \in first..n : OnLoop(path[k].id)
    BY <2>1, LoopFound DEF IInv
  <2> QED BY <1>1, <1>2, <2>2, FollowFacts, LoopsStay DEF IInv, OnlyLoopsMarked
<1> QED
  BY <1>6, <1>7, <1>8

LEMMA FollowNewStep ==
  ASSUME IInv, NEW id \in Ids, FollowNew(id)
  PROVE  (Distinct /\ Followed /\ Cut /\ Chain /\ OnlyLoopsMarked)'
<1> DEFINE n == Len(path)
           f == [id |-> id, left |-> refs[id]]
<1>1. /\ Following(id) /\ id \notin done \cup Visited
      /\ path' = Append(Rest, f) /\ done' = done /\ marked' = marked
  BY DEF FollowNew, Enter
<1>2. /\ Rest \in Seq(Frames) /\ Len(Rest) = n /\ n \in Nat /\ n \in DOMAIN path
      /\ DOMAIN Rest = 1..n /\ DOMAIN path = 1..n
      /\ \A k \in 1..n : Rest[k].id = path[k].id
      /\ refs' = refs /\ Ids' = Ids
      /\ \A u, v : Refers(u, v)' <=> Refers(u, v)
      /\ Refers(Top.id, id) /\ Top = path[n]
  BY <1>1, FollowFacts DEF IInv, Types
<1>3. /\ DOMAIN path' = 1..(n + 1) /\ path'[n + 1] = f
      /\ \A k \in 1..n : path'[k] = Rest[k]
  BY <1>1, <1>2
<1>4. 1..(n + 1) = 1..n \cup {n + 1}
  BY <1>2
<1>5. f.id = id /\ f.left = refs[id] /\ refs[id] \in Seq(Ids)
  BY DEF IInv, Types
<1>6. Visited' = Visited \cup {id}
  <2>1. \A k \in 1..n : path'[k].id = path[k].id
    BY <1>2, <1>3
  <2>2. Visited = {path[k].id : k \in 1..n}
    BY <1>2 DEF Visited
  <2> QED BY <1>3, <1>4, <1>5, <2>1, <2>2 DEF Visited
<1>7. Complete' = Complete
  BY <1>1, <1>6 DEF Complete
<1>8. Distinct'
  <2>1. \A k \in 1..n : path'[k].id = path[k].id /\ path[k].id # id
    BY <1>1, <1>2, <1>3 DEF Visited
  <2> QED BY <1>2, <1>3, <1>4, <1>5, <2>1 DEF IInv, Distinct
<1>9. Chain'
  <2>1. \A k \in DOMAIN path' : \A m \in DOMAIN path'[k].left : Refers(path'[k].id, path'[k].left[m])
    <3>1. \A m \in DOMAIN f.left : Refers(id, f.left[m])
      BY <1>5 DEF Refers
    <3> QED BY <1>1, <1>2, <1>3, <1>4, <1>5, <3>1, FollowFacts, RestFollowed DEF IInv
  <2>2. ASSUME NEW k \in DOMAIN path', k + 1 \in DOMAIN path'
        PROVE  Refers(path'[k].id, path'[k + 1].id)
    <3>1. k \in 1..n /\ (k = n \/ k + 1 \in 1..n)
      BY <1>2, <1>3, <2>2
    <3>2. CASE k = n
      BY <1>2, <1>3, <1>5, <3>1, <3>2
    <3>3. CASE k + 1 \in 1..n
      BY <1>2, <1>3, <3>1, <3>3 DEF IInv, Chain
    <3> QED BY <3>1, <3>2, <3>3
  <2> QED BY <1>2, <2>1, <2>2 DEF Chain
<1>10. Followed'
  <2> SUFFICES ASSUME NEW k \in DOMAIN path', NEW v \in Ids, Refers(path'[k].id, v)
               PROVE  ToFollow(k, v)' \/ v \in (Complete \cup marked)' \/ VisitedNext(k, v)'
    BY <1>2 DEF Followed
  <2>1. CASE k = n + 1
    BY <1>3, <1>5, <2>1 DEF ToFollow, Refers
  <2>2. CASE k \in 1..n
    <3>1. \/ \E m \in DOMAIN Rest[k].left : Rest[k].left[m] = v
          \/ v \in Complete \cup marked
          \/ k + 1 \in 1..n /\ Rest[k + 1].id = v
          \/ k = n /\ v = id
      BY <1>1, <1>2, <1>3, <2>2, FollowFacts, RestFollowed DEF IInv
    <3>2. CASE \E m \in DOMAIN Rest[k].left : Rest[k].left[m] = v
      BY <1>3, <2>2, <3>2 DEF ToFollow
    <3>3. CASE k + 1 \in 1..n /\ Rest[k + 1].id = v
      BY <1>3, <1>4, <3>3 DEF VisitedNext
    <3>4. CASE k = n /\ v = id
      BY <1>3, <1>4, <1>5, <3>4 DEF VisitedNext
    <3> QED BY <1>1, <1>7, <3>1, <3>2, <3>3, <3>4
  <2> QED BY <1>3, <1>4, <2>1, <2>2
<1>11. Cut'
  <2>1. (done \cap Visited \subseteq marked)'
    BY <1>1, <1>6 DEF IInv, Cut
  <2> QED BY <1>1, <1>2, <1>7, <2>1, CutStays DEF IInv
<1>12. OnlyLoopsMarked'
  BY <1>1, <1>2, LoopsStay DEF IInv, OnlyLoopsMarked
<1> QED
  BY <1>8, <1>9, <1>10, <1>11, <1>12
-----------------------------------------------------------------------------
LEMMA StepIInv ==
  ASSUME IInv, [SearchNext]_search
  PROVE  IInv'
<1>1. CASE SearchNext
  <2>1. Types'
    BY <1>1, TypesKept DEF IInv
  <2>2. CASE Start
    BY <2>1, <2>2, StartStep DEF IInv
  <2>3. CASE Return
    BY <2>1, <2>3, ReturnStep DEF IInv
  <2>4. CASE \E id \in Ids : FollowDone(id)
    BY <2>1, <2>4, FollowDoneStep DEF IInv
  <2>5. CASE \E id \in Ids : FollowLoop(id)
    BY <2>1, <2>5, FollowLoopStep DEF IInv
  <2>6. CASE \E id \in Ids : FollowNew(id)
    BY <2>1, <2>6, FollowNewStep DEF IInv
  <2> QED BY <1>1, <2>2, <2>3, <2>4, <2>5, <2>6 DEF SearchNext
<1>2. CASE UNCHANGED search
  <2>1. refs' = refs /\ order' = order /\ path' = path /\ done' = done /\ marked' = marked
    BY <1>2 DEF search
  <2>2. Types' /\ Distinct'
    BY <2>1 DEF IInv, Types, Distinct, Ids, Frames
  <2>3. Complete' = Complete /\ Ids' = Ids /\ Visited' = Visited
    BY <2>1 DEF Complete, Visited, Ids
  <2>4. Followed' /\ Chain'
    BY <2>1, <2>3 DEF IInv, Followed, Chain, ToFollow, VisitedNext, Refers
  <2>5. Cut'
    BY <2>1, <2>3, CutStays DEF IInv, Cut
  <2>6. OnlyLoopsMarked'
    BY <2>1, LoopsStay DEF IInv, OnlyLoopsMarked
  <2> QED BY <2>2, <2>4, <2>5, <2>6 DEF IInv
<1> QED
  BY <1>1, <1>2

(* LoopsCut holds of the search on any graph: what it leaves unmarked has  *)
(* no loop.                                                                *)
THEOREM LoopsAreCut ==
  ASSUME NEW CONSTANT Nodes, NEW CONSTANT graph \in [Nodes -> Seq(Nodes)],
         NEW CONSTANT sequence \in Seq(Nodes)
  PROVE  SearchInit(graph, sequence) /\ [][SearchNext]_search => []LoopsCut
<1>1. SearchInit(graph, sequence) => IInv
  BY InitIInv
<1>2. IInv /\ [SearchNext]_search => IInv'
  BY StepIInv
<1>3. IInv => LoopsCut
  BY DEF IInv, Cut, LoopsCut, Searched, Complete, Visited, AllRefer
<1> QED
  BY <1>1, <1>2, <1>3, PTL

(* OnlyLoopsMarked holds of it too: each mark is on a member of a loop.    *)
THEOREM MarksAreOnLoops ==
  ASSUME NEW CONSTANT Nodes, NEW CONSTANT graph \in [Nodes -> Seq(Nodes)],
         NEW CONSTANT sequence \in Seq(Nodes)
  PROVE  SearchInit(graph, sequence) /\ [][SearchNext]_search => []OnlyLoopsMarked
<1>1. SearchInit(graph, sequence) => IInv
  BY InitIInv
<1>2. IInv /\ [SearchNext]_search => IInv'
  BY StepIInv
<1>3. IInv => OnlyLoopsMarked
  BY DEF IInv
<1> QED
  BY <1>1, <1>2, <1>3, PTL
=============================================================================
