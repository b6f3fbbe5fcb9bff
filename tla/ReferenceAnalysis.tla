-------------------------- MODULE ReferenceAnalysis --------------------------
(***************************************************************************)
(* Recursive definitions found by a depth-first search along references    *)
(* (frontend/reference_analysis.cpp).  The search goes through all         *)
(* definitions in their order.  `path' has the definitions being visited,  *)
(* each with the references in it that are still to be followed.           *)
(*                                                                         *)
(* A definition that a loop leads back to is done from then on, although   *)
(* it is still being visited: a second loop through it is not followed to  *)
(* its end, and who is only on that second loop is not marked.             *)
(***************************************************************************)
EXTENDS Integers, Sequences

VARIABLES refs,     \* the references in each definition, in order
          order,    \* the definitions that are still to be processed
          path,     \* m_visited_ids
          done,     \* m_done_ids
          marked    \* those with is_recursive

search == <<refs, order, path, done, marked>>

Ids == DOMAIN refs
Visited == {path[k].id : k \in DOMAIN path}
Enter(p, id) == Append(p, [id |-> id, left |-> refs[id]])

SearchInit(graph, sequence) ==
  /\ refs = graph
  /\ order = sequence
  /\ path = <<>> /\ done = {} /\ marked = {}

(* process(ids): the next definition                                       *)
Start ==
  /\ path = <<>> /\ order # <<>>
  /\ order' = Tail(order)
  /\ path' = IF Head(order) \in done THEN path ELSE Enter(path, Head(order))
  /\ UNCHANGED <<refs, done, marked>>

Top == path[Len(path)]
Following(id) ==
  /\ path # <<>> /\ Top.left # <<>> /\ Head(Top.left) = id
  /\ UNCHANGED <<refs, order>>
Rest == [path EXCEPT ![Len(path)].left = Tail(@)]

(* process(start) for a reference: to a definition that is done,           *)
FollowDone(id) ==
  /\ Following(id) /\ id \in done
  /\ path' = Rest
  /\ UNCHANGED <<done, marked>>

(* Mutated: the definition that a loop leads back to is not marked.        *)
FollowLoopPastStart(id) ==
  /\ Following(id) /\ id \in Visited \ done
  /\ \E first \in DOMAIN path :
       /\ path[first].id = id
       /\ marked' = marked \cup {path[k].id : k \in (first + 1)..Len(path)}
  /\ done' = done \cup {id}
  /\ path' = Rest

(* Mutated: the whole path is marked, not only the loop at its end.        *)
FollowLoopFromRoot(id) ==
  /\ Following(id) /\ id \in Visited \ done
  /\ marked' = marked \cup Visited
  /\ done' = done \cup {id}
  /\ path' = Rest

(* to one that is being visited, which is a loop,                          *)
FollowLoop(id) ==
  /\ Following(id) /\ id \in Visited \ done
  /\ \E first \in DOMAIN path :
       /\ path[first].id = id
       /\ marked' = marked \cup {path[k].id : k \in first..Len(path)}
  /\ done' = done \cup {id}
  /\ path' = Rest

(* and to one that has not been seen.                                      *)
FollowNew(id) ==
  /\ Following(id) /\ id \notin done \cup Visited
  /\ path' = Enter(Rest, id)
  /\ UNCHANGED <<done, marked>>

Return ==
  /\ path # <<>> /\ Top.left = <<>>
  /\ done' = done \cup {Top.id}
  /\ path' = SubSeq(path, 1, Len(path) - 1)
  /\ UNCHANGED <<refs, order, marked>>

SearchNext ==
  \/ Start \/ Return
  \/ \E id \in Ids : FollowDone(id) \/ FollowLoop(id) \/ FollowNew(id)

Searched == path = <<>> /\ order = <<>>
-----------------------------------------------------------------------------
Refers(u, v) == \E k \in DOMAIN refs[u] : refs[u][k] = v

(* No loop without a mark: among definitions that are done and not marked  *)
(* there is always one that refers to none of the others, nor to itself.   *)
(* Function reduction copies functions until none is left, and the type    *)
(* checker goes from definition to definition until it has a type: neither *)
(* comes to an end on a loop that nobody has marked.                       *)
LoopsCut ==
  Searched => \A S \in SUBSET (done \ marked) :
                S # {} => \E u \in S : \A v \in S : ~Refers(u, v)

(* A definition is on a loop if whatever has all that it refers to, and    *)
(* all that those refer to, has the definition itself.                     *)
Closed(S) == \A u \in S : \A v \in Ids : Refers(u, v) => v \in S
OnLoop(u) == \A S \in SUBSET Ids :
               (Closed(S) /\ \A v \in Ids : Refers(u, v) => v \in S) => u \in S

(* Nothing but members of loops is marked: a mark makes the type checker   *)
(* accept a reference without a type, and a function an error.             *)
OnlyLoopsMarked == \A u \in marked : OnLoop(u)

(* frontend/reference_analysis.hpp says: "Set identifier::is_recursive to  *)
(* true if identifier is part of a reference loop."                        *)
LoopMembersMarked == Searched => \A u \in done : OnLoop(u) => u \in marked
=============================================================================
