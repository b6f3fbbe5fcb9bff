---------------------------- MODULE ArrayProgram ----------------------------
(***************************************************************************)
(* What a program means: its arrays are unbounded, every element is        *)
(* written once, and the instances of its statements execute one after     *)
(* another in the order of the schedule, for ever if there are infinitely  *)
(* many.  A read finds the very element it asks for.                       *)
(*                                                                         *)
(* This is the promise of the full schedule (polyhedral::schedule::full)   *)
(* and of the array accesses of polyhedral::statement, which the generated *)
(* code has to keep with its finite buffers and its repeated period.       *)
(***************************************************************************)
EXTENDS AffineProgram

VARIABLES
  prog,   (* any program                                                   *)
  next,   (* for each statement, the next element of its domain, or End    *)
  seen    (* the instance executed last, and the elements that it read     *)

vars == <<prog, next, seen>>

NoneYet == <<>>

(* The next instances of all statements that have not ended                *)
Ready(p, n) == {<<m, n[m]>> : m \in {k \in Statements(p) : n[k] # End}}

Init ==
  /\ next = [n \in Statements(prog) |-> FirstFrom(prog.stmts[n], 0)]
  /\ seen = NoneYet

(* What an instance reads, by rights                                       *)
Elements(s, i) == [n \in DOMAIN s.reads |-> Index(s.reads[n], i)]

Execute(n) ==
  LET s == prog.stmts[n]
      i == next[n]
      ready == Ready(prog, next)
  IN  /\ <<n, i>> \in ready
      /\ \A e \in ready : Key(prog, <<n, i>>) <= Key(prog, e)
      /\ next' = [next EXCEPT ![n] = FirstFrom(s, i + 1)]
      /\ seen' = [stmt |-> n, index |-> i, read |-> Elements(s, i)]
      /\ UNCHANGED prog

Next == \E n \in Statements(prog) : Execute(n)

Spec == Init /\ [][Next]_vars
=============================================================================
