---------------------------- MODULE GeneratedCode ----------------------------
(***************************************************************************)
(* What the generated class consists of, as Generated in BufferLayout has  *)
(* it: a program, the instances of its prelude and of its first period,    *)
(* and a buffer for each array.                                            *)
(***************************************************************************)
EXTENDS AffineProgram

VARIABLE code   (* what the compiler makes and the class then is            *)

Buffer ==
  [cells : Nat \ {0}, wraps : BOOLEAN, has_phase : BOOLEAN,
   shift : [period_count : Nat \ {0}, size : Nat, source : Nat],
   on_stack : BOOLEAN]

(* What the class relies on in the code and the buffers made for it        *)
WellFormed(c) ==
  /\ c.period_size \in Nat \ {0}
  /\ c.buffers \in [Arrays(c.prog) -> Buffer]
  /\ c.advance \in [Arrays(c.prog) -> Nat]
  /\ \A a \in Arrays(c.prog) :
       LET b == c.buffers[a]
       IN  /\ b.wraps => b.shift.size = 0
           /\ b.has_phase /\ b.shift.size = 0 => b.wraps
=============================================================================
