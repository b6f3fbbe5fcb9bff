---------------------------- MODULE CallSequence ----------------------------
(***************************************************************************)
(* The calls of a generated class: prelude(), then period() again and      *)
(* again, and the instances that each of them executes.                    *)
(***************************************************************************)
EXTENDS GeneratedCode

CONSTANT MaxPeriods    (* how often period() is called, at most             *)
ASSUME KernelAssumption == MaxPeriods \in Nat

(* Call 0 is that of prelude(), call m the m-th of period(), whose         *)
(* instances are those of the first moved on.                              *)
Calls == 0..(MaxPeriods + 1)
CodeOf(c, m) == IF m = 0 THEN c.prelude ELSE c.period
InCall(c, e, m) ==
  IF m = 0 THEN e
  ELSE <<e[1], e[2] + (m - 1) * (c.period_size \div c.prog.stmts[e[1]].rate)>>

KeyAt(c, m, n) == Key(c.prog, InCall(c, CodeOf(c, m)[n], m))
StartOf(c, m)  == KeyAt(c, m, 1)

(* A period is looked at as long as all of it is before the horizon.       *)
BeforeHorizon(c, n) ==
  \A j \in DOMAIN c.period :
    LET e == c.period[j]
        s == c.prog.stmts[e[1]]
    IN  Time(s, e[2] + n * (c.period_size \div s.rate)) < Horizon
=============================================================================
