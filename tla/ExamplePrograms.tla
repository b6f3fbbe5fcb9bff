-------------------------- MODULE ExamplePrograms ---------------------------
(***************************************************************************)
(* Small programs of the kinds that the compiler's tests and examples are  *)
(* made of, each with several of the schedules isl may give it, for the    *)
(* models that TLC checks.  In all of them x is the input.                 *)
(***************************************************************************)
EXTENDS AffineProgram

CONSTANTS
  MaxDelay,   (* filters look back 1..MaxDelay elements                    *)
  MaxLag      (* statements run up to MaxLag later than their input        *)

From(n)     == {[first |-> n, stride |-> 1, last |-> Infinite]}
FromTo(m, n) == {[first |-> m, stride |-> 1, last |-> n]}

At(array, mul, off) == [array |-> array, mul |-> mul, off |-> off]

Stmt(band, rate, start, domain, reads, writes) ==
  [band |-> band, rate |-> rate, start |-> start, io |-> FALSE,
   domain |-> domain, reads |-> reads, writes |-> writes]
Io(s) == [s EXCEPT !.io = TRUE]
Input(rate)            == Io(Stmt(2, rate, 0, From(0), <<>>, <<At(1, 1, 0)>>))
Output(rate, start, a) == Io(Stmt(2, rate, start, From(0), <<At(a, 1, 0)>>, <<>>))

Stream        == [is_infinite |-> TRUE, size |-> Infinite, elem_size |-> 4]
Table(n)      == [is_infinite |-> FALSE, size |-> n, elem_size |-> 8]
Delays == 1..MaxDelay
Lags   == 0..MaxLag
Streams(n) == [k \in 1..n |-> Stream]

(* y[n] = x[n] while n < d, then x[n] + x[n-d]; the first elements may be  *)
(* in a part of their own.                                                 *)
Filters ==
  {[arrays |-> Streams(2),
    stmts  |-> <<Input(1),
                 Stmt(2, 1, s, FromTo(0, d - 1), <<At(1, 1, 0)>>, <<At(2, 1, 0)>>),
                 Stmt(2, 1, t, From(d), <<At(1, 1, 0), At(1, 1, -d)>>, <<At(2, 1, 0)>>),
                 Output(1, u, 2)>>] : d \in Delays, s \in Lags, t \in Lags, u \in Lags}

(* y[n] = 0 while n < d, then y[n-d] + x[n-d]                              *)
Recursions ==
  {[arrays |-> Streams(2),
    stmts  |-> <<Input(1),
                 Stmt(b, 1, 0, FromTo(0, d - 1), <<>>, <<At(2, 1, 0)>>),
                 Stmt(2, 1, t, From(d), <<At(2, 1, -d), At(1, 1, -d)>>, <<At(2, 1, 0)>>),
                 Output(1, u, 2)>>] : d \in Delays, b \in 1..2, t \in {-1, 0, 2}, u \in Lags}

(* y[n] = 0 while n < d, then x[n-d], where input comes in d later         *)
LateInputs ==
  {[arrays |-> Streams(2),
    stmts  |-> <<[Input(1) EXCEPT !.start = d],
                 Stmt(2, 1, 0, FromTo(0, d - 1), <<>>, <<At(2, 1, 0)>>),
                 Stmt(2, 1, 0, From(d), <<At(1, 1, -d)>>, <<At(2, 1, 0)>>),
                 Output(1, u, 2)>>] : d \in Delays, u \in Lags}

(* y[n] = x[2n] + x[2n+1] + x[2n+d]                                        *)
Decimations ==
  {[arrays |-> Streams(2),
    stmts  |-> <<Input(1),
                 Stmt(2, 2, t, From(0), <<At(1, 2, 0), At(1, 2, 1), At(1, 2, d)>>,
                                        <<At(2, 1, 0)>>),
                 Output(2, t + u, 2)>>] : d \in Delays, t \in 0..(2 * MaxLag), u \in Lags}

(* w[n] = x[n] + x[n+1], y[n] = w[2n]: half of w is never read             *)
Thinnings ==
  {[arrays |-> Streams(3),
    stmts  |-> <<Input(1),
                 Stmt(2, 1, s, From(0), <<At(1, 1, 0), At(1, 1, 1)>>, <<At(2, 1, 0)>>),
                 Stmt(2, 2, t, From(0), <<At(2, 2, 0)>>, <<At(3, 1, 0)>>),
                 Output(2, t, 3)>>] : s \in 1..(1 + MaxLag), t \in 1..(1 + MaxLag)}

(* y[2n] = x[n], y[2n+1] = x[n] + x[n-1] from n = 1                        *)
Expansions ==
  {[arrays |-> Streams(2),
    stmts  |-> <<Input(2),
                 Stmt(2, 2, s, From(0), <<At(1, 1, 0)>>, <<At(2, 2, 0)>>),
                 Stmt(2, 2, s, FromTo(0, 0), <<>>, <<At(2, 2, 1)>>),
                 Stmt(2, 2, s, From(1), <<At(1, 1, 0), At(1, 1, -1)>>, <<At(2, 2, 1)>>),
                 Output(1, s + u, 2)>>] : s \in Lags, u \in Lags}

(* y[n] = x[n] + t[0] + t[c], where table t is filled first                *)
Tables ==
  {[arrays |-> <<Stream, Table(3), Stream>>,
    stmts  |-> <<Input(1),
                 Stmt(1, 1, 0, FromTo(0, 2), <<>>, <<At(2, 1, 0)>>),
                 Stmt(2, 1, s, From(0), <<At(1, 1, 0), At(2, 0, 0), At(2, 0, c)>>,
                                        <<At(3, 1, 0)>>),
                 Output(1, s + u, 3)>>] : c \in 1..2, s \in Lags, u \in Lags}

(* y[n] = w[0] + w[1] + x[n], where w is infinite but hardly used          *)
Initials ==
  {[arrays |-> Streams(3),
    stmts  |-> <<Input(1),
                 Stmt(b, 1, 0, From(0), <<>>, <<At(2, 1, 0)>>),
                 Stmt(2, 1, s, From(0), <<At(2, 0, 0), At(2, 0, 1), At(1, 1, 0)>>,
                                        <<At(3, 1, 0)>>),
                 Output(1, s, 3)>>] : b \in 1..2, s \in Lags}

(* y makes accesses `reads' to z, which is the input or has z[n] = x[n],   *)
(* and is executed before or after others at the same time.                *)
Reading(z, reads) ==
  LET y(r) == Stmt(2, r, 1, From(0), reads, <<At(z + 1, 1, 0)>>)
      copy == Stmt(2, 1, 0, From(0), <<At(1, 1, 0)>>, <<At(2, 1, 0)>>)
      program(stmts) == [arrays |-> Streams(z + 1), stmts |-> stmts]
      ofInput(r) == {<<Input(1), y(r), Output(r, 1, 2)>>, <<y(r), Input(1), Output(r, 1, 2)>>}
      ofCopy(r)  == {<<Input(1), copy, y(r), Output(r, 1, 3)>>,
                     <<Input(1), y(r), copy, Output(r, 1, 3)>>}
  IN  {program(stmts) : stmts \in UNION {IF z = 1 THEN ofInput(r) ELSE ofCopy(r) : r \in 1..2}}

(* y[n] = z[n] + z[0], which no finite buffer can do                       *)
Unbuffered ==
  UNION {Reading(z, <<At(z, 0, 0), At(z, 1, 0)>>) \cup Reading(z, <<At(z, 1, 0), At(z, 0, 0)>>) :
           z \in 1..2}

(* y[n] = x[0], for which x is written for ever and x[0] stays in place    *)
FirstElement == Reading(1, <<At(1, 0, 0)>>)

(* y = w[3], where nothing else of the infinite array w is asked for       *)
OneElement ==
  {[arrays |-> Streams(1),
    stmts  |-> <<Stmt(1, 1, 0, From(0), <<>>, <<At(1, 1, 0)>>),
                 Io(Stmt(2, 1, 0, FromTo(0, 0), <<At(1, 0, 3)>>, <<>>))>>]}

(* The input is read to its end before the output starts.                  *)
Sequential ==
  {[arrays |-> Streams(1),
    stmts  |-> <<[Input(1) EXCEPT !.band = 1], Output(1, 0, 1)>>]}

(* y[n] = x[2n]: half of the input is never read, but still comes in       *)
Skipping ==
  {[arrays |-> Streams(2),
    stmts  |-> <<Input(1),
                 Stmt(2, 2, t, From(0), <<At(1, 2, 0)>>, <<At(2, 1, 0)>>),
                 Output(2, t, 2)>>] : t \in Lags}

RunnablePrograms ==
  {p \in Filters \cup Recursions \cup LateInputs \cup Decimations \cup Thinnings
           \cup Expansions \cup Tables \cup Initials : RespectsDataFlow(p)}
=============================================================================
