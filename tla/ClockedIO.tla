----------------------------- MODULE ClockedIO ------------------------------
(***************************************************************************)
(* What the runtime interfaces have in common: the calls a program makes   *)
(* that was compiled with --io-common-clock, and interface/linear_buffer.h, *)
(* the buffers that hold one block of samples per port.                    *)
(*                                                                         *)
(* add_io_clock orders the instances of inputs, outputs and the clock: all *)
(* x[i] before clock[i], clock[i] before all x[i+1].  In which order the   *)
(* ports are served within a tick is up to the schedule.                   *)
(***************************************************************************)
EXTENDS Integers

CONSTANTS Inputs, Outputs      (* the ports: streams of samples            *)
ASSUME PortsAssumption == Inputs \cap Outputs = {}

Ports == Inputs \cup Outputs

VARIABLES
  due,      (* ports the program has yet to serve before the clock ticks   *)
  count,    (* samples that went through each port since the program began *)
  where     (* for each port, the frame that the last one went to or came  *)
            (* from                                                        *)

(* Reading past what has been delivered, or writing past the block         *)
Nowhere == -1

(* x[i] or y[i]: at most once per tick, and in any order                   *)
Serve(p, frame) ==
  /\ p \in due
  /\ due' = due \ {p}
  /\ count' = [count EXCEPT ![p] = @ + 1]
  /\ where' = [where EXCEPT ![p] = frame]

(* clock[i], once everything at i is done                                  *)
ClockCall ==
  /\ due = {}
  /\ due' = Ports
  /\ UNCHANGED <<count, where>>

-----------------------------------------------------------------------------
(* Linear_Buffer<T>.  A pointer to samples is the number of the frame that *)
(* the first of them belongs to.                                           *)
Wrapped(data, size) == [data |-> data, capacity |-> size, rd |-> 0, wr |-> 0]
NoBuffer == Wrapped(Nowhere, 0)

(* operator=: the copy of a buffer with data of its own keeps its capacity; *)
(* the storage of one that wraps external data has size 0.                 *)
Assigned(b) == [b EXCEPT !.capacity = 0]

readable(b)   == b.wr - b.rd
clear(b)      == [b EXCEPT !.rd = 0, !.wr = 0]
produce(b, n) == [b EXCEPT !.wr = @ + n]
popped(b)     == [b EXCEPT !.rd = @ + 1]
pushed(b)     == [b EXCEPT !.wr = @ + 1]

(* The frames that pop() and push() get at; neither looks at a bound, so   *)
(* that how much memory there is comes in as size.                         *)
FrameToPop(b)        == IF b.rd < b.wr THEN b.data + b.rd ELSE Nowhere
FrameToPush(b, size) == IF b.wr < size THEN b.data + b.wr ELSE Nowhere
=============================================================================
