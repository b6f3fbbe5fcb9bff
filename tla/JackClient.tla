----------------------------- MODULE JackClient -----------------------------
(***************************************************************************)
(* A program as a client of the JACK audio server: interface/jack/target   *)
(* and the class Program that interface/jack/generator.cpp derives from    *)
(* Jack_Client.                                                            *)
(*                                                                         *)
(* Two threads share the object.  Main constructs it and goes to sleep;    *)
(* the process thread, which jack_activate starts, waits for a cycle, runs *)
(* the program for as many ticks as the cycle has frames, signals the end  *)
(* of the cycle and waits for the next.  The server is external.           *)
(***************************************************************************)
EXTENDS ClockedIO

CONSTANTS
  FirstFrames,   (* numbers of frames that the first cycle may have        *)
  Frames,        (* and those of later cycles                              *)
  MaxCycles      (* the server runs at most this many cycles               *)
ASSUME JackAssumption ==
  FirstFrames \subseteq Nat /\ Frames \subseteq Nat /\ MaxCycles \in Nat

VARIABLES
  main,       (* how far main() has come with the constructor of Program   *)
  pc,         (* the process thread                                        *)
  turn,       (* who is running: "server" or "client"                      *)
  cycle,      (* cycles begun                                              *)
  offered,    (* frames of the current cycle                               *)
  base,       (* frames of all cycles before it                            *)
  frames,     (* d_frames_to_process                                       *)
  ticks,      (* d_clock_ticks                                             *)
  buf,        (* d_input_bufs and d_output_bufs                            *)
  complained  (* an error was printed about a buffer                       *)

server == <<turn, cycle, offered, base>>
calls  == <<due, count, where>>
client == <<frames, ticks, buf, complained>>
vars   == <<main, pc, server, client, calls>>

Init ==
  /\ main = "opening" /\ pc = "none"
  /\ turn = "server" /\ cycle = 0 /\ offered = 0 /\ base = 0
  /\ frames = 0 /\ ticks = 0
  /\ buf = [p \in Ports |-> NoBuffer]
  /\ complained = FALSE
  /\ due = Ports
  /\ count = [p \in Ports |-> 0]
  /\ where = [p \in Ports |-> Nowhere]

(* exit() in one thread, an exception nobody catches and a crash end both. *)
Alive == main # "exited" /\ pc # "crashed"
-----------------------------------------------------------------------------
(* The constructors: of Jack_Client until "derived", then of Program       *)
Advance(from, to) ==
  /\ Alive /\ main = from
  /\ main' = to
  /\ UNCHANGED <<pc, server, client, calls>>

Open          == Advance("opening", "opened")
RegisterPorts == Advance("opened", "registered")

Activate ==
  /\ Alive /\ main = "registered"
  /\ main' = "activated" /\ pc' = "starting"
  /\ UNCHANGED <<server, client, calls>>

Connect    == Advance("activated", "derived")
MakeKernel == Advance("derived", "kernel")
SetIo      == Advance("kernel", "ready")

(* No server, no ports, no activation: exit(1) or an exception             *)
ConstructionFails ==
  \E from \in {"opening", "opened", "registered"} : Advance(from, "exited")

-----------------------------------------------------------------------------
(* Inputs of a cycle are full, outputs empty.                              *)
ReceivedBuffer(p) ==
  LET b == Assigned(Wrapped(base, offered))
  IN  IF p \in Inputs THEN produce(b, offered) ELSE b

(* jack_cycle_wait returns, in process_thread or in clock.                 *)
Receive ==
  /\ Alive /\ pc \in {"starting", "waiting"}
  /\ turn = "client"
  /\ frames' = offered
  /\ complained' = (complained \/ \E p \in Ports : readable(buf[p]) # 0)
  /\ buf' = [p \in Ports |-> ReceivedBuffer(p)]
  /\ pc' = IF pc = "starting" THEN "entering" ELSE "checking"
  /\ UNCHANGED <<main, server, ticks, calls>>

(* process() is virtual: while Jack_Client is under construction there is  *)
(* nothing to call, then there is no kernel to call.                       *)
EnterProcess ==
  /\ Alive /\ pc = "entering"
  /\ main \in {"kernel", "ready"}
  /\ pc' = "running"
  /\ UNCHANGED <<main, server, client, calls>>

EnterTooEarly ==
  /\ Alive /\ pc = "entering"
  /\ main \notin {"kernel", "ready"}
  /\ pc' = "crashed"
  /\ UNCHANGED <<main, server, client, calls>>

(* What the kernel calls it finds through its io, which main sets last.    *)
Running == Alive /\ pc = "running" /\ main = "ready"

CallWithoutIo ==
  /\ Alive /\ pc = "running" /\ main = "kernel"
  /\ pc' = "crashed"
  /\ UNCHANGED <<main, server, client, calls>>

(* input(i) and output(i, value)                                           *)
Input(p) ==
  /\ Running
  /\ Serve(p, FrameToPop(buf[p]))
  /\ buf' = [buf EXCEPT ![p] = popped(@)]
  /\ UNCHANGED <<main, pc, server, frames, ticks, complained>>

Output(p) ==
  /\ Running
  /\ Serve(p, FrameToPush(buf[p], frames))
  /\ buf' = [buf EXCEPT ![p] = pushed(@)]
  /\ UNCHANGED <<main, pc, server, frames, ticks, complained>>

(* clock: count the tick, then transmit as long as the cycle is over       *)
Clock ==
  /\ Running
  /\ ClockCall
  /\ ticks' = ticks + 1
  /\ pc' = "checking"
  /\ UNCHANGED <<main, server, frames, buf, complained>>

(* Mutated: transmits one tick late; only looks again if there were frames *)
CycleOverLate == ticks > frames
CycleOverOnce == ticks >= frames /\ ticks # 0

CycleOver == ticks >= frames

(* Mutated: no signal for a cycle without frames                           *)
SendIfFrames ==
  /\ complained' = (complained \/ \E p \in Outputs : readable(buf[p]) # frames)
  /\ buf' = [p \in Ports |-> IF p \in Outputs THEN clear(buf[p]) ELSE buf[p]]
  /\ turn' = IF frames = 0 THEN turn ELSE "server"

send ==
  /\ complained' = (complained \/ \E p \in Outputs : readable(buf[p]) # frames)
  /\ buf' = [p \in Ports |-> IF p \in Outputs THEN clear(buf[p]) ELSE buf[p]]
  /\ turn' = "server"

Transmit ==
  /\ Alive /\ pc = "checking"
  /\ CycleOver
  /\ ticks' = 0
  /\ send
  /\ pc' = "waiting"
  /\ UNCHANGED <<main, cycle, offered, base, frames, calls>>

ReturnFromClock ==
  /\ Alive /\ pc = "checking"
  /\ ~CycleOver
  /\ pc' = "running"
  /\ UNCHANGED <<main, server, client, calls>>

-----------------------------------------------------------------------------
(* The server begins a cycle once the client waits for one.                *)
StartCycle ==
  /\ Alive /\ pc \in {"starting", "waiting"}
  /\ turn = "server"
  /\ cycle < MaxCycles
  /\ turn' = "client"
  /\ cycle' = cycle + 1
  /\ base' = base + offered
  /\ offered' \in IF cycle = 0 THEN FirstFrames ELSE Frames
  /\ UNCHANGED <<main, pc, client, calls>>

(* shutdown_cb: exit(1), whatever the threads are doing                    *)
Shutdown ==
  /\ Alive /\ main # "opening"
  /\ main' = "exited"
  /\ UNCHANGED <<pc, server, client, calls>>

Main == Open \/ RegisterPorts \/ Activate \/ Connect \/ MakeKernel \/ SetIo

Process ==
  \/ Receive \/ EnterProcess \/ EnterTooEarly \/ CallWithoutIo
  \/ \E p \in Inputs : Input(p)
  \/ \E p \in Outputs : Output(p)
  \/ Clock \/ Transmit \/ ReturnFromClock

Next == Main \/ ConstructionFails \/ Process \/ StartCycle \/ Shutdown

(* The operating system runs both threads.                                 *)
Spec == Init /\ [][Next]_vars /\ WF_vars(Main) /\ WF_vars(Process)
-----------------------------------------------------------------------------
(* The types; a cycle is never asked for more ticks than it has frames.    *)
TypeOK ==
  /\ main \in {"opening", "opened", "registered", "activated", "derived",
               "kernel", "ready", "exited"}
  /\ pc \in {"none", "starting", "entering", "running", "checking", "waiting",
             "crashed"}
  /\ turn \in {"server", "client"}
  /\ complained \in BOOLEAN
  /\ due \in SUBSET Ports
  /\ ticks \in 0..frames

(* The n-th sample read from an input is the n-th frame the server has     *)
(* delivered on that port, and the n-th one written becomes the n-th frame *)
(* it plays, over all cycles, however many frames they have: none is       *)
(* skipped, repeated, or read or written outside the block of its cycle.   *)
InStep == \A p \in Ports : count[p] > 0 => where[p] = count[p] - 1

(* When the client hands a cycle back, every frame of it has been read and *)
(* written on every port.  Otherwise it would print "Input buffer not      *)
(* consumed" or "Output buffer unexpected data size".                      *)
WholeCycles ==
  /\ ~complained
  /\ pc = "waiting" /\ turn = "server" =>
       \A p \in Ports : count[p] = base + offered

(* A cycle that the server has begun is handed back, if the process lives. *)
Answered == turn = "client" ~> (turn = "server" \/ ~Alive)

(* "Tell the JACK server that we are ready to roll.  Our process() callback *)
(* will start running now.": it finds a program that it can run.           *)
ReadyToRoll == pc # "crashed"
=============================================================================
