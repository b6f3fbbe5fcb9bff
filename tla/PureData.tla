------------------------------ MODULE PureData ------------------------------
(***************************************************************************)
(* A program as a signal object of Pure Data: interface/puredata/target.   *)
(*                                                                         *)
(* The host calls process_pd_signals once per block; the program runs in a *)
(* coroutine that gives way at the end of the block, inside of clock().    *)
(* When the host sets up its signal graph, for a block size and with       *)
(* signal vectors of its choosing, processing starts over.  An inlet may   *)
(* share its vector with other inlets, and with an outlet.  The host is    *)
(* external.                                                               *)
(***************************************************************************)
EXTENDS ClockedIO

CONSTANTS
  Vectors,      (* the host's signal vectors                               *)
  BlockSizes,   (* block sizes it may choose                               *)
  MaxBlocks,    (* blocks processed after each set-up, at most             *)
  MaxSetups     (* times the graph is set up, at most                      *)
ASSUME PureDataAssumption ==
  BlockSizes \subseteq Nat \ {0} /\ MaxBlocks \in Nat /\ MaxSetups \in Nat

VARIABLES
  pc,           (* "host"; "called", in process_pd_signals before it runs  *)
                (* the routine; "routine"; "returned"; "deleted"           *)
  routine,      (* kernel_routine: "none", "created" or "suspended"        *)
  vector,       (* inlet_buffers and outlet_buffers                        *)
  mem,          (* contents of the signal vectors: <<source, frame>> each  *)
  buf_size,     (* of the object                                           *)
  d_buffer_size,(* of the kernel, and its d_elapsed_ticks                  *)
  ticks,
  buf,          (* d_inputs and d_outputs of the kernel                    *)
  own,          (* what the storage of an input buffer holds               *)
  blocks,       (* blocks since the graph was set up                       *)
  setups

host   == <<vector, mem, buf_size, blocks, setups>>
kernel == <<d_buffer_size, ticks, buf, own>>
calls  == <<due, count, where>>
vars   == <<pc, routine, host, kernel, calls>>

Silence == <<>>
Base == blocks * buf_size     (* the first frame of the block              *)

Init ==
  /\ pc = "host" /\ routine = "none"
  /\ vector = <<>>
  /\ mem = <<>>
  /\ buf_size = 0 /\ blocks = 0 /\ setups = 0
  /\ d_buffer_size = 0 /\ ticks = 0
  /\ buf = [p \in Ports |-> NoBuffer]
  /\ own = [p \in Inputs |-> <<>>]
  /\ due = Ports
  /\ count = [p \in Ports |-> 0]
  /\ where = [p \in Ports |-> Nowhere]

-----------------------------------------------------------------------------
(* An outlet has a vector that is no other outlet's.                       *)
Assignments ==
  {f \in [Ports -> Vectors] : \A p, q \in Outputs : f[p] = f[q] => p = q}

Frames(n) == 0..(n - 1)

(* setup_pd_process_callback.  allocate(): storage of the size of a block  *)
SetUp ==
  /\ pc = "host" /\ setups < MaxSetups
  /\ routine' = "created"
  /\ vector' \in Assignments
  /\ buf_size' \in BlockSizes
  /\ mem' = [v \in Vectors |-> [f \in Frames(buf_size') |-> Silence]]
  /\ buf' = [p \in Ports |-> IF p \in Inputs THEN Wrapped(0, buf_size') ELSE buf[p]]
  /\ own' = [p \in Inputs |-> [f \in Frames(buf_size') |-> Silence]]
  /\ blocks' = 0 /\ setups' = setups + 1
  /\ count' = [p \in Ports |-> 0]
  /\ where' = [p \in Ports |-> Nowhere]
  /\ UNCHANGED <<pc, d_buffer_size, ticks, due>>

(* The host has put the next block in the vectors of the inlets and calls. *)
Block ==
  /\ pc = "host" /\ routine # "none"
  /\ blocks < MaxBlocks
  /\ pc' = "called"
  /\ mem' = [v \in Vectors |->
               IF \E p \in Inputs : vector[p] = v
               THEN [f \in Frames(buf_size) |-> <<"host", Base + f>>]
               ELSE mem[v]]
  /\ UNCHANGED <<routine, vector, buf_size, blocks, setups, kernel, calls>>

(* Mutated: an output keeps the buffer of the block before                 *)
BufferKept(p) ==
  IF p \in Inputs THEN produce(clear(buf[p]), buf[p].capacity)
  ELSE IF buf[p].data = Nowhere THEN Assigned(Wrapped(0, buf_size)) ELSE buf[p]

(* process_pd_signals up to co_call: inputs are copied to storage of their *)
(* own, outputs go directly to the outlets.                                *)
BufferFor(p) ==
  IF p \in Inputs THEN produce(clear(buf[p]), buf[p].capacity)
  ELSE Assigned(Wrapped(0, buf_size))

Prepare ==
  /\ own' = [p \in Inputs |->
               [f \in Frames(buf_size) |->
                  IF f < buf[p].capacity THEN mem[vector[p]][f] ELSE own[p][f]]]
  /\ buf' = [p \in Ports |-> BufferFor(p)]

(* The routine begins with process(), which makes a new program, or goes   *)
(* on after co_resume in clock().                                          *)
CallRoutine ==
  /\ pc = "called"
  /\ pc' = "routine"
  /\ Prepare
  /\ ticks' = 0
  /\ IF routine = "created"
     THEN d_buffer_size' = buf_size /\ due' = Ports
     ELSE UNCHANGED <<d_buffer_size, due>>
  /\ UNCHANGED <<routine, host, count, where>>

(* The frame that a sample in an input is from, unless a program wrote it  *)
FrameOf(sample) ==
  IF sample # Silence /\ sample[1] = "host" THEN sample[2] ELSE Nowhere

(* Mutated: reads the inlet's vector, without a copy                       *)
FrameInVector(p, i) ==
  IF i < buf[p].wr THEN FrameOf(mem[vector[p]][i]) ELSE Nowhere

FrameRead(p, i) ==
  IF i < buf[p].wr THEN FrameOf(own[p][i]) ELSE Nowhere

Input(p) ==
  /\ pc = "routine"
  /\ Serve(p, FrameRead(p, buf[p].rd))
  /\ buf' = [buf EXCEPT ![p] = popped(@)]
  /\ UNCHANGED <<pc, routine, host, d_buffer_size, ticks, own>>

Output(p) ==
  /\ pc = "routine"
  /\ LET frame == FrameToPush(buf[p], buf_size)
     IN  /\ Serve(p, IF frame = Nowhere THEN Nowhere ELSE Base + frame)
         /\ mem' = IF frame = Nowhere THEN mem
                   ELSE [mem EXCEPT ![vector[p]][frame] = <<p, count[p]>>]
  /\ buf' = [buf EXCEPT ![p] = pushed(@)]
  /\ UNCHANGED <<pc, routine, vector, buf_size, blocks, setups,
                 d_buffer_size, ticks, own>>

(* Mutated: gives way one tick late                                        *)
BlockOverLate == ticks + 1 > d_buffer_size
BlockOver == ticks + 1 >= d_buffer_size

(* clock: at the end of the block co_resume gives way to the host; ticks   *)
(* is reset when the routine is called again.                              *)
Clock ==
  /\ pc = "routine"
  /\ ClockCall
  /\ ticks' = ticks + 1
  /\ IF BlockOver
     THEN pc' = "returned" /\ routine' = "suspended"
     ELSE UNCHANGED <<pc, routine>>
  /\ UNCHANGED <<host, d_buffer_size, buf, own>>

Return ==
  /\ pc = "returned"
  /\ pc' = "host"
  /\ blocks' = blocks + 1
  /\ UNCHANGED <<routine, vector, mem, buf_size, setups, kernel, calls>>

Destroy ==
  /\ pc = "host"
  /\ pc' = "deleted" /\ routine' = "none"
  /\ UNCHANGED <<host, kernel, calls>>

Next ==
  \/ SetUp \/ Block \/ CallRoutine
  \/ \E p \in Inputs : Input(p)
  \/ \E p \in Outputs : Output(p)
  \/ Clock \/ Return \/ Destroy

Spec == Init /\ [][Next]_vars
-----------------------------------------------------------------------------
(* The types; the kernel counts ticks up to the size of the block it is in. *)
TypeOK ==
  /\ pc \in {"host", "called", "routine", "returned", "deleted"}
  /\ routine \in {"none", "created", "suspended"}
  /\ due \in SUBSET Ports
  /\ pc = "routine" => ticks \in Frames(d_buffer_size) /\ d_buffer_size = buf_size

(* Since the graph was set up last, the n-th sample read from an inlet is  *)
(* the n-th the host has put there, also if an outlet has its vector, and  *)
(* the n-th sample written is meant for the n-th frame of the outlet.      *)
InStep == \A p \in Ports : count[p] > 0 => where[p] = count[p] - 1

(* When process_pd_signals returns, the vectors of the outlets hold the    *)
(* frames of this block and every input has been consumed.                 *)
BlockComplete ==
  pc = "returned" =>
    /\ \A p \in Outputs : \A f \in Frames(buf_size) :
         mem[vector[p]][f] = <<p, Base + f>>
    /\ \A p \in Inputs : readable(buf[p]) = 0
=============================================================================
