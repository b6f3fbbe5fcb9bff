--------------------------- MODULE PureDataProofs ----------------------------
(***************************************************************************)
(* The hand-over between Pure Data and a program is right for any ports,   *)
(* any signal vectors that the host assigns them, any block sizes, and any *)
(* number of blocks and of times the graph is set up.                      *)
(***************************************************************************)
EXTENDS PureData, TLAPS

Buffers == [data : Int, capacity : Int, rd : Int, wr : Int]

Samples == {Silence} \cup (({"host"} \cup Outputs) \X Nat)

Types ==
  /\ pc \in {"host", "called", "routine", "returned", "deleted"}
  /\ routine \in {"none", "created", "suspended"}
  /\ pc \in {"called", "routine", "returned"} => routine # "none"
  /\ buf_size \in Nat /\ d_buffer_size \in Nat /\ ticks \in Nat /\ blocks \in Nat
  /\ setups \in Nat
  /\ due \in SUBSET Ports
  /\ count \in [Ports -> Nat]
  /\ where \in [Ports -> Int]
  /\ buf \in [Ports -> Buffers]
  /\ routine = "suspended" => d_buffer_size = buf_size

(* What setting up the graph establishes                                   *)
Established ==
  routine # "none" =>
    /\ buf_size > 0
    /\ vector \in Assignments
    /\ mem \in [Vectors -> [Frames(buf_size) -> Samples]]
    /\ own \in [Inputs -> [Frames(buf_size) -> Samples]]
    /\ \A p \in Inputs : buf[p].capacity = buf_size

(* Between two blocks, the program is at the beginning of a tick, and each *)
(* port has had as many samples as there were frames.                      *)
Between ==
  pc \in {"host", "called"} =>
    /\ due = Ports
    /\ \A p \in Ports : count[p] = Base

(* The host's block is in the vectors of the inlets.                       *)
Delivered ==
  pc = "called" =>
    \A p \in Inputs : \A f \in Frames(buf_size) :
      mem[vector[p]][f] = <<"host", Base + f>>

(* Within a block: each port is at the tick, or one ahead if it has been   *)
(* served; the block that was copied is in the storage of the inputs, and  *)
(* what has been written is in the vectors of the outlets.                 *)
AtTick(p) ==
  /\ count[p] = Base + ticks + (IF p \in due THEN 0 ELSE 1)
  /\ p \in Inputs =>
       /\ buf[p].rd = count[p] - Base /\ buf[p].wr = buf_size
       /\ \A f \in Frames(buf_size) : own[p][f] = <<"host", Base + f>>
  /\ p \in Outputs =>
       /\ buf[p].data = 0 /\ buf[p].rd = 0 /\ buf[p].wr = count[p] - Base
       /\ \A f \in Frames(buf_size) :
            f < buf[p].wr => mem[vector[p]][f] = <<p, Base + f>>

Within ==
  pc \in {"routine", "returned"} =>
    /\ d_buffer_size = buf_size
    /\ pc = "routine" => ticks < buf_size
    /\ pc = "returned" => ticks = buf_size /\ due = Ports
    /\ \A p \in Ports : AtTick(p)

IInv == Types /\ Established /\ Between /\ Delivered /\ Within /\ InStep

-----------------------------------------------------------------------------
(* A sample of the host is one with a frame; the vector of an outlet is    *)
(* not that of another one.                                                *)
LEMMA HostSample ==
  ASSUME NEW n \in Nat
  PROVE  FrameOf(<<"host", n>>) = n
<1>1. <<"host", n>> # <<>>
  OBVIOUS
<1> QED BY <1>1 DEF FrameOf, Silence

LEMMA VectorsOfOutputs ==
  ASSUME NEW f \in Assignments
  PROVE  /\ \A p \in Ports : f[p] \in Vectors
         /\ \A p, q \in Outputs : f[p] = f[q] => p = q
BY DEF Assignments

(* The first frame of a block is that of the block before, and its size    *)
LEMMA NextBase ==
  ASSUME NEW b \in Nat, NEW s \in Nat
  PROVE  b * s \in Nat /\ (b + 1) * s = b * s + s /\ 0 * s = 0
OBVIOUS

LEMMA BaseNat == IInv => Base \in Nat
BY NextBase DEF IInv, Types, Base

(* What the operations of Linear_Buffer change                             *)
LEMMA BufferOps ==
  ASSUME NEW b \in Buffers
  PROVE  /\ clear(b) \in Buffers /\ popped(b) \in Buffers /\ pushed(b) \in Buffers
         /\ clear(b).rd = 0 /\ clear(b).wr = 0
         /\ clear(b).data = b.data /\ clear(b).capacity = b.capacity
         /\ popped(b).rd = b.rd + 1 /\ popped(b).wr = b.wr
         /\ popped(b).data = b.data /\ popped(b).capacity = b.capacity
         /\ pushed(b).rd = b.rd /\ pushed(b).wr = b.wr + 1
         /\ pushed(b).data = b.data /\ pushed(b).capacity = b.capacity
         /\ \A n \in Nat :
              /\ produce(b, n) \in Buffers
              /\ produce(b, n).wr = b.wr + n /\ produce(b, n).rd = b.rd
              /\ produce(b, n).data = b.data /\ produce(b, n).capacity = b.capacity
<1>1. /\ b.rd \in Int /\ b.wr \in Int /\ b.data \in Int /\ b.capacity \in Int
      /\ b = [data |-> b.data, capacity |-> b.capacity, rd |-> b.rd, wr |-> b.wr]
  BY DEF Buffers
<1>2. clear(b) = [data |-> b.data, capacity |-> b.capacity, rd |-> 0, wr |-> 0]
  <2>1. [b EXCEPT !.rd = 0]
          = [data |-> b.data, capacity |-> b.capacity, rd |-> 0, wr |-> b.wr]
    BY <1>1
  <2>2. clear(b) = [[b EXCEPT !.rd = 0] EXCEPT !.wr = 0]
    BY DEF clear
  <2> QED BY <2>1, <2>2
<1>3. popped(b) = [data |-> b.data, capacity |-> b.capacity, rd |-> b.rd + 1, wr |-> b.wr]
  BY <1>1 DEF popped
<1>4. pushed(b) = [data |-> b.data, capacity |-> b.capacity, rd |-> b.rd, wr |-> b.wr + 1]
  BY <1>1 DEF pushed
<1>5. \A n \in Nat : produce(b, n) =
        [data |-> b.data, capacity |-> b.capacity, rd |-> b.rd, wr |-> b.wr + n]
  BY <1>1 DEF produce
<1> QED BY <1>1, <1>2, <1>3, <1>4, <1>5 DEF Buffers

LEMMA InvInit == Init => IInv
<1> SUFFICES ASSUME Init PROVE IInv
  OBVIOUS
<1>1. Types
  BY DEF Init, Types, Buffers, NoBuffer, Wrapped, Nowhere
<1>2. Established /\ Delivered /\ Within
  BY DEF Init, Established, Delivered, Within
<1>3. Between
  BY DEF Init, Between, Base
<1>4. InStep
  BY DEF Init, InStep
<1> QED BY <1>1, <1>2, <1>3, <1>4 DEF IInv

(* Whatever the program has been at, it starts over with frame 0.          *)
LEMMA SetUpStep ==
  ASSUME IInv, SetUp
  PROVE  IInv'
<1>1. /\ pc = "host" /\ pc' = "host" /\ routine' = "created"
      /\ vector' \in Assignments
      /\ buf_size' \in Nat /\ buf_size' > 0
      /\ blocks' = 0 /\ setups' = setups + 1
      /\ count' = [p \in Ports |-> 0]
      /\ where' = [p \in Ports |-> Nowhere]
      /\ UNCHANGED <<d_buffer_size, ticks, due>>
  BY PureDataAssumption DEF SetUp
<1>2. buf' = [p \in Ports |-> IF p \in Inputs THEN Wrapped(0, buf_size') ELSE buf[p]]
  BY DEF SetUp
<1>3. \A p \in Ports : buf'[p] \in Buffers
  <2> SUFFICES ASSUME NEW p \in Ports PROVE buf'[p] \in Buffers
    OBVIOUS
  <2>1. CASE p \in Inputs
    BY <1>1, <1>2, <2>1 DEF Wrapped, Buffers
  <2>2. CASE p \notin Inputs
    BY <1>2, <2>2 DEF IInv, Types
  <2> QED BY <2>1, <2>2
<1>4. Types'
  BY <1>1, <1>2, <1>3 DEF IInv, Types, Nowhere
<1>5. Established'
  <2>1. mem' \in [Vectors -> [Frames(buf_size') -> Samples]]
    BY DEF SetUp, Samples
  <2>2. own' \in [Inputs -> [Frames(buf_size') -> Samples]]
    BY DEF SetUp, Samples
  <2>3. \A p \in Inputs : buf'[p].capacity = buf_size'
    BY <1>2 DEF Wrapped, Ports
  <2> QED BY <1>1, <2>1, <2>2, <2>3 DEF Established
<1>6. Between'
  <2>1. Base' = 0
    BY <1>1, NextBase DEF Base
  <2> QED BY <1>1, <2>1 DEF IInv, Between
<1>7. Delivered' /\ Within'
  BY <1>1 DEF Delivered, Within
<1>8. InStep'
  BY <1>1 DEF InStep
<1> QED BY <1>4, <1>5, <1>6, <1>7, <1>8 DEF IInv

(* The host's block goes to the inlets only.                               *)
LEMMA BlockStep ==
  ASSUME IInv, Block
  PROVE  IInv'
<1>1. /\ pc = "host" /\ pc' = "called" /\ routine # "none"
      /\ UNCHANGED <<routine, vector, buf_size, blocks, setups, kernel, calls>>
  BY DEF Block
<1>2. mem' = [v \in Vectors |->
                IF \E p \in Inputs : vector[p] = v
                THEN [f \in Frames(buf_size) |-> <<"host", Base + f>>]
                ELSE mem[v]]
  BY DEF Block
<1>3. Base \in Nat /\ Base' = Base
  BY <1>1, BaseNat DEF Base
<1>4. Types'
  BY <1>1 DEF IInv, Types, kernel, calls
<1>5. Established'
  <2>1. \A f \in Frames(buf_size) : <<"host", Base + f>> \in Samples
    BY <1>3 DEF Frames, Samples, IInv, Types
  <2>2. mem \in [Vectors -> [Frames(buf_size) -> Samples]]
    BY <1>1 DEF IInv, Established
  <2>3. mem' \in [Vectors -> [Frames(buf_size) -> Samples]]
    BY <1>2, <2>1, <2>2
  <2> QED BY <1>1, <2>3 DEF IInv, Established, kernel
<1>6. Between' /\ InStep'
  BY <1>1, <1>3 DEF IInv, Between, InStep, calls
<1>7. Delivered'
  <2>1. \A p \in Inputs : vector[p] \in Vectors
    BY <1>1, VectorsOfOutputs DEF IInv, Established, Ports
  <2>2. \A p \in Inputs : mem'[vector[p]] = [f \in Frames(buf_size) |-> <<"host", Base + f>>]
    BY <1>2, <2>1
  <2> QED BY <1>1, <1>3, <2>2 DEF Delivered
<1>8. Within'
  BY <1>1 DEF Within
<1> QED BY <1>4, <1>5, <1>6, <1>7, <1>8 DEF IInv

(* The block is copied whole, before any output is written.                *)
LEMMA CallStep ==
  ASSUME IInv, CallRoutine
  PROVE  IInv'
<1>1. /\ pc = "called" /\ pc' = "routine" /\ routine # "none"
      /\ ticks' = 0 /\ due = Ports /\ due' = Ports /\ d_buffer_size' = buf_size
      /\ UNCHANGED <<routine, host, count, where>>
  BY DEF CallRoutine, IInv, Types, Between
<1>2. /\ own' = [p \in Inputs |->
                   [f \in Frames(buf_size) |->
                      IF f < buf[p].capacity THEN mem[vector[p]][f] ELSE own[p][f]]]
      /\ buf' = [p \in Ports |-> BufferFor(p)]
  BY DEF CallRoutine, Prepare
<1>3. /\ buf_size \in Nat /\ buf_size > 0
      /\ \A p \in Inputs : buf[p].capacity = buf_size
      /\ \A p \in Ports : buf[p] \in Buffers
  BY <1>1 DEF IInv, Types, Established
<1>4. Base \in Nat /\ Base' = Base
  BY <1>1, BaseNat DEF Base, host
<1>5. \A p \in Inputs : \A f \in Frames(buf_size) : own'[p][f] = <<"host", Base + f>>
  <2> SUFFICES ASSUME NEW p \in Inputs, NEW f \in Frames(buf_size)
               PROVE  own'[p][f] = <<"host", Base + f>>
    OBVIOUS
  <2>1. f < buf[p].capacity
    BY <1>3 DEF Frames
  <2>2. own'[p][f] = mem[vector[p]][f]
    BY <1>2, <2>1
  <2> QED BY <1>1, <2>2 DEF IInv, Delivered
<1>6. \A p \in Ports :
        /\ buf'[p] \in Buffers /\ buf'[p].rd = 0
        /\ p \in Inputs => buf'[p].wr = buf_size /\ buf'[p].capacity = buf_size
        /\ p \in Outputs => buf'[p].wr = 0 /\ buf'[p].data = 0
  <2> SUFFICES ASSUME NEW p \in Ports
        PROVE  /\ buf'[p] \in Buffers /\ buf'[p].rd = 0
               /\ p \in Inputs => buf'[p].wr = buf_size /\ buf'[p].capacity = buf_size
               /\ p \in Outputs => buf'[p].wr = 0 /\ buf'[p].data = 0
    OBVIOUS
  <2>1. CASE p \in Inputs
    <3>1. buf'[p] = produce(clear(buf[p]), buf_size) /\ p \notin Outputs
      BY <1>2, <1>3, <2>1, PortsAssumption DEF BufferFor
    <3>2. /\ clear(buf[p]) \in Buffers
          /\ clear(buf[p]).rd = 0 /\ clear(buf[p]).wr = 0
          /\ clear(buf[p]).capacity = buf_size
      BY <1>3, <2>1, BufferOps DEF Ports
    <3> QED BY <1>3, <3>1, <3>2, BufferOps
  <2>2. CASE p \notin Inputs
    <3>1. buf'[p] = [data |-> 0, capacity |-> 0, rd |-> 0, wr |-> 0]
      BY <1>2, <2>2 DEF BufferFor, Assigned, Wrapped
    <3> QED BY <2>2, <3>1 DEF Buffers
  <2> QED BY <2>1, <2>2
<1>7. Types'
  <2>1. buf' \in [Ports -> Buffers]
    BY <1>2, <1>6
  <2> QED BY <1>1, <2>1 DEF IInv, Types, host
<1>8. Established'
  <2>1. \A f \in Frames(buf_size) : <<"host", Base + f>> \in Samples
    BY <1>3, <1>4 DEF Frames, Samples
  <2>2. own' \in [Inputs -> [Frames(buf_size) -> Samples]]
    <3>1. \A p \in Inputs : own'[p] \in [Frames(buf_size) -> Samples]
      BY <1>2, <1>5, <2>1
    <3> QED BY <1>2, <3>1
  <2>3. \A p \in Inputs : buf'[p].capacity = buf_size
    BY <1>6 DEF Ports
  <2> QED BY <1>1, <2>2, <2>3 DEF IInv, Established, host
<1>9. Between' /\ Delivered' /\ InStep'
  BY <1>1 DEF IInv, Between, Delivered, InStep
<1>10. Within'
  <2>1. \A p \in Ports : count[p] = Base
    BY <1>1 DEF IInv, Between
  <2>2. ASSUME NEW p \in Ports PROVE AtTick(p)'
    BY <1>1, <1>3, <1>4, <1>5, <1>6, <2>1, <2>2 DEF AtTick, host, Frames
  <2> QED BY <1>1, <1>3, <2>2 DEF Within, host
<1> QED BY <1>7, <1>8, <1>9, <1>10 DEF IInv

(* A port that is still due gets its sample from, or for, the frame that   *)
(* the tick is at; an output overwrites no sample of another outlet, and   *)
(* none that an input has yet to read.                                     *)
LEMMA ServeFrame ==
  ASSUME IInv, NEW p \in Ports,
         (p \in Inputs /\ Input(p)) \/ (p \in Outputs /\ Output(p))
  PROVE  /\ pc = "routine" /\ p \in due /\ ticks < buf_size
         /\ count[p] = Base + ticks
         /\ count' = [count EXCEPT ![p] = @ + 1]
         /\ where' = [where EXCEPT ![p] = count[p]]
         /\ \/ /\ p \in Inputs /\ p \notin Outputs
               /\ buf[p].rd = ticks
               /\ buf' = [buf EXCEPT ![p] = popped(@)]
               /\ mem' = mem
            \/ /\ p \in Outputs /\ p \notin Inputs
               /\ buf[p].wr = ticks
               /\ buf' = [buf EXCEPT ![p] = pushed(@)]
               /\ mem' = [mem EXCEPT ![vector[p]][ticks] = <<p, count[p]>>]
<1>1. pc = "routine" /\ p \in due /\ count' = [count EXCEPT ![p] = @ + 1]
  BY DEF Input, Output, Serve
<1>2. ticks < buf_size /\ AtTick(p)
  BY <1>1 DEF IInv, Within
<1>3. /\ ticks \in Nat /\ buf_size \in Nat /\ count[p] \in Nat /\ Base \in Nat
      /\ buf[p] \in Buffers
  BY BaseNat DEF IInv, Types
<1>4. count[p] = Base + ticks
  BY <1>1, <1>2, <1>3 DEF AtTick
<1>5. CASE p \in Inputs /\ Input(p)
  <2>1. buf[p].rd = ticks /\ buf[p].wr = buf_size
    BY <1>2, <1>3, <1>4, <1>5 DEF AtTick
  <2>2. ticks \in Frames(buf_size)
    BY <1>2, <1>3 DEF Frames
  <2>3. own[p][ticks] = <<"host", Base + ticks>>
    BY <1>2, <1>5, <2>2 DEF AtTick
  <2>4. FrameRead(p, buf[p].rd) = count[p]
    BY <1>2, <1>3, <1>4, <2>1, <2>3, HostSample DEF FrameRead
  <2> QED BY <1>1, <1>2, <1>4, <1>5, <2>1, <2>4, PortsAssumption DEF Input, Serve, host
<1>6. CASE p \in Outputs /\ Output(p)
  <2>1. buf[p].wr = ticks /\ buf[p].data = 0
    BY <1>2, <1>3, <1>4, <1>6 DEF AtTick
  <2>2. FrameToPush(buf[p], buf_size) = ticks /\ ticks # Nowhere
    BY <1>2, <1>3, <2>1 DEF FrameToPush, Nowhere
  <2> QED BY <1>1, <1>2, <1>4, <1>6, <2>1, <2>2, PortsAssumption DEF Output, Serve
<1> QED BY <1>5, <1>6

LEMMA ServeStep ==
  ASSUME IInv, NEW p \in Ports,
         (p \in Inputs /\ Input(p)) \/ (p \in Outputs /\ Output(p))
  PROVE  IInv'
<1>1. /\ pc = "routine" /\ p \in due /\ ticks < buf_size
      /\ count[p] = Base + ticks
      /\ count' = [count EXCEPT ![p] = @ + 1]
      /\ where' = [where EXCEPT ![p] = count[p]]
  BY ServeFrame
<1>2. \/ /\ p \in Inputs /\ p \notin Outputs
         /\ buf[p].rd = ticks
         /\ buf' = [buf EXCEPT ![p] = popped(@)]
         /\ mem' = mem
      \/ /\ p \in Outputs /\ p \notin Inputs
         /\ buf[p].wr = ticks
         /\ buf' = [buf EXCEPT ![p] = pushed(@)]
         /\ mem' = [mem EXCEPT ![vector[p]][ticks] = <<p, count[p]>>]
  BY ServeFrame
<1>3. /\ UNCHANGED <<pc, routine, vector, buf_size, blocks, setups,
                     d_buffer_size, ticks, own>>
      /\ due' = due \ {p} /\ Base' = Base
  BY DEF Input, Output, Serve, host, Base
<1>4. /\ ticks \in Nat /\ buf_size \in Nat /\ Base \in Nat
      /\ count \in [Ports -> Nat] /\ where \in [Ports -> Int]
      /\ buf \in [Ports -> Buffers]
      /\ \A q \in Ports : AtTick(q)
  BY <1>1, BaseNat DEF IInv, Types, Within
<1>5. routine # "none" /\ vector \in Assignments
  BY <1>1 DEF IInv, Types, Established
<1>6. /\ buf' \in [Ports -> Buffers]
      /\ \A q \in Ports : q # p => buf'[q] = buf[q] /\ count'[q] = count[q]
      /\ count'[p] = count[p] + 1
      /\ buf'[p].data = buf[p].data /\ buf'[p].capacity = buf[p].capacity
      /\ p \in Inputs => buf'[p].rd = ticks + 1 /\ buf'[p].wr = buf[p].wr
      /\ p \in Outputs => buf'[p].wr = ticks + 1 /\ buf'[p].rd = buf[p].rd
  <2>1. /\ popped(buf[p]) \in Buffers /\ pushed(buf[p]) \in Buffers
        /\ popped(buf[p]).rd = buf[p].rd + 1 /\ popped(buf[p]).wr = buf[p].wr
        /\ popped(buf[p]).data = buf[p].data
        /\ popped(buf[p]).capacity = buf[p].capacity
        /\ pushed(buf[p]).wr = buf[p].wr + 1 /\ pushed(buf[p]).rd = buf[p].rd
        /\ pushed(buf[p]).data = buf[p].data
        /\ pushed(buf[p]).capacity = buf[p].capacity
    BY <1>4, BufferOps
  <2>2. /\ count'[p] = count[p] + 1
        /\ \A q \in Ports : q # p => count'[q] = count[q]
    BY <1>1, <1>4
  <2>3. CASE p \in Inputs /\ buf' = [buf EXCEPT ![p] = popped(@)]
    <3>1. buf' = [buf EXCEPT ![p] = popped(buf[p])]
      BY <2>3
    <3> QED BY <1>2, <1>4, <2>1, <2>2, <2>3, <3>1
  <2>4. CASE p \in Outputs /\ buf' = [buf EXCEPT ![p] = pushed(@)]
    <3>1. buf' = [buf EXCEPT ![p] = pushed(buf[p])]
      BY <2>4
    <3> QED BY <1>2, <1>4, <2>1, <2>2, <2>4, <3>1
  <2> QED BY <1>2, <2>3, <2>4
<1>7. Types'
  <2>1. count' \in [Ports -> Nat] /\ where' \in [Ports -> Int]
    BY <1>1, <1>4
  <2> QED BY <1>3, <1>6, <2>1 DEF IInv, Types
<1>8. mem' \in [Vectors -> [Frames(buf_size) -> Samples]]
  <2>1. mem \in [Vectors -> [Frames(buf_size) -> Samples]]
    BY <1>5 DEF IInv, Established
  <2>2. p \in Outputs => <<p, count[p]>> \in Samples
    BY <1>4 DEF Samples
  <2>3. vector[p] \in Vectors
    BY <1>5, VectorsOfOutputs
  <2>4. p \in Outputs => [mem[vector[p]] EXCEPT ![ticks] = <<p, count[p]>>]
                          \in [Frames(buf_size) -> Samples]
    BY <2>1, <2>2, <2>3
  <2> QED BY <1>2, <2>1, <2>4
<1>9. Established'
  <2>1. \A q \in Inputs : buf'[q].capacity = buf_size
    BY <1>5, <1>6 DEF IInv, Established, Ports
  <2> QED BY <1>3, <1>5, <1>8, <2>1 DEF IInv, Established
<1>10. Between' /\ Delivered'
  BY <1>1, <1>3 DEF Between, Delivered
<1>11. Within'
  <2>1. ASSUME NEW q \in Ports PROVE AtTick(q)'
    <3>1. AtTick(q)
      BY <1>4
    <3>2. count'[q] = Base + ticks + (IF q \in due' THEN 0 ELSE 1)
      BY <1>1, <1>3, <1>4, <1>6, <3>1 DEF AtTick
    <3>3. ASSUME q \in Inputs
          PROVE  /\ buf'[q].rd = count'[q] - Base /\ buf'[q].wr = buf_size
                 /\ \A f \in Frames(buf_size) : own[q][f] = <<"host", Base + f>>
      BY <1>1, <1>4, <1>6, <3>1, <3>3 DEF AtTick
    <3>4. ASSUME q \in Outputs
          PROVE  buf'[q].data = 0 /\ buf'[q].rd = 0 /\ buf'[q].wr = count'[q] - Base
      BY <1>1, <1>4, <1>6, <3>1, <3>4 DEF AtTick
    <3>5. ASSUME q \in Outputs, NEW f \in Frames(buf_size), f < buf'[q].wr
          PROVE  mem'[vector[q]][f] = <<q, Base + f>>
      <4>1. mem \in [Vectors -> [Frames(buf_size) -> Samples]]
        BY <1>5 DEF IInv, Established
      <4>2. vector[q] \in Vectors /\ vector[p] \in Vectors
        BY <1>5, VectorsOfOutputs
      <4>3. f \in Int
        BY DEF Frames
      <4>4. CASE q = p
        <5>1. mem' = [mem EXCEPT ![vector[p]][ticks] = <<p, count[p]>>]
          BY <1>2, <3>5, <4>4
        <5>2. mem'[vector[p]] = [mem[vector[p]] EXCEPT ![ticks] = <<p, count[p]>>]
          BY <4>1, <4>2, <5>1
        <5>3. f = ticks \/ f < buf[p].wr
          BY <1>2, <1>4, <1>6, <3>5, <4>3, <4>4
        <5>4. CASE f = ticks
          <6>1. mem'[vector[p]][f] = <<p, count[p]>>
            BY <4>1, <4>2, <5>2, <5>4
          <6> QED BY <1>1, <4>4, <5>4, <6>1
        <5>5. CASE f # ticks /\ f < buf[p].wr
          <6>1. mem'[vector[p]][f] = mem[vector[p]][f]
            BY <4>1, <4>2, <5>2, <5>5
          <6> QED BY <3>1, <3>5, <4>4, <5>5, <6>1 DEF AtTick
        <5> QED BY <5>3, <5>4, <5>5
      <4>5. CASE q # p
        <5>1. mem'[vector[q]] = mem[vector[q]]
          <6>1. p \in Outputs => vector[q] # vector[p]
            BY <1>5, <3>5, <4>5, VectorsOfOutputs
          <6> QED BY <1>2, <4>1, <4>2, <6>1
        <5> QED BY <1>6, <3>1, <3>5, <4>5, <5>1 DEF AtTick
      <4> QED BY <4>4, <4>5
    <3> QED BY <1>3, <3>2, <3>3, <3>4, <3>5 DEF AtTick
  <2> QED BY <1>1, <1>3, <2>1 DEF IInv, Within
<1>12. InStep'
  <2> SUFFICES ASSUME NEW q \in Ports, count'[q] > 0
               PROVE  where'[q] = count'[q] - 1
    BY DEF InStep
  <2>1. CASE q = p
    BY <1>1, <1>4, <2>1
  <2>2. CASE q # p
    BY <1>1, <1>4, <2>2 DEF IInv, InStep
  <2> QED BY <2>1, <2>2
<1> QED BY <1>7, <1>9, <1>10, <1>11, <1>12 DEF IInv

(* The routine gives way when, and only when, ticks has come to the size   *)
(* of the block.                                                           *)
LEMMA ClockStep ==
  ASSUME IInv, Clock
  PROVE  IInv'
<1>1. /\ pc = "routine" /\ due = {} /\ due' = Ports /\ ticks' = ticks + 1
      /\ IF BlockOver THEN pc' = "returned" /\ routine' = "suspended"
         ELSE UNCHANGED <<pc, routine>>
      /\ UNCHANGED <<host, d_buffer_size, buf, own, count, where>>
      /\ Base' = Base
  BY DEF Clock, ClockCall, host, Base
<1>2. /\ d_buffer_size = buf_size /\ ticks < buf_size /\ routine # "none"
      /\ ticks \in Nat /\ buf_size \in Nat
      /\ \A p \in Ports : AtTick(p)
  BY <1>1 DEF IInv, Types, Within
<1>3. \/ pc' = "returned" /\ routine' = "suspended" /\ ticks' = buf_size
      \/ pc' = "routine" /\ routine' = routine /\ ticks' < buf_size
  BY <1>1, <1>2 DEF BlockOver
<1>4. Types'
  BY <1>1, <1>2, <1>3 DEF IInv, Types, host
<1>5. Established'
  BY <1>1, <1>2 DEF IInv, Established, host
<1>6. Between' /\ Delivered'
  BY <1>1, <1>3 DEF Between, Delivered
<1>7. Within'
  <2>1. Base \in Nat /\ count \in [Ports -> Nat]
    BY BaseNat DEF IInv, Types
  <2>2. ASSUME NEW p \in Ports PROVE AtTick(p)'
    BY <1>1, <1>2, <2>1, <2>2 DEF AtTick, host
  <2> QED BY <1>1, <1>2, <1>3, <2>2 DEF Within, host
<1>8. InStep'
  BY <1>1 DEF IInv, InStep
<1> QED BY <1>4, <1>5, <1>6, <1>7, <1>8 DEF IInv

(* All frames of the block are done, and the next one begins after them.   *)
LEMMA ReturnStep ==
  ASSUME IInv, Return
  PROVE  IInv'
<1>1. /\ pc = "returned" /\ pc' = "host" /\ blocks' = blocks + 1
      /\ UNCHANGED <<routine, vector, mem, buf_size, setups, kernel, calls>>
  BY DEF Return
<1>2. ticks = buf_size /\ due = Ports /\ \A p \in Ports : AtTick(p)
  BY <1>1 DEF IInv, Within
<1>3. Base' = Base + buf_size
  BY <1>1, NextBase DEF IInv, Types, Base
<1>4. Types' /\ Established' /\ InStep'
  BY <1>1 DEF IInv, Types, Established, InStep, kernel, calls
<1>5. Between'
  <2>1. Base \in Nat /\ buf_size \in Nat
    BY BaseNat DEF IInv, Types
  <2> QED BY <1>1, <1>2, <1>3, <2>1 DEF AtTick, Between, calls
<1>6. Delivered' /\ Within'
  BY <1>1 DEF Delivered, Within
<1> QED BY <1>4, <1>5, <1>6 DEF IInv

(* Nothing happens to an object that the host has deleted.                 *)
LEMMA DestroyStep ==
  ASSUME IInv, Destroy
  PROVE  IInv'
<1>1. /\ pc' = "deleted" /\ routine' = "none"
      /\ UNCHANGED <<host, kernel, calls>>
  BY DEF Destroy
<1>2. Types' /\ Established'
  BY <1>1 DEF IInv, Types, Established, host, kernel, calls
<1>3. Between' /\ Delivered' /\ Within' /\ InStep'
  BY <1>1 DEF IInv, Between, Delivered, Within, InStep, calls
<1> QED BY <1>2, <1>3 DEF IInv

LEMMA InvStep == IInv /\ [Next]_vars => IInv'
<1> SUFFICES ASSUME IInv, [Next]_vars PROVE IInv'
  OBVIOUS
<1>1. CASE SetUp
  BY <1>1, SetUpStep
<1>2. CASE Block
  BY <1>2, BlockStep
<1>3. CASE CallRoutine
  BY <1>3, CallStep
<1>4. CASE (\E p \in Inputs : Input(p)) \/ (\E p \in Outputs : Output(p))
  BY <1>4, ServeStep DEF Ports
<1>5. CASE Clock
  BY <1>5, ClockStep
<1>6. CASE Return
  BY <1>6, ReturnStep
<1>7. CASE Destroy
  BY <1>7, DestroyStep
<1>8. CASE UNCHANGED vars
  BY <1>8 DEF vars, host, kernel, calls, IInv, Types, Established, Between, Delivered,
              Within, AtTick, InStep, Base
<1> QED BY <1>1, <1>2, <1>3, <1>4, <1>5, <1>6, <1>7, <1>8 DEF Next

-----------------------------------------------------------------------------
(* Types, and no tick past the end of the block, however many blocks and   *)
(* set-ups there are.                                                      *)
THEOREM TypeCorrect == Spec => []TypeOK
<1>1. IInv => TypeOK
  BY DEF IInv, Types, Within, TypeOK, Frames
<1> QED BY <1>1, InvInit, InvStep, PTL DEF Spec

(* Each sample that is read is the one that the host has put at that       *)
(* frame, and each sample written is meant for its frame, whatever vectors *)
(* the inlets share with each other and with the outlets, and across all   *)
(* blocks since the graph was set up: the copy of the block that is made   *)
(* before the routine runs is whole.                                       *)
THEOREM EverySampleInStep == Spec => []InStep
<1>1. IInv => InStep
  BY DEF IInv
<1> QED BY <1>1, InvInit, InvStep, PTL DEF Spec

(* The routine gives way to the host only with all outlets full of samples *)
(* of this block and nothing left in the inlets.                           *)
THEOREM OnlyWholeBlocks == Spec => []BlockComplete
<1>1. IInv => BlockComplete
  <2> SUFFICES ASSUME IInv, pc = "returned"
        PROVE  /\ \A p \in Outputs : \A f \in Frames(buf_size) :
                    mem[vector[p]][f] = <<p, Base + f>>
               /\ \A p \in Inputs : readable(buf[p]) = 0
    BY DEF BlockComplete
  <2>1. /\ due = Ports /\ ticks = buf_size /\ \A p \in Ports : AtTick(p)
        /\ buf_size \in Nat /\ Base \in Nat
    BY BaseNat DEF IInv, Types, Within
  <2>2. ASSUME NEW p \in Outputs, NEW f \in Frames(buf_size)
        PROVE  mem[vector[p]][f] = <<p, Base + f>>
    <3>1. AtTick(p) /\ p \in Ports
      BY <2>1 DEF Ports
    <3>2. count[p] = Base + buf_size
      BY <2>1, <3>1 DEF AtTick
    <3>3. f < buf[p].wr
      BY <2>1, <3>1, <3>2 DEF AtTick, Frames
    <3> QED BY <3>1, <3>3 DEF AtTick
  <2>3. ASSUME NEW p \in Inputs PROVE readable(buf[p]) = 0
    <3>1. AtTick(p) /\ p \in Ports
      BY <2>1 DEF Ports
    <3>2. count[p] = Base + buf_size
      BY <2>1, <3>1 DEF AtTick
    <3> QED BY <2>1, <3>1, <3>2 DEF AtTick, readable
  <2> QED BY <2>2, <2>3
<1> QED BY <1>1, InvInit, InvStep, PTL DEF Spec
=============================================================================
