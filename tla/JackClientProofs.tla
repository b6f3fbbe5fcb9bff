-------------------------- MODULE JackClientProofs ---------------------------
(***************************************************************************)
(* The hand-over of JackClient is safe for any ports, any numbers of       *)
(* frames and any number of cycles, if the first cycle has frames: every   *)
(* sample belongs to its frame, and every cycle is handed back complete.   *)
(***************************************************************************)
EXTENDS JackClient, TLAPS

Buffers == [data : Int, capacity : Int, rd : Int, wr : Int]

Types ==
  /\ base \in Nat /\ offered \in Nat /\ cycle \in Nat
  /\ frames \in Nat /\ ticks \in Nat
  /\ ticks <= frames
  /\ due \in SUBSET Ports
  /\ count \in [Ports -> Nat]
  /\ where \in [Ports -> Int]
  /\ buf \in [Ports -> Buffers]
  /\ complained = FALSE
  /\ main \in {"opening", "opened", "registered", "activated", "derived",
               "kernel", "ready", "exited"}
  /\ pc \in {"none", "starting", "entering", "running", "checking", "waiting",
             "crashed"}
  /\ turn \in {"server", "client"}

(* The process thread before its first cycle                               *)
Fresh ==
  /\ main \in {"opening", "opened", "registered"} => pc = "none"
  /\ pc = "none" => turn = "server"
  /\ pc \in {"none", "starting"} /\ turn = "server" => cycle = 0
  /\ pc = "starting" /\ turn = "client" => offered > 0
  /\ pc = "entering" => frames > 0

(* Between two cycles: all frames of those that were handed back are done. *)
Between ==
  pc \in {"none", "starting", "waiting"} =>
    /\ ticks = 0
    /\ due = Ports
    /\ \A p \in Ports :
         /\ readable(buf[p]) = 0
         /\ count[p] = IF turn = "client" THEN base ELSE base + offered

(* Within a cycle: each port is at the tick, or one ahead if it has been   *)
(* served.                                                                 *)
Within ==
  pc \in {"entering", "running", "checking"} =>
    /\ turn = "client"
    /\ frames = offered
    /\ pc \in {"entering", "checking"} => due = Ports
    /\ pc = "entering" => ticks = 0
    /\ pc = "running" => ticks < frames
    /\ \A p \in Ports :
         /\ count[p] = base + ticks + (IF p \in due THEN 0 ELSE 1)
         /\ buf[p].data = base
         /\ p \in Inputs => buf[p].rd = count[p] - base /\ buf[p].wr = frames
         /\ p \in Outputs => buf[p].rd = 0 /\ buf[p].wr = count[p] - base

IInv == Types /\ Fresh /\ Between /\ Within /\ InStep

-----------------------------------------------------------------------------
LEMMA InvInit == Init => IInv
<1> SUFFICES ASSUME Init PROVE IInv
  OBVIOUS
<1>1. Types
  BY DEF Init, Types, Buffers, NoBuffer, Wrapped, Nowhere
<1>2. Between
  BY DEF Init, Between, NoBuffer, Wrapped, readable
<1> QED BY <1>1, <1>2 DEF Init, IInv, Fresh, Within, InStep

(* Steps of the main thread touch nothing that the process thread uses,    *)
(* besides creating it.                                                    *)
LEMMA MainStep ==
  ASSUME IInv, Main \/ ConstructionFails \/ Shutdown
  PROVE  IInv'
<1>1. UNCHANGED <<server, client, calls>>
  BY DEF Main, Open, RegisterPorts, Activate, Connect, MakeKernel, SetIo,
         ConstructionFails, Shutdown, Advance
<1>2. /\ main' \in {"opened", "registered", "activated", "derived", "kernel",
                    "ready", "exited"}
      /\ pc' = pc \/ (pc = "none" /\ pc' = "starting" /\ main' = "activated")
      /\ main' \in {"opened", "registered"} => pc' = pc /\ pc = "none"
  BY DEF Main, Open, RegisterPorts, Activate, Connect, MakeKernel, SetIo,
         ConstructionFails, Shutdown, Advance, IInv, Fresh
<1>3. Types'
  BY <1>1, <1>2 DEF IInv, Types, server, client, calls
<1>4. Fresh'
  BY <1>1, <1>2 DEF IInv, Fresh, server, client, calls
<1>5. Between' /\ Within' /\ InStep'
  BY <1>1, <1>2 DEF IInv, Between, Within, InStep, server, client, calls, readable
<1> QED BY <1>3, <1>4, <1>5 DEF IInv

(* A cycle begins when all frames of those before it are done.             *)
LEMMA StartStep ==
  ASSUME 0 \notin FirstFrames, IInv, StartCycle
  PROVE  IInv'
<1>1. /\ pc \in {"starting", "waiting"} /\ pc' = pc /\ main' = main
      /\ turn = "server" /\ turn' = "client"
      /\ cycle' = cycle + 1
      /\ base' = base + offered
      /\ UNCHANGED <<client, calls>>
  BY DEF StartCycle
<1>2. offered' \in Nat /\ (cycle = 0 => offered' > 0)
  BY JackAssumption DEF StartCycle
<1>3. Types'
  BY <1>1, <1>2 DEF IInv, Types, client, calls
<1>4. Fresh'
  BY <1>1, <1>2 DEF IInv, Fresh, Types, client
<1>5. Between'
  BY <1>1 DEF IInv, Between, readable, client, calls
<1>6. Within' /\ InStep'
  BY <1>1 DEF IInv, Within, InStep, calls
<1> QED BY <1>3, <1>4, <1>5, <1>6 DEF IInv

(* The buffers of a new cycle: all inputs to be read, all outputs to be    *)
(* written, and nothing was left in those of the cycle before.             *)
LEMMA ReceiveStep ==
  ASSUME IInv, Receive
  PROVE  IInv'
<1>1. /\ pc \in {"starting", "waiting"}
      /\ pc' = IF pc = "starting" THEN "entering" ELSE "checking"
      /\ turn = "client" /\ frames' = offered
      /\ UNCHANGED <<main, server, ticks, calls>>
  BY DEF Receive
<1>2. buf' = [p \in Ports |-> ReceivedBuffer(p)]
  BY DEF Receive
<1>3. /\ ticks = 0 /\ due = Ports
      /\ \A p \in Ports : readable(buf[p]) = 0 /\ count[p] = base
  BY <1>1 DEF IInv, Between
<1>4. \A p \in Ports :
        /\ buf'[p] \in Buffers /\ buf'[p].data = base /\ buf'[p].rd = 0
        /\ p \in Inputs => buf'[p].wr = offered
        /\ p \in Outputs => buf'[p].wr = 0
  <2> SUFFICES ASSUME NEW p \in Ports
        PROVE  /\ buf'[p] \in Buffers /\ buf'[p].data = base /\ buf'[p].rd = 0
               /\ p \in Inputs => buf'[p].wr = offered
               /\ p \in Outputs => buf'[p].wr = 0
    OBVIOUS
  <2>1. base \in Nat /\ offered \in Nat
    BY DEF IInv, Types
  <2>2. CASE p \in Inputs
    <3>1. buf'[p] = [data |-> base, capacity |-> 0, rd |-> 0, wr |-> 0 + offered]
      BY <1>2, <2>2 DEF ReceivedBuffer, Assigned, Wrapped, produce
    <3> QED BY <2>1, <2>2, <3>1, PortsAssumption DEF Buffers
  <2>3. CASE p \notin Inputs
    <3>1. buf'[p] = [data |-> base, capacity |-> 0, rd |-> 0, wr |-> 0]
      BY <1>2, <2>3 DEF ReceivedBuffer, Assigned, Wrapped
    <3> QED BY <2>1, <2>3, <3>1 DEF Buffers
  <2> QED BY <2>2, <2>3
<1>5. Types'
  <2>1. buf' \in [Ports -> Buffers]
    BY <1>2, <1>4
  <2>2. complained' = FALSE
    <3>1. ~ \E p \in Ports : readable(buf[p]) # 0
      BY <1>3
    <3>2. complained = FALSE
      BY DEF IInv, Types
    <3> QED BY <3>1, <3>2, Zenon DEF Receive
  <2> QED BY <1>1, <1>3, <2>1, <2>2 DEF IInv, Types, server, calls
<1>6. Fresh'
  BY <1>1 DEF IInv, Fresh, server
<1>7. Between'
  BY <1>1 DEF Between
<1>8. Within'
  BY <1>1, <1>3, <1>4 DEF Within, IInv, Types, Fresh, server, calls
<1>9. InStep'
  BY <1>1 DEF IInv, InStep, calls
<1> QED BY <1>5, <1>6, <1>7, <1>8, <1>9 DEF IInv

(* Entering process(), or crashing                                         *)
LEMMA EnterStep ==
  ASSUME IInv, EnterProcess \/ EnterTooEarly \/ CallWithoutIo
  PROVE  IInv'
<1>1. /\ UNCHANGED <<main, server, client, calls>>
      /\ \/ pc' = "crashed" /\ pc \in {"entering", "running"}
         \/ pc = "entering" /\ pc' = "running"
  BY DEF EnterProcess, EnterTooEarly, CallWithoutIo
<1>2. Types' /\ InStep'
  BY <1>1 DEF IInv, Types, InStep, server, client, calls
<1>3. Fresh' /\ Between'
  BY <1>1 DEF IInv, Fresh, Between, server, client
<1>4. Within'
  BY <1>1 DEF IInv, Fresh, Within, server, client, calls
<1> QED BY <1>2, <1>3, <1>4 DEF IInv

(* A port that is still due gets its sample from, or for, the frame that   *)
(* the tick is at.                                                         *)
LEMMA ServeStep ==
  ASSUME IInv, NEW p \in Ports,
         (p \in Inputs /\ Input(p)) \/ (p \in Outputs /\ Output(p))
  PROVE  IInv'
<1>1. /\ pc = "running" /\ pc' = pc /\ p \in due
      /\ due' = due \ {p}
      /\ count' = [count EXCEPT ![p] = @ + 1]
      /\ UNCHANGED <<main, server, frames, ticks, complained>>
  BY DEF Input, Output, Running, Serve
<1>2. /\ turn = "client" /\ frames = offered /\ ticks < frames
      /\ count[p] = base + ticks /\ buf[p].data = base
  BY <1>1 DEF IInv, Types, Within
<1>3. /\ \A q \in Ports : count[q] \in Nat /\ buf[q] \in Buffers
      /\ base \in Nat /\ ticks \in Nat /\ frames \in Nat
  BY DEF IInv, Types
<1>4. \/ /\ p \in Inputs /\ p \notin Outputs
         /\ buf' = [buf EXCEPT ![p] = popped(@)]
         /\ where' = [where EXCEPT ![p] = count[p]]
      \/ /\ p \in Outputs /\ p \notin Inputs
         /\ buf' = [buf EXCEPT ![p] = pushed(@)]
         /\ where' = [where EXCEPT ![p] = count[p]]
  <2>1. CASE p \in Inputs /\ Input(p)
    <3>1. buf[p].rd = ticks /\ buf[p].wr = frames
      BY <1>1, <1>2, <1>3, <2>1 DEF IInv, Within
    <3>2. FrameToPop(buf[p]) = count[p]
      BY <1>2, <1>3, <3>1 DEF FrameToPop
    <3> QED BY <2>1, <3>2, PortsAssumption DEF Input, Serve
  <2>2. CASE p \in Outputs /\ Output(p)
    <3>1. buf[p].wr = ticks
      BY <1>1, <1>2, <1>3, <2>2 DEF IInv, Within
    <3>2. FrameToPush(buf[p], frames) = count[p]
      BY <1>2, <1>3, <3>1 DEF FrameToPush
    <3> QED BY <2>2, <3>2, PortsAssumption DEF Output, Serve
  <2> QED BY <2>1, <2>2
<1>5. Types'
  <2>1. /\ buf \in [Ports -> Buffers] /\ count \in [Ports -> Nat]
        /\ where \in [Ports -> Int]
    BY DEF IInv, Types
  <2>2. popped(buf[p]) \in Buffers /\ pushed(buf[p]) \in Buffers
    BY <1>3 DEF popped, pushed, Buffers
  <2>3. buf' \in [Ports -> Buffers]
    BY <1>4, <2>1, <2>2
  <2>4. count' \in [Ports -> Nat] /\ where' \in [Ports -> Int]
    BY <1>1, <1>3, <1>4, <2>1
  <2> QED BY <1>1, <2>3, <2>4 DEF IInv, Types, server
<1>6. Fresh' /\ Between'
  BY <1>1 DEF IInv, Fresh, Between, server
<1>7. Within'
  <2> SUFFICES ASSUME NEW q \in Ports
        PROVE  /\ count'[q] = base + ticks + (IF q \in due' THEN 0 ELSE 1)
               /\ buf'[q].data = base
               /\ q \in Inputs => buf'[q].rd = count'[q] - base /\ buf'[q].wr = frames
               /\ q \in Outputs => buf'[q].rd = 0 /\ buf'[q].wr = count'[q] - base
    BY <1>1, <1>2 DEF Within, server
  <2>1. /\ count[q] = base + ticks + (IF q \in due THEN 0 ELSE 1)
        /\ buf[q].data = base
        /\ q \in Inputs => buf[q].rd = count[q] - base /\ buf[q].wr = frames
        /\ q \in Outputs => buf[q].rd = 0 /\ buf[q].wr = count[q] - base
    BY <1>1 DEF IInv, Within
  <2>2. count \in [Ports -> Nat] /\ buf \in [Ports -> Buffers]
    BY DEF IInv, Types
  <2>3. CASE q = p
    <3>1. count'[q] = count[q] + 1 /\ count[q] \in Nat /\ q \in due /\ q \notin due'
      BY <1>1, <2>2, <2>3
    <3>2. count'[q] = base + ticks + 1 /\ count'[q] - base = (count[q] - base) + 1
      BY <1>3, <2>1, <3>1
    <3>3. CASE q \in Inputs /\ q \notin Outputs /\ buf' = [buf EXCEPT ![q] = popped(@)]
      <4>1. buf'[q] = popped(buf[q])
        BY <2>2, <3>3
      <4>2. /\ buf'[q].data = buf[q].data /\ buf'[q].rd = buf[q].rd + 1
            /\ buf'[q].wr = buf[q].wr
        BY <1>3, <4>1 DEF popped, Buffers
      <4> QED BY <2>1, <3>1, <3>2, <3>3, <4>2
    <3>4. CASE q \in Outputs /\ q \notin Inputs /\ buf' = [buf EXCEPT ![q] = pushed(@)]
      <4>1. buf'[q] = pushed(buf[q])
        BY <2>2, <3>4
      <4>2. /\ buf'[q].data = buf[q].data /\ buf'[q].rd = buf[q].rd
            /\ buf'[q].wr = buf[q].wr + 1
        BY <1>3, <4>1 DEF pushed, Buffers
      <4> QED BY <2>1, <3>1, <3>2, <3>4, <4>2
    <3> QED BY <1>4, <2>3, <3>3, <3>4
  <2>4. CASE q # p
    BY <1>1, <1>4, <2>1, <2>2, <2>4
  <2> QED BY <2>3, <2>4
<1>8. InStep'
  <2> SUFFICES ASSUME NEW q \in Ports, count'[q] > 0
               PROVE  where'[q] = count'[q] - 1
    BY DEF InStep
  <2>1. count \in [Ports -> Nat] /\ where \in [Ports -> Int]
    BY DEF IInv, Types
  <2>2. CASE q = p
    BY <1>1, <1>3, <1>4, <2>1, <2>2
  <2>3. CASE q # p
    BY <1>1, <1>4, <2>1, <2>3 DEF IInv, InStep
  <2> QED BY <2>2, <2>3
<1> QED BY <1>5, <1>6, <1>7, <1>8 DEF IInv

(* clock, before and after it compares ticks with frames                   *)
LEMMA ClockStep ==
  ASSUME IInv, Clock \/ ReturnFromClock
  PROVE  IInv'
<1>1. CASE Clock
  <2>1. /\ pc = "running" /\ pc' = "checking"
        /\ due = {} /\ due' = Ports /\ ticks' = ticks + 1
        /\ UNCHANGED <<main, server, frames, buf, complained, count, where>>
    BY <1>1 DEF Clock, Running, ClockCall
  <2>2. /\ turn = "client" /\ frames = offered /\ ticks < frames
        /\ \A p \in Ports :
             /\ count[p] = base + ticks + 1
             /\ buf[p].data = base
             /\ p \in Inputs => buf[p].rd = count[p] - base /\ buf[p].wr = frames
             /\ p \in Outputs => buf[p].rd = 0 /\ buf[p].wr = count[p] - base
    BY <2>1 DEF IInv, Within
  <2>3. Types'
    BY <2>1, <2>2 DEF IInv, Types, server
  <2>4. Fresh' /\ Between'
    BY <2>1 DEF IInv, Fresh, Between, server
  <2>5. Within'
    BY <2>1, <2>2 DEF Within, IInv, Types, server
  <2>6. InStep'
    BY <2>1 DEF IInv, InStep
  <2> QED BY <2>3, <2>4, <2>5, <2>6 DEF IInv
<1>2. CASE ReturnFromClock
  <2>1. /\ pc = "checking" /\ pc' = "running" /\ ~CycleOver
        /\ UNCHANGED <<main, server, client, calls>>
    BY <1>2 DEF ReturnFromClock
  <2>2. ticks < frames
    BY <2>1 DEF CycleOver, IInv, Types
  <2>3. Types' /\ InStep'
    BY <2>1 DEF IInv, Types, InStep, server, client, calls
  <2>4. Fresh' /\ Between'
    BY <2>1 DEF IInv, Fresh, Between, server, client
  <2>5. Within'
    BY <2>1, <2>2 DEF IInv, Within, server, client, calls
  <2> QED BY <2>3, <2>4, <2>5 DEF IInv
<1> QED BY <1>1, <1>2

(* A cycle is handed back when ticks has come to its frames; there are     *)
(* never more ticks than that, so that every output is full.               *)
LEMMA TransmitStep ==
  ASSUME IInv, Transmit
  PROVE  IInv'
<1>1. /\ pc = "checking" /\ pc' = "waiting"
      /\ ticks' = 0 /\ turn' = "server"
      /\ buf' = [p \in Ports |-> IF p \in Outputs THEN clear(buf[p]) ELSE buf[p]]
      /\ complained' = (complained \/ \E p \in Outputs : readable(buf[p]) # frames)
      /\ UNCHANGED <<main, cycle, offered, base, frames, calls>>
  BY DEF Transmit, send
<1>2. ticks = frames /\ frames = offered
  BY <1>1 DEF Transmit, CycleOver, IInv, Types, Within
<1>3. /\ due = Ports
      /\ \A p \in Ports :
           /\ count[p] = base + offered
           /\ p \in Inputs => buf[p].rd = offered /\ buf[p].wr = offered
           /\ p \in Outputs => buf[p].rd = 0 /\ buf[p].wr = offered
  BY <1>1, <1>2 DEF IInv, Types, Within
<1>4. \A p \in Ports : buf'[p] \in Buffers /\ readable(buf'[p]) = 0
  <2> SUFFICES ASSUME NEW p \in Ports
               PROVE  buf'[p] \in Buffers /\ readable(buf'[p]) = 0
    OBVIOUS
  <2>1. buf[p] \in Buffers /\ offered \in Nat
    BY DEF IInv, Types
  <2>2. CASE p \in Outputs
    <3>1. buf'[p] = [buf[p] EXCEPT !.rd = 0, !.wr = 0]
      BY <1>1, <2>2 DEF clear
    <3>2. [buf[p] EXCEPT !.rd = 0] \in Buffers
      BY <2>1 DEF Buffers
    <3>3. buf'[p] = [[buf[p] EXCEPT !.rd = 0] EXCEPT !.wr = 0]
      BY <3>1
    <3>4. buf'[p] \in Buffers
      BY <3>2, <3>3 DEF Buffers
    <3>5. buf'[p].wr = 0 /\ buf'[p].rd = 0
      BY <2>1, <3>1 DEF Buffers
    <3> QED BY <3>4, <3>5 DEF readable
  <2>3. CASE p \notin Outputs
    <3>1. p \in Inputs /\ buf'[p] = buf[p]
      BY <1>1, <2>3 DEF Ports
    <3> QED BY <1>3, <2>1, <3>1 DEF readable
  <2> QED BY <2>2, <2>3
<1>5. complained' = FALSE
  <2>1. ~ \E p \in Outputs : readable(buf[p]) # frames
    BY <1>2, <1>3 DEF IInv, Types, readable, Ports
  <2>2. complained = FALSE
    BY DEF IInv, Types
  <2> QED BY <1>1, <2>1, <2>2, Zenon
<1>6. Types'
  BY <1>1, <1>4, <1>5 DEF IInv, Types, calls
<1>7. Fresh' /\ Within'
  BY <1>1 DEF IInv, Fresh, Within
<1>8. Between'
  BY <1>1, <1>3, <1>4 DEF Between, calls
<1>9. InStep'
  BY <1>1 DEF IInv, InStep, calls
<1> QED BY <1>6, <1>7, <1>8, <1>9 DEF IInv

LEMMA InvStep ==
  ASSUME 0 \notin FirstFrames
  PROVE  IInv /\ [Next]_vars => IInv'
<1> SUFFICES ASSUME IInv, [Next]_vars PROVE IInv'
  OBVIOUS
<1>1. CASE Main \/ ConstructionFails \/ Shutdown
  BY <1>1, MainStep
<1>2. CASE StartCycle
  BY <1>2, StartStep
<1>3. CASE Process
  <2>1. CASE Receive
    BY <2>1, ReceiveStep
  <2>2. CASE EnterProcess \/ EnterTooEarly \/ CallWithoutIo
    BY <2>2, EnterStep
  <2>3. CASE (\E p \in Inputs : Input(p)) \/ (\E p \in Outputs : Output(p))
    BY <2>3, ServeStep DEF Ports
  <2>4. CASE Clock \/ ReturnFromClock
    BY <2>4, ClockStep
  <2>5. CASE Transmit
    BY <2>5, TransmitStep
  <2> QED BY <1>3, <2>1, <2>2, <2>3, <2>4, <2>5 DEF Process
<1>4. CASE UNCHANGED vars
  BY <1>4 DEF vars, server, client, calls, IInv, Types, Fresh, Between, Within,
              InStep, readable
<1> QED BY <1>1, <1>2, <1>3, <1>4 DEF Next

-----------------------------------------------------------------------------
(* Types, and no more ticks than the cycle has frames, however many        *)
(* cycles the client goes through.                                         *)
THEOREM TypeCorrect ==
  ASSUME 0 \notin FirstFrames
  PROVE  Spec => []TypeOK
<1>1. IInv => TypeOK
  <2>1. complained = FALSE => complained \in BOOLEAN
    BY Zenon
  <2> QED BY <2>1 DEF IInv, Types, TypeOK
<1> QED BY <1>1, InvInit, InvStep, PTL DEF Spec

(* No sample is skipped, repeated or taken from another cycle, however     *)
(* many ports there are and whatever the numbers of frames: ticks and the  *)
(* positions of all buffers never come apart.                              *)
THEOREM EverySampleInStep ==
  ASSUME 0 \notin FirstFrames
  PROVE  Spec => []InStep
<1>1. IInv => InStep
  BY DEF IInv
<1> QED BY <1>1, InvInit, InvStep, PTL DEF Spec

(* The client hands back whole cycles only, and has nothing to complain    *)
(* about.                                                                  *)
THEOREM OnlyWholeCycles ==
  ASSUME 0 \notin FirstFrames
  PROVE  Spec => []WholeCycles
<1>1. IInv => WholeCycles
  BY DEF IInv, Types, Between, WholeCycles
<1> QED BY <1>1, InvInit, InvStep, PTL DEF Spec
=============================================================================
