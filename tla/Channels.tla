------------------------------ MODULE Channels ------------------------------
(***************************************************************************)
(* What a program that reads and writes files and pipes promises           *)
(* (interface/raw), however its channels buffer: inputs are read as long   *)
(* as there are enough elements, the program ends when there are not, and  *)
(* all that was written is there in the end unless a device failed.        *)
(***************************************************************************)
EXTENDS Integers

CONSTANTS
  Inputs, Outputs,
  Size            (* elements per transfer of each channel                 *)

VARIABLES
  phase,          (* "running"; "ending"; "failing", with an error; "closed" *)
  source,         (* elements each input has until it ends                 *)
  broken,         (* inputs that end with an error                         *)
  room,           (* elements that the device of each output can take      *)
  has_period,     (* whether the program goes on by itself                 *)
  got, sent,      (* elements each input has delivered, and each output    *)
                  (* has been given                                        *)
  arrived         (* elements each device has in the end                   *)

world == <<source, broken, room, has_period>>
vars == <<phase, world, got, sent, arrived>>

Init ==
  /\ phase = "running"
  /\ source \in [Inputs -> Nat] /\ room \in [Outputs -> Nat]
  /\ broken \in SUBSET Inputs /\ has_period \in BOOLEAN
  /\ got = [i \in Inputs |-> 0]
  /\ sent = [o \in Outputs |-> 0]
  /\ arrived = [o \in Outputs |-> 0]

Read(i) ==
  /\ phase = "running"
  /\ got[i] + Size[i] <= source[i]
  /\ got' = [got EXCEPT ![i] = @ + Size[i]]
  /\ UNCHANGED <<phase, world, sent, arrived>>

Write(o) ==
  /\ phase = "running"
  /\ sent' = [sent EXCEPT ![o] = @ + Size[o]]
  /\ UNCHANGED <<phase, world, got, arrived>>

UsedUp(i) == i \notin broken /\ got[i] + Size[i] > source[i]
(* It may become known only after the fact that an output is full.         *)
Full(o) == sent[o] + Size[o] > room[o]

Leave(reason, p) ==
  /\ phase = "running" /\ reason
  /\ phase' = p
  /\ UNCHANGED <<world, got, sent, arrived>>

End    == Leave(\E i \in Inputs : UsedUp(i), "ending")
Finish == Leave(~has_period, "ending")
Fail   == Leave(broken # {} \/ (\E o \in Outputs : Full(o)), "failing")

(* Nothing that a device had room for is lost; when the program fails, it  *)
(* may have part of what was to be written next.                           *)
Close ==
  /\ phase \in {"ending", "failing"}
  /\ phase' = "closed"
  /\ arrived' \in [Outputs -> Nat]
  /\ \A o \in Outputs :
       /\ arrived'[o] <= room[o]
       /\ sent[o] <= room[o] => sent[o] <= arrived'[o]
       /\ arrived'[o] <= sent[o] + (IF phase = "failing" THEN Size[o] ELSE 0)
  /\ UNCHANGED <<world, got, sent>>

Next ==
  \/ \E i \in Inputs : Read(i)
  \/ \E o \in Outputs : Write(o)
  \/ End \/ Finish \/ Fail \/ Close

Spec == Init /\ [][Next]_vars
=============================================================================
