--------------------------- MODULE MCStdioChannels ---------------------------
(***************************************************************************)
(* An input and an output with buffers that hold two transfers and a half, *)
(* an input and an output with transfers too large to be buffered.         *)
(***************************************************************************)
EXTENDS StdioChannels

CONSTANTS in1, in2, out1, out2

MCInputs  == {in1, in2}
MCOutputs == {out1, out2}
MCSize == [c \in {in1, in2, out1, out2} |-> IF c \in {in1, out1} THEN 2 ELSE 3]
(* in1 always ends before MaxTransfers; in2 may leave that to in1.         *)
MCSources == {s \in [MCInputs -> {0, 4, 9, 11, 18}] : s[in1] # 18 /\ s[in2] # 11}
MCRooms == {1, 5, 100}
=============================================================================
