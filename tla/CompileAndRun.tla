--------------------------- MODULE CompileAndRun ----------------------------
(***************************************************************************)
(* A program on its way through the back end, and the generated class then *)
(* at work: Compiler hands its code over to Kernel.                        *)
(***************************************************************************)
EXTENDS Compiler, Kernel, StorageContract

compilerVars == <<source, prog, opt, stage, tiling, period, buffer_size, latency>>
runtimeVars  == <<pc, step, k, ph, mem, seen>>

SInit ==
  /\ Init
  /\ pc = "none"
  /\ step = 0 /\ k = 0
  /\ ph = <<>> /\ mem = <<>>
  /\ seen = NoneYet

Compile == Next /\ UNCHANGED runtimeVars
Run     == stage = "done" /\ KernelNext /\ UNCHANGED compilerVars

SNext == Compile \/ Run
SSpec == SInit /\ [][SNext]_<<compilerVars, code, runtimeVars>>
-----------------------------------------------------------------------------
(* The code that the compiler makes is what the class relies on: buffers   *)
(* of the form it can handle, with room for all that is accessed, in which *)
(* elements are kept apart for as long as they are needed, and all of the  *)
(* instances there are.                                                    *)
CodeIsWellFormed ==
  stage = "done" /\ pc = "none" => KeepsContract(code)

(* The program without its useless instances, as far as it is known        *)
Useful == IF stage = "generated" THEN DropUnread(source) ELSE prog

Source == INSTANCE ArrayProgram WITH
  prog <- Useful,
  next <- IF pc = "none"
          THEN [n \in Statements(Useful) |-> FirstFrom(Useful.stmts[n], 0)]
          ELSE NextOfEach

(* From source to run: what executes, and what is read, is what the        *)
(* program without its useless instances asks for, in the order of the     *)
(* schedule, each instance once, across prelude() and all periods.         *)
RunsAsWritten == Source!Spec
=============================================================================
