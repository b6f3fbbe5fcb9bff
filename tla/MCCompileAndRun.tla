------------------------ MODULE MCCompileAndRun ------------------------
EXTENDS CompileAndRun, ExamplePrograms

CONSTANTS
  MaxPeriodOffset, MaxPeriodScale   (* bounds of the scheduling options    *)

MCPrograms == RunnablePrograms \cup FirstElement

(* Buffers that wrap, of any size or of a power of two, and buffers that   *)
(* shift                                                                   *)
MCOptions ==
  LET with(offsets, scales, shifting, power) ==
        [period_offset : offsets, period_scale : scales,
         buffer_data_shifting : {shifting}, data_size_power_of_two : {power}]
  IN  with(0..MaxPeriodOffset, 1..MaxPeriodScale, FALSE, FALSE)
        \cup with(0..MaxPeriodOffset, {1}, FALSE, TRUE) \cup with({0}, {1}, TRUE, FALSE)
=============================================================================
