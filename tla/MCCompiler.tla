----------------------------- MODULE MCCompiler -----------------------------
EXTENDS Compiler, ExamplePrograms

CONSTANTS
  MaxPeriodOffset, MaxPeriodScale,  (* bounds of the scheduling options    *)
  Shifting     (* the values of the option buffer_data_shifting            *)

MCPrograms == RunnablePrograms \cup Unbuffered \cup Sequential

MCOptions ==
  {o \in [period_offset : 0..MaxPeriodOffset, period_scale : 1..MaxPeriodScale,
          buffer_data_shifting : Shifting, data_size_power_of_two : BOOLEAN] :
     ~(o.buffer_data_shifting /\ o.data_size_power_of_two)}
=============================================================================
