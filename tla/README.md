# Verification of Arrp's compiler and runtime

Arrp is a language for streams and multidimensional arrays. Its compiler turns
a program of (possibly infinite) array definitions into a C++ class with a
function `prelude()`, called once, and a function `period()`, called again and
again, which together produce and consume infinite arrays with finite buffers.
This directory holds TLA+ modules that model how it does that, from source
files to elements on a device, the TLC configurations that check them on small
instances, and proofs, checked by TLAPS, of what holds for all of them.

1. [Inventory](#1-inventory)
2. [Modules](#2-modules)
3. [Runs](#3-runs)
4. [Proofs](#4-proofs)
5. [Findings](#5-findings)
6. [Abstractions and limits](#6-abstractions-and-limits)
7. [Plan](#7-plan)

## 1. Inventory

```
 .arrp files
   | module_parser, driver (bison)          modules, imports
   | func_gen, reference_analysis,          names, recursive definitions
   | type_checker, func_reducer, ...        functions reduced away
   | polyhedral_gen                         statements, arrays, accesses (ph::model)
   v
 compile_module, back end                   compiler/compiler.cpp
   | drop instances nobody reads
   | scheduler::schedule                    isl schedule -> prelude + period
   | storage_allocator::allocate            buffer sizes, dependencies over periods
   | cpp_gen::generate                      C++ class: buffers, phases, prelude(), period()
   v
 generated class  <->  io object            io->input(x), io->output(y), io->clock()
                       interface/jack, interface/puredata, interface/raw (stdio)
```

| Component | State | Operations | Interaction | What is hard |
|---|---|---|---|---|
| Module parser (`frontend/module_parser.cpp`) | table of named modules, working directories, order of modules | parse a file, resolve an import | calls itself for imports | an import met while it is being parsed; a file with another module name than asked for |
| Functional generator (`frontend/functional_gen.cpp`) | scopes, stacks of names and arrays, identifiers issued | make a definition of each declaration | takes syntax trees of all modules in their order | arrays whose elements are declared apart, collected in an unordered map; qualified names |
| Reference analysis (`frontend/reference_analysis.cpp`) | definitions in progress and done | visit a definition | writes `is_recursive` for type checker and reduction | cycles through a definition in progress |
| Function reduction, folding, clean-up (`func_reduction.cpp`, `func_copy.cpp`, `folding.cpp`, `scope_cleanup.cpp`) | expression trees, names issued, counts of references | copy, apply, expose, fold, drop | one pass after the other, starting from each output | copies that share something with their original; counts that are out of date; the order of outputs |
| Type checker (`type_check.cpp`) | types, marks of what is being processed, ranges of variables | three passes over all definitions | reads `is_recursive`, writes the types that array passes rely on | recursive definitions without a type; a type found on the way that no longer holds at the end |
| Array passes (`array_inflate.cpp`, `array_reduction.cpp`, `prim_reduction.cpp`, `array_transpose.cpp`) | global definitions, free variables of each | lift, inflate, reduce, transpose | put every array into the normal form of the next pass | free variables come out of an unordered map; domains that overlap |
| Polyhedral generator (`frontend/ph_model_gen.cpp`) | `ph::model` | statement and access per array definition; I/O statements; the I/O clock | hands the model to the back end | accesses that are not affine; order of inputs and outputs, which is only there as relations |
| Pass manager (`compiler/compiler.cpp`) | the model; the schedule | the passes below, in order; I/O latencies | calls every other component | what a pass promises to those after it; a latency that may be negative, and -1 if there is none |
| Scheduler (`polyhedral/scheduling.cpp`) | `schedule`: full, prelude, period, tiling; `array->period` | isl schedule, find the period, cut prelude and period | its tiling is read by the allocator and the code generator | where the period starts, how long it is, whether all accesses really repeat |
| Storage allocator (`polyhedral/storage_alloc.cpp`) | `array->buffer_size`, `inter_period_dependency`, first and last element of a period | conflicts, sizes, dependencies | reads the schedule | elements live at the same time; infinite lifetimes; order of isl's basic maps |
| Code generator (`cpp/cpp_target.cpp`, `cpp/cpp_from_polyhedral.cpp`) | buffers: size, wrap, phase, shift, stack | `buffer_analysis`, `generate_buffer_access`, `advance_buffers` | emits the class | phases at the turn of prelude and period; shifting; stack buffers lose their contents |
| Generated class | buffers, phases | `prelude()`, `period()` | driven by the host, calls `io` | long runs: the state after any number of periods |
| JACK client (`interface/jack`) | buffers per port, ticks, frames of the cycle | constructor and `main` in one thread; `process`, `input`, `output`, `clock`, `receive`, `send` in the process thread | waits for cycles of the JACK server and signals their end | a process thread that starts before the object is complete; cycles with different numbers of frames, or none |
| Pure Data external (`interface/puredata`) | coroutine, ticks, buffers, the host's signal vectors | set-up, `process_pd_signals`, `process`, `input`, `output`, `clock` | the host's call resumes a coroutine, which gives way in `clock` | inlets and outlets that share a vector; setting up again in the middle of the program |
| Stdio channels (`interface/raw`) | per-channel buffers, index and count; state of the streams | `setup`, `transfer`, destructors, `main` | the class reads and writes elements; ends of input come as exceptions | end of input in the middle of a buffer, an exception with data left in other buffers |

What makes each correct:

- *Module parser*: each module is in the order once, behind all that it imports,
  whatever files there are and whatever they say of themselves
  (`ImportsInOrder`).
- *Reference analysis*: once it is over, what is left unmarked has no loop
  (`LoopsCut`), and only members of loops are marked (`OnlyLoopsMarked`).
- *Front end passes, each and together*: every element of every output keeps the
  value it was written with, through every pass and every order in which hash
  tables give out their contents (`MeaningKept`); no name is bound twice or in
  use where nothing binds it (`NamesInPlace`); the sizes that are inferred and
  rearranged are those of the values (`TypesRight`); what leaves array reduction is
  what the generator can make statements of (`NormalForm`); a program ends compiled
  or in the error that it deserves (`RightVerdict`).
- *Polyhedral generator*: each element of each array is computed by one instance
  of one statement and each element of an output handed on once
  (`ElementsOnce`); whatever a statement reads is in the relations that the
  back end will go by (`AccessesCovered`).
- *Scheduler*: after the period offset every access of the program is repeated
  each `tiling.size` later, `array->period` elements further on (`AccessesRepeat`);
  prelude and periods together are the schedule, nothing twice, nothing left out
  (`RunsAsWritten`); it turns down only what has no period (`RejectedForGoodReason`).
- *Latencies*: a client that keeps each input ahead by its latency hands in all
  that any output depends on (`LatenciesSuffice`).
- *Dropping unread instances*: nothing that is read is dropped (`NothingMissing`),
  and what the allocator assumes holds afterwards (`WritesAreRead`).
- *Storage allocator*: two elements live together never share a cell
  (`AllocationSafe`, `WrappingKeepsApart`), no conflict is overlooked
  (`DistancesFound`), no buffer is larger than the conflicts ask for
  (`NoLargerThanNeeded`), and errors are raised only for elements that live for
  ever (`ErrorJustified`).
- *Code generator and generated class*: every access is in bounds
  (`AccessesInBounds`), the phase tracks the periods gone by (`PhaseTracksTime`),
  no element that is still needed is overwritten or lost with a stack frame
  (`NothingNeededIsLost`, `StackIsTransient`), and the class does what the
  program on unbounded arrays does (`RunsAsWritten`).

- *Clocked interfaces*: the n-th sample of a port belongs to its n-th frame
  (`InStep`), cycles and blocks are complete when they are handed back
  (`WholeCycles`, `BlockComplete`), every cycle is (`Answered`), and the process
  thread finds a program to run (`ReadyToRoll`).
- *Stdio channels*: elements keep their order (`InOrder`); buffering changes
  neither what is read, nor when and how the program ends, nor what is written
  (`BuffersDoNotMatter`); a program whose inputs end exits (`EventuallyExits`).

The hazards, each at its line, are listed in `PROJECT.json` with the properties
that cover them or the reason why none does yet.

## 2. Modules

The front end, from files to the polyhedral model:

| Module | Models | State and actions |
|---|---|---|
| `ModuleParser` | `module_parser` | `project` (the files), `created`, `ordered`, `frames` (the recursion), `exception`: `ParseMain`, `AlreadyImported`, `CanNotOpen`, `ParseCandidate`, `CanNotFind`, `EndMain`, `EndImported`, `EndOther` |
| `Generator` | `generator` of functional_gen.cpp: from syntax trees to the functional model | operators that hand a state on: scopes, names, arrays |
| `FunctionalModel` | expressions, identifiers, types; and what they mean, element by element | operators; `Meaning` is the reference definition |
| `FuncReduction`, `Folding` | copying, application and exposure of functions; clean-up, folding, arithmetic on constants | operators with the source's names |
| `TypeCheck` | `type_checker`: three passes, constraints, ranges | operators |
| `ArrayInflate`, `ArrayReduction`, `ArrayTranspose` | the array passes | operators |
| `PolyhedralModel` | statements, accesses and their relations, and what they compute | operators; `Element`, `EachOnce`, `ReadsCovered` |
| `PolyhedralGen` | `polyhedral_gen` | operators |
| `ReferenceAnalysis` | `reference_analysis` | `refs`, `order`, `path`, `done`, `marked`: `Start`, `FollowDone`, `FollowLoop`, `FollowNew`, `Return` |
| `FrontEnd` | `compile_module` up to the polyhedral model: all of the above in their order | `program`, `stage`, `todo`, `model`: `ParseModules`, `GenerateFunctional`, `AnalyseReferences`, `MarkRecursive`, `ReduceFunctions`, `CleanUpFunctions`, `FoldDefinitions`, `CleanUpFolded`, `CheckAllTypes`, `LiftDefinitions`, `InflateFor`, `ReduceAllArrays`, `TransposeArrays`, `GenerateModel`, `End` |
| `ExampleModules`, `ExampleSources`, `MCFrontEnd` | the programs that TLC checks it with, as functional models and as files | |
| `ModuleParserProofs`, `ReferenceAnalysisProofs` | theorems | |

The back end and the interfaces:

| Module | Models | State and actions |
|---|---|---|
| `StorageAlloc` | one call of `storage_allocator::compute_buffer_size` | `deltas`, `buffer_size`, `stage`, `dim`: `FindConflicts` (`compute_conflicts`, `absolute_values`), `SizeExclusive` and `ExcludeSatisfied` (the exclusive conflicts of each dimension), `ExpandDimension` (one turn of successive modulo), `NoWriters`. The option `m_classic` is a variable, the pieces of the precedence relation come in the order isl has them. |
| `MCStorageAlloc` | problems for it: schedules of a two-dimensional array | |
| `AffineProgram` | `ph::model` after reduction; `gcd`, `lcm`; the pass that drops unread instances | operators |
| `Scheduling` | `make_periodic_schedule` and what it calls | operators with the source's names |
| `BufferLayout` | sizes and dependencies of one-dimensional arrays, `buffer_analysis` | operators |
| `Compiler` | the back end of `compile_module` | `prog`, `tiling`, `period`, `buffer_size`, `latency`, `code`: one action per pass and one per error |
| `GeneratedCode` | what the generated class consists of: its code, its buffers | `code`; `Buffer`, `WellFormed` |
| `CallSequence` | the calls of the class and the instances that each executes | operators `InCall`, `KeyAt`, `StartOf`, `BeforeHorizon` |
| `ArrayProgram` | abstract: what a program means, on unbounded arrays | `next`, `seen`: `Execute(n)` |
| `Kernel` | the generated class | `pc`, `k`, `ph`, `mem`: `Construct`, `CallPrelude`, `ExecuteInstance`, `ReturnFromPrelude`, `CallPeriod`, `AdvanceBuffers` |
| `StorageContract` | what the class needs of its code and buffers: the contract between compiler and class | operators `Fits`, `Keeps`, `Flows`, `Whole` |
| `CompileAndRun` | composition: `Compiler` hands its code to `Kernel`; refines `ArrayProgram` | `Compile`, `Run` |
| `ExamplePrograms`, `MCCompiler`, `MCCompileAndRun` | the programs and options that TLC checks | |
| `ClockedIO` | the calls of a program with an I/O clock (`add_io_clock`), and `Linear_Buffer` | `due`, `count`, `where`: `Serve(p, frame)`, `ClockCall`; the buffer's methods as operators |
| `JackClient` | JACK client: main thread, process thread, server | `main`, `pc`, `turn`, frames and ticks, `buf`: steps of the constructors; `Receive`, `EnterProcess`, `Input`, `Output`, `Clock`, `Transmit`, `ReturnFromClock`; `StartCycle`, `Shutdown` |
| `PureData` | Pure Data object and host | `pc`, `routine`, signal vectors `mem`, ticks, `buf`, `own`: `SetUp`, `Block`, `CallRoutine`, `Input`, `Output`, `Clock`, `Return`, `Destroy` |
| `Channels` | abstract: what a program on files and pipes promises | `got`, `sent`, `arrived`, `phase`: `Read`, `Write`, `End`, `Finish`, `Fail`, `Close` |
| `StdioChannels`, `MCStdioChannels` | channels of the stdio interface, `main` | `buf`, `idx`, `cnt`, streams: `ReadDirect`, `ReadFromBuffer`, `Refill`, `WriteDirect`, `WriteToBuffer`, `Flush`, `Catch`, `Finish`, `Destroy`, `Exit`; refines `Channels` |
| `StorageAllocProofs`, `CompilerProofs`, `KernelProofs`, `JackClientProofs`, `PureDataProofs`, `StdioChannelsProofs` | theorems | |

`FrontEnd` extends the modules of its passes and instantiates nothing: the state
machines `ModuleParser` and `ReferenceAnalysis` take their steps within its
stages "parsing" and "references", and every other pass is a function of the
model it works on. A pass that goes through a hash table (outputs, free
variables) is split into one action for each item, so that every order of the items is a
behaviour. An expression is a record of its kind, its children and its type; the
state that a pass hands from visitor to visitor is a record as well, and its
errors are values that the passes stop at. A program in the runs is given with its functional
model, so that there is something independent to compare with: what `Meaning`
says of an element of an output, by unfolding definitions, applications and
array indices, before any pass has touched them.

`AffineProgram` is extended by `Scheduling`, that by `BufferLayout`; `Compiler`
extends that and `GeneratedCode`, which declares the variable `code` that the
compiler leaves to the class. `Kernel` extends `CallSequence` and takes the code as data, so
that what is proved about it is proved for *any* code. `StorageContract`, on
`CallSequence` as well, is the contract that this code has to keep; its definitions are no part of
the program but what is demanded of it. It knows neither the compiler nor the
memory of the class, so that one can be proved to keep it and the other to need no
more. `CompileAndRun` extends `Compiler`, `Kernel` and
`StorageContract`, and instantiates `ArrayProgram` with a refinement mapping;
`KernelProofs` extends it and `CompilerProofs`. In modules that are
composed the names of `Kernel` say whose they are: `KernelInit`, `KernelNext`,
`KernelSpec`, `KernelTypeOK`.

A program in the models is a record of arrays and statements. A statement has a
band (the child of isl's root sequence that it is under), a time `rate * i +
start` in it, a domain (a set of arithmetic progressions) and its array accesses
`mul * i + off`. Statements are numbered as they are executed at equal times; where the code
goes by their order in its model, inputs and outputs first, so does `AccessInfos`. A
cell of a buffer holds the index of the element stored there last: elements are written once, so the index stands for the value, and a read
that finds another index has read a wrong value.

`ArrayProgram` is the promise: the instances execute in the order of the
schedule, for ever, and each read finds the very element it asks for. The
mapping in `CompileAndRun` sends the passes of the compiler, construction, calls
and returns and the advancing of buffers to stutters, and every `ExecuteInstance`
to the `Execute` of the statement; the abstract `next` is computed from where the
class is in its prelude or period.

In the interface modules a sample or element is its number: the n-th on its
port is n - 1, so that a sample that is skipped, repeated, stale or misplaced
shows as a wrong number. `where` is where the last sample of a port came from or
went to. The three interfaces share with the class only the order of its calls:
`ClockedIO` has the ports served in any order between two ticks, as the relations
of `add_io_clock` allow, and `StdioChannels` lets channels run ahead of each
other by up to `MaxLead` transfers. In `JackClient` a step of `clock()` is split
where another thread's action can come in between (`Clock`, then `Transmit`
or `ReturnFromClock`); `StdioChannels`, a sequential program, has one action for
each path through a `transfer`. The mapping to `Channels` counts only completed
transfers, and sees the devices when the program has exited.

## 3. Runs

| Run | Question | Bounds |
|---|---|---|
| `frontend` | Do all passes from files to statements keep meaning, names and sizes, in every order, and do programs end as they should? | 1000 programs with the references among three definitions that there may be, two for each at most and in every order; 59 functional models; 21 programs as files. `Extent` 2, `Window` 5, `MaxIndex` 5, `MaxEstimate` 10 |
| `storage` | Do live elements keep apart, are the sizes needed, are the errors justified? Both techniques, both orders of the pieces. | two dimensions, `Width` 3 columns, distances up to `Window` 5 besides the unbounded one, schedule coefficients up to 3, latencies up to 2 |
| `compiler` | The passes one after another on the example programs, under all options; do they keep what later passes assume? | `Horizon` 24, `MaxDelay` 2, `MaxLag` 1, period offset 0..1, period scale 1..2, `StackLimit` 24 |
| `run` | Does the compiled class do what the program says, with buffers that wrap and with buffers whose data are shifted? Does its code keep the contract between compiler and class? | `Horizon` 30, `MaxPeriods` 9; a period is called only if it is before the horizon (`BeforeHorizon`) |
| `jack` | Do ticks, frames and buffers keep together over cycles, and is every cycle handed back? | two inputs, two outputs, four cycles of 0 to 3 frames, the first of 1 to 3 |
| `puredata` | The same over blocks and set-ups, with shared vectors | two inlets, two outlets, three vectors, blocks of 1 and 2 samples, two blocks after each of two set-ups |
| `stdio` | Do buffers matter? | a buffer of 5; transfers of 2 (buffered) and 3 (direct); inputs of 0, 4, 9, 11 and 18 elements, broken or not; devices with room for 1, 5 and 100 |
| `storage_skewed`, `compiler_skipping`, `compiler_finite`, `jack_startup`, `frontend_loops` | the findings of section 5 | as above |

Why these bounds are enough for the interesting cases:

- Three definitions with two references each have every shape of loop that
  reference analysis can go wrong about: nested loops, loops that share a
  member, a loop that is met twice, one that is entered in its middle. The rest of
  the passes then works on each of these graphs.
- The functional models are those of the programs in `test/unit` with smaller
  ranges, as far as the language features are distinct, and a few more for
  orders and errors the tests do not have. `Extent` 2 compares three elements
  in each dimension: the initial values, the boundary between patterns and the
  general case. Domains are sets of points up to `Window` 5, beyond every constant in the
  examples; so are the statements' instances (`MaxIndex`). `MaxEstimate` 10 is
  above every value that an unknown in an access relation needs to take.
- Two arrays with elements declared apart per scope are collected in both orders,
  which are all that there are.
- `Window` 5 is beyond every finite distance that the latencies and coefficients
  can produce, so that a finite distance is never cut off; `Infinity` (100)
  stands for isl's unbounded maximum and appears in problems with an unbounded
  latency. The two orders of the two pieces make `j <= i` matter.
- `Horizon` is the number of time steps looked at. The largest offset plus two
  periods of any example fits in it twice, so a distance that still grows between
  `Horizon - period` and `Horizon` is one that grows for ever.
- `IsScheduled`, which all programs satisfy, has no statement start before `-Horizon`: `Instances`
  looks at indices up to `2 * Horizon`, and an instance before the horizon then
  has a smaller one. `BeforeHorizon`, a guard of `CallPeriod`, keeps the class
  within what is looked at, so that `Whole` speaks of each period that is called.
- `StackLimit` is 24 bytes instead of the 1024 of the code, so that some
  buffers fit on the stack and some do not.
- `MaxDelay` 2 and `MaxLag` 1 give buffers of one to four cells, sizes that are
  multiples of the period and sizes that are not, and rounding to a power of two
  that does and does not change the size. `MaxPeriods` 9 takes every phase
  around its buffer at least once and lets every shifting buffer shift twice.
- `MaxPeriodOffset` 1 and `MaxPeriodScale` 2 are the options
  `period_offset` and `period_scale`.
- data shifting and power-of-two sizes are alternatives in the code
  (`BufferFor` ignores the second under the first), so the options do not combine them.

- Cycles of 0 to 3 frames have an empty cycle before, between and after others
  and a cycle shorter and longer than the one before; four of them make positions
  differ from those of a single long one. Two blocks after each set-up show what
  is left over from the block and from the set-up before.
- A buffer of 5 and transfers of 2 make transfers that end at, before and across
  the end of a buffer; the lengths of inputs put the end into each of these
  places. `MaxTransfers` 6 is more than `in1` has elements for, so that a program
  that runs into that bound has failed to notice the end.

`CHECK_DEADLOCK FALSE` in all but `frontend`, because the systems stop: allocation and
the back end end with a result or an error, programs exit, and the numbers of
periods, cycles and blocks are bounded. In `frontend`, where much can be stuck in the middle,
the two ends are explicit (`End`), and a program that comes to neither is a deadlock.

Fairness. The front end, the back end and the class have none, and no liveness is claimed of
them: the passes are loops over finitely many things, and the class runs only
when its host calls it. `JackClient` assumes weak fairness of the main and of the
process thread, each as a whole: both are ordinary threads, which the operating
system runs; none is assumed of the server, which need not begin another cycle.
`StdioChannels` assumes weak fairness of the one process there is. In `PureData`
nothing happens unless the host calls, so there is no fairness and no liveness.

Each property of the passing runs is matched, in `PROJECT.json`, with a mutated
definition (a dropped guard, an off-by-one, a swapped order, each marked
"Mutated" next to the original) under which TLC finds it violated.

## 4. Proofs

`StorageAllocProofs`, for any number of dimensions, any problem, both techniques:

- `AllocationIsSafe`: `Spec /\ []DistancesFound => []AllocationSafe`. If the
  distance of every live pair is among those computed, then live elements never
  share a cell, for the computed sizes or any larger ones. The hypothesis is what
  run `storage` checks for non-negative coefficients and run `storage_skewed`
  finds violated. The inductive invariant says that every live distance is
  separated by the sizes so far or is still in the working set, and in stage
  "exclude" that the working set is complete; `ExcludeSatisfied` drops only
  distances that a size separates, `ExpandDimension` only those that differ in
  the dimension expanded.
- `OneDimensionLosesNothing` and `OneDimensionIsSafe`: in one dimension
  `DistancesFound` is an invariant, so that the hypothesis is not needed. The
  conflicts are symmetric enough whatever pieces isl has split the precedence
  relation into, and the absolute value loses nothing.
- `NothingIsWasted` and `FailsForGoodReason`: `Spec => []NoLargerThanNeeded` and
  `Spec => []ErrorJustified`, with `TypeCorrect` and without any hypothesis: what
  is lost where `DistancesFound` fails makes buffers too small, never too large.
  The invariant (`SInv`) traces each distance in the working set back to two live
  elements that have it, up to sign and with the dimensions done set to zero.

`ReferenceAnalysisProofs`, for any graph of definitions, finite or not, and any order:

- `LoopsAreCut`: `Spec => []LoopsCut`. Once the search is over, no set of
  definitions that are left unmarked has a loop.
- `MarksAreOnLoops`: `Spec => []OnlyLoopsMarked`.

The code does not mark all members of all loops (section 5), so the obvious
invariant, that the marks so far are those of the loops seen so far, is false.
What holds, and is `IInv`: a definition that is done although it is still being
visited is marked; what is done and no longer visited refers only to what is
complete in the same way, or marked; and no set of complete unmarked
definitions refers only to itself, which is acyclicity in a form that needs no
induction when a definition is added. `Chain` has the path as a chain of
references, from which each mark gets its loop.

`CompilerProofs`, for any programs and schedules (`IsProgram`, `IsScheduled`) and any
options (`OptionsAssumption`):

- `WrappingIsSafe`: `Spec => []WrappingKeepsApart`. Every distance at which
  elements live together is less than what `compute_buffer_size` returns (the
  maximum of a finite set: the keys of instances before the horizon are bounded),
  and rounding up to a power of two only makes it larger. That there is such a
  power is shown without induction, from the number of subsets of a finite set.
- `NothingNeededIsDropped`: `Spec => []NothingMissing`. If the program as
  generated writes each element before it is read, so does what is left when
  unread instances have been dropped. `UsefulPart` solves, for the progression of
  a write and that of a read, the congruence of the indices they meet at: its
  solutions are one progression, or none (`UsefulPartIs`), and whoever writes
  what is read is among them.
- `NothingUnreadIsKept`: the other way round, all that is left, other than
  inputs and outputs, writes something that was read. The pass works out strides and ends of
  domains from the members it has looked at; that they are right for all of the others
  is number theory again (`StrideReaches`, `UsefulAreRead`).
- `AllThatIsWrittenIsRead`: `Spec => [](OneWrite(source) /\ InputsRead(source) /\
  ReadersStay(source) => WritesAreRead)`. The pass looks at the reads of the
  program as it was, and leaves inputs alone. So what the storage allocator takes for granted needs
  more than the pass provides: that inputs are read (`InputsRead`) and that no element
  loses its last reader to the same pass (`ReadersStay`). TLC finds both, up to its bounds,
  in all 71 programs of run `compiler`, of 14 of which something is dropped.
- `CompilerTypes`: `Spec => [](Typed /\ (~opt.buffer_data_shifting => TypeOK))`. The
  size of the period is positive, its offset natural, and buffers have cells, at
  least as many as elements live together. `Typed` is `TypeOK` without its last line, which speaks of the
  cells. For buffers whose data are shifted that line is `BuffersAreLargeEnough` below.
- `EverythingRepeats`: `Spec => [](MoveAlike(prog) => AccessesRepeat)`. From the
  period's offset on, every access is followed by one a period later, at the
  element `array->period` further on, and preceded by one unless it is in the first period. With `TilingFound`,
  the invariant behind it: the size of the period is a multiple of the steps
  of all infinite statements (`CommonPeriod`), its offset is behind the onset of
  each (`LatestOnset`), and the advance that the code's fold over accesses
  arrives at is that of each of them (`OffsetsAgree`).
- `StackHoldsNothingOver`:
  `Spec => [](Sound(source) /\ MoveAlike(prog) => StackIsTransient)`. What is
  read out of a buffer on the stack was written by the same call, in every call, although
  `buffer_analysis` has looked at the first period only. An access of a
  later period goes back to one of the first (`SameCall`), to whose read there is a
  write in that period, since the buffer would have a dependence between
  periods otherwise; forward again, that write is the one of the later period,
  as no element is written twice.
- `LatenciesAreEnough`: `Spec => [](Streaming => LatenciesSuffice)`. What an output needs of
  an input is defined by recursion over instances; that there is such a function (`LatestExists`) and
  that what it returns is an input before the output (`NeededBefore`) hold for lack of
  a first instance for which they do not, in the order of the schedule. So the two are one of the pairs over which
  `compute_io_latencies` takes the maximum. That the maximum is found before the
  horizon is `LeadsSettle`: a pair near the horizon has one a period earlier that leads as
  far, or farther if the input is still that of the prelude. `Streaming` asks for
  a program that is `Sound`, `MoveAlike` and `Accessing` (below), for inputs and
  outputs that are not both and move by one element (`OneWayStreams`), and for three
  periods before `Horizon`; TLC finds all of it in each state of run `compiler` that is "timed".

- `CodeFollowsTheSchedule`: prelude and period, called one after the other,
  execute the instances of the program in the order of their keys (`Ordered`), all
  of them and nothing else (`Whole`), and each after those that write what it reads
  (`Flows`). It needs `InSight`, that the first period and the last instance of every
  finite statement are before the horizon, and `Accessing`, that each statement
  has an access: one without any takes no part in finding the period.
- `CompilerKeepsTheContract`:
  `Spec => [](stage = "done" /\ Manageable => KeepsContract(code))`, for all
  options, data shifting included.
- `BuffersAreLargeEnough`: `Spec => []((stage = "done" => Manageable) => TypeOK)`:
  no buffer is smaller than what `compute_buffer_size` returned for it.

`Manageable` collects what the contract asks of a program and its schedule:

| Part | Says | Why |
|---|---|---|
| `Sound(source)` | elements are written once, and before they are read | the language and isl's schedule promise it |
| `MoveAlike(prog)` | of the accesses of infinite statements to one array all move or none does | the code does not check it as such, see below |
| `Accessing(prog)` | every statement has an access | so has every statement that the generator makes |
| `WithinArrays(prog)` | no index is negative or beyond an array that ends | what the models assume of a program throughout (section 6) |
| `InSight` | the first period and all of the finite statements are before `Horizon` | isl's sets have no horizon |
| `LivesInSight` | whatever is written while an element of the prelude or first period is still to be read is itself read later, before `Horizon` | the same; and that what is written is read is what the allocator assumes |
| `PreludeInReach` | with data shifting: the prelude accesses nothing beyond what the first period does | not checked by the code, see section 5 |

TLC finds all of them true, together with `KeepsContract(code)`, in every state
of run `run`'s instance in which the compiler is done, and buffers that are shifted among
those states. The argument for the contract, along its parts:

- *Calls.* The n-th instance of call m is the n-th of the first period moved m - 1
  periods on (`IsSlot`, `SlotKeys`): its key lies between the ends of two periods (`EndOf`), so keys grow
  over the calls, and any instance is found back in one of them (`FarMembers`).
- *Buffers that wrap.* Two elements needed together in a later period
  are moved back, by as many periods as it takes the older one to get into the first (`InEarlierPeriods`,
  `Together`). There they are before the horizon, so the allocator has seen them in conflict, and the distance,
  which moving back does not change, is less than the buffer's size (`CodeKeepsApart`).
- *Buffers on the stack.* What is read in a call was written in it, by `StackHoldsNothingOver`;
  both have keys within the bounds of the call (`CallBounds`).
- *Buffers whose data are shifted.* `Lowest` and `Highest` are the first and last
  element that the first period accesses. The accesses of period m keep between
  these two moved on by m advances (`RangeOfPeriods`), and so does what is needed from one period
  to the next, which lies where their ranges overlap: that is what a shift moves
  (`KeptWhileSliding`). Nothing is ever needed together with what is more than
  `Highest` away, so a buffer of that size is large enough (`ReachSuffices`),
  and with the room that `ShiftingBuffer` adds for each period before a shift no access is out of bounds
  (`RoomToSlide`).

`MoveAlike(p)` says that of the accesses of infinite statements to one array all
move or none does. The code does not check it as such: `assign_inter_tile_access_offsets` takes an
`array->period` of 0 for one that has not been assigned
(`scheduling.cpp:1182`), so an access that stays in place goes unnoticed if one
that moves is listed later. Two other places make up for that:

- the model lists inputs and outputs before all other statements
  (`ph_model_gen.cpp:101-128`), whatever the order of declarations or of execution. `y[n] = x[0]`
  for an input `x` always ends in "Accesses have inconsistent tile offsets in
  array space.". If `y` were listed first, the program would be compiled, and would read `x[n]` from
  the single cell that `x` gets: run `run` has the program in both orders of execution, and
  `NothingNeededIsLost` and `RunsAsWritten` fail if the accesses are listed in that order;
- of an array that is not an input, only what is read is written. If one element is read
  for ever and others are written and read for ever, the distance between them grows, and the
  allocator ends in "Infinite storage conflict distance." `Unbuffered` has such programs for the
  input and for an array computed from it, in all orders.

TLC finds `MoveAlike(prog)` in every state of run `compiler` with storage allocated. The theorems
take it as a hypothesis, since the second argument is about how distances grow for ever. `Sound(p)` is what the source language promises and isl's schedule keeps: each element is written
once, and before it is read (`RespectsDataFlow`). All programs of the runs are
sound, and there is a program among them with an infinite array on the stack.

Three constructions in these proofs take the place of induction. `LeastOf`: a
non-empty set of naturals has a least member, so that properties of `gcd` (which
the model has as a recursive function on pairs) and of Euclid's coefficients hold
because there is no least counterexample. `FoldSolution` and `FoldSteps`: a
fold over a sequence is the last value of the sequence of partial results,
which exists by well-founded recursion; an invariant of the partial results is one of the fold, for
lack of a first step that breaks it. `Flattened` does the same for the
accesses of all statements in a row.

`KernelProofs`, for any well-formed code, any layout, any `MaxPeriods`:

- `TypeCorrect`: phases stay natural numbers and buffers keep their cells.
- `PhaseIsRight`: `KernelSpec => []PhaseTracksTime`. The phase of a wrapping buffer is
  what has gone by modulo its size, and that of a shifting one a whole number of
  periods below its maximum. Needed with it: the types, that `k = 0` before
  construction, and that the code stays the same (`TInv`).
- `EveryAccessInBounds`: `KernelSpec /\ Fits(code) => []AccessesInBounds`.
- `NothingIsLost`: `KernelSpec /\ Fits(code) /\ Keeps(code) => NothingNeededIsLost`.
- `ScheduleIsFollowed`: under the same hypotheses, instances execute in the
  order of their keys across all calls, so none does twice.
- `EveryReadIsRight`: `KernelSpec /\ Fits(code) /\ Keeps(code) /\ Flows(code) =>
  ReadsFindElements`: whatever an instance before the horizon reads is the element
  that it asks for.
- `CompiledProgramsAreSafe`: `SSpec /\ []CodeIsWellFormed` implies all of these for
  the compiler and the class composed.
- `CompiledProgramsRunAsWritten`: `SSpec /\ []CodeIsWellFormed => RunsAsWritten`, the
  refinement. The initial states map to those of `ArrayProgram` for the useful part of
  the program; the passes of the compiler, construction, calls, returns and the advancing of
  buffers leave `next` and `seen` alone; and `ExecuteInstance` is `Execute` of its
  statement. For that the instance must be the first of all that are still to
  come, of any statement, which is where `Whole` is needed, and must read what it asks for,
  which is `EveryReadIsRight`.
- `CompilerAndClassAgree`: `SSpec /\ [](stage = "done" => Manageable) => []CodeIsWellFormed`.
  The compiler's steps are those of `Spec` (`CompilesAlone`), so that
  `CompilerKeepsTheContract` applies.
- `SoundProgramsRunAsWritten`: from these, `SSpec` and
  `[](stage = "done" => Manageable)` imply `RunsAsWritten`, `NothingNeededIsLost`, `[]AccessesInBounds`, `[]PhaseTracksTime`
  and `ReadsFindElements`. Nothing is assumed of what the compiler makes, only of the
  program that it is given and of how far ahead the model looks.

The hypotheses of the theorems on the class are about the code alone, a constant of the run, and are stated in
`StorageContract`. `Fits`: the accesses of the prelude and of the first period
have natural indices and, in a buffer that neither wraps nor has one cell, lie
below its size, in the last phase before a shift. `Keeps`: keys grow along the
code; a period later every access is `advance` further on in its array; and of
the elements still to be read, those in one wrapping buffer are less than its
size apart from all that is written meanwhile, those in a buffer that is shifted
lie in the part that is moved, those in a plain buffer that moves on and those on the stack
are not read beyond the period. `Flows`: reads have earlier writes. `Whole`: the calls
execute members of the domains only, and none comes before, between or after what they execute. None of them says
anything of cells, phases or memory. That all are satisfied by the code of every
example under all options is `CodeIsWellFormed` in run `run`, and of all `Manageable` programs
`CompilerAndClassAgree`.

The inductive invariant behind `NothingIsLost` (`MInv`) has two parts for each
buffer: all that it holds was written in a call so far and before what is upcoming
(`Past`), and what is still needed is where `Place` says, which is a function of
the element, the number of periods and the phase (`InPlace`). `CellIsPlace` is why the generated index
arithmetic goes to that place: it is where `PhaseTracksTime` is used. `OnePlaceOneElement`
is why a write never hits a needed element; `InPlaceAfterPeriod` and
`ShiftKeeps` are why places and memory move together at the end of a period;
`NotOnStack` is why a call may forget what is on its stack. `EveryReadIsRight` adds that all that was
executed and is needed is present (`Present`).

`JackClientProofs`, for any ports, numbers of frames and numbers of cycles, if the
first cycle has frames (`0 \notin FirstFrames`):

- `TypeCorrect`, with it that there are never more ticks than frames;
- `EverySampleInStep`: `Spec => []InStep`;
- `OnlyWholeCycles`: `Spec => []WholeCycles`.

They follow from one inductive invariant, `IInv`: between two cycles (`Between`)
all ports are at the end of the last one and their buffers used up; within a
cycle (`Within`) each port is `ticks` samples into it, or one more if it has been
served in this tick, its buffer's position says the same, and `ticks` is below
the number of frames whenever the program runs. That last part is where the loop in `clock()`
is needed, for cycles without frames, and the assumption on the first cycle,
which has no such loop.

`PureDataProofs`, for any inlets, outlets, shared vectors, block sizes and numbers
of set-ups, without hypotheses: `TypeCorrect`, `EverySampleInStep`
(`Spec => []InStep`) and `OnlyWholeBlocks` (`Spec => []BlockComplete`). The
invariant is like that of the JACK client, but relates each inlet's buffer to
the block that the host handed in last, and samples of earlier set-ups are no
part of it.

`StdioChannelsProofs`, for any channels, transfers, sizes of buffers, files and
devices, without hypotheses: `TypeCorrect`; `ElementsInOrder`
(`Spec => []InOrder`); and `Implementation`, `Spec => BuffersDoNotMatter`, the refinement
of `Channels`: initial states map to initial states, and every step is a step of
`Channels` or leaves its variables alone.

`ModuleParserProofs`, for any project (any files, any imports):

- `EveryFileHasItsPlace`: when the parser is done, the order of modules has each
  file that was opened, and no other, once (`FilesInPlace`).
- `ModulesInOrder`: what a module imports comes before it, unless it imports the
  module in turn (`ImportsInOrder`). This needs two hypotheses that the code does
  not check. `FoundUnderItsName`: a file declares the name that it is found
  under. If `q.arrp` declares `other` and imports `p`, which imports `q`, `q.arrp` is parsed
  twice. `AliasesDiffer`: no module uses an alias twice; if it does, the
  second import is parsed but not entered into the table (`insert` keeps the first).

The invariant follows the recursion: the frames of `parse` are a chain of
imports, each module that is finished has its imports finished or in that chain
(`Order`), and the result expected by each frame is that of the call above it (`Expected`).

Assumptions on constants, all evaluated by the runs: `PortsAssumption`,
`JackAssumption`, `PureDataAssumption`, `StdioAssumption`, `StorageAssumption`
(problems are what they say, an element is written at the same time as itself),
`ProgramsAssumption` (statements and accesses have the types that the polyhedral
generator gives them, and times as isl's schedules have them, from 0 on),
`OptionsAssumption` (period offset and scale as `find_periodic_tiling` lets them
pass, `scheduling.cpp:974-977`), `KernelAssumption`, `HorizonAssumption`, `StackLimitAssumption`; and, in `KernelInit`,
`WellFormed(code)`, which `CodeIsWellFormed` checks with the contract.

Only model-checked, and why:

- the passes of the front end other than the module parser and reference
  analysis: expression trees are gone through by recursive operators, and what
  those compute is an induction over data;
- that a program is `Manageable`, the hypothesis of the theorems from compiler to
  run. `InSight` and `LivesInSight` are about the bounds of the model, `Sound` is
  a promise of isl, which is external, `MoveAlike` takes the allocator to see which distances
  grow for ever, and `PreludeInReach` is false of some programs;
- `WritesAreRead` of programs with inputs that are not read or readers that are dropped:
  it is false of some, since inputs and outputs are exempt from dropping
  (section 5) and one pass over a chain of unread statements leaves all but the last;
- `LatenciesSuffice` of programs that are not `Streaming`. With a latency that grows
  for ever, for which the code has -1, it is false;
- `RejectedForGoodReason`, which holds of the example programs and not of
  all: whether a distance grows for ever is judged by how it grows before the horizon;
- `CodeIsWellFormed` and the last line of `TypeOK` of `Compiler` of programs that are not
  `Manageable`, and `AccessesRepeat` and `StackIsTransient` of programs that are not `MoveAlike`,
  all of which the runs find turned down;
- `DistancesFound` in several dimensions, where it is false in general (`storage_skewed`), and a
  hypothesis of `AllocationIsSafe`;
- all liveness (`Answered`, `EventuallyExits`): out of the prover's reach.

## 5. Findings

- `storage_skewed`: `storage_alloc.cpp:171` promises all conflicting pairs and
  line 236 says that the inverse conflict is needed "since some conflicts might
  have negative distance", but the line that adds it is commented out (241), and
  `absolute_values` negates one dimension at a time. With a negative schedule
  coefficient the distance of a live pair is missing. Whether isl's scheduler ever
  produces one for a program that reaches the allocator is open: it does not
  promise not to.
- `compiler_skipping`: the allocator assumes that "there are no writes unrelated
  to any reads", but the pass that is to make it so leaves out inputs and outputs
  (`compiler.cpp:309`). An input of which only some elements are read keeps its
  unread writes, whose lifetimes are not considered.
- `compiler_finite`: a program that needs a few elements of an infinite array
  leaves no period that accesses it, and the assertion at
  `storage_alloc.cpp:427` fails.

- `frontend_loops`: `reference_analysis.hpp:16-19` promises to mark every
  identifier that is "part of a reference loop". `process()` counts a definition
  as done as soon as one loop has led back to it (`reference_analysis.cpp:41`),
  so a second loop through it is not followed to its end, and whoever is only on
  that one is not marked: if `b` refers to itself and to `c`, and `c` to `b`, the loop of `b`
  alone makes `b` done, and `c` is not marked. `LoopsCut` still holds, so functions are never
  copied for ever; but the type checker may come first to the member that is not
  marked and then rejects a legal program, "Id has no inferred or explicit type."
  `RightVerdict` makes that exception and no other.
- `jack_startup`: the process thread is started in the constructor of the base
  class (`jack_client.cpp:98`; "Our process() callback will start running now"),
  before the derived class that defines `process()`, its kernel and the kernel's
  `io` exist. If the server begins a cycle while the constructor is still
  connecting ports, the program crashes.

Met on the way, without a run of their own:

- `a[n]` with a scalar `n` that is not affine ends with "Invalid type of variable in
  affine expression.", although `type_check.cpp:1176-1180` says "No problem if
  it's not an affine expression".
- With data shifting, a buffer gets its size from the elements that the first
  period accesses (`storage_alloc.cpp:421-431`, `cpp_target.cpp:337-385`). The prelude, which
  uses the same buffer, is not looked at. A prelude that accesses an
  element far beyond those, `y[21]` where the first period is at `y[0]` to `y[2]` and the
  buffer has 11 cells, is beyond its end: TLC finds `KeepsContract` violated by such a
  program, whose schedule respects its data flow. Whether isl ever finds such a schedule is open;
  `PreludeInReach` excludes it.
- A latency of -1 stands for an infinite one (`compiler.cpp:538`). A delay by one
  element, scheduled as isl does to keep it close to its output, has a latency
  that really is -1; `LateInputs` in the examples has it. Nothing in the repository tells
  the two apart.
- Two local scopes of one definition give the same qualified name to definitions
  of the same name (`functional_gen.cpp:972`).
- Quotients of constants are truncated towards zero when they are folded, and
  rounded down as isl expressions.
- A module that imports itself under its own name is recognised, but one whose
  file declares another name than the import asks for, and which imports the name
  asked for, is parsed for ever.
- `output x` for an input `x` is rejected only if it is declared after it.
- An element that depends on itself is not rejected (`scheduling.cpp:296`; a FIXME in
  `test/unit/array_app_lambda_lift3.in:2-4` says so too).
- `infer_channel_type` compares the first character of a value with '0' and the
  second with '9' (`interface/raw/interface.h:268`), so that the name of a file may
  count as a number; and its help says that pipes default to raw where the default is text.
- The grammar no longer has `this`, which the passes still handle; the tests in
  `test/unit` that use it are not in its CMakeLists.

## 6. Abstractions and limits

- *Front end.* Types are sizes and whether elements are ints or bools; real and
  complex numbers, declared function types and the table of primitive types are left out,
  most primitives with them. The scanner and the parser are generated from their grammars:
  a file says what its syntax tree is, or that it has none. Inputs and external
  functions have their infinite dimension first. Integers in the examples are not divided
  when negative. Names stand for the objects that pointers lead to.
- *isl in the front end* is external: sets of isl are sets of points in a window,
  and an expression is affine if it is built as one. The relations of a
  statement with itself, and the marks of infinite dimensions, are left out of
  `PolyhedralGen`.
- `PolyhedralModel`, which the front end ends with, and `AffineProgram`, which
  the back end starts with, are not connected: the one has any number of
  dimensions and conditions, the other progressions and times that isl has found.
- *isl* in the back end is external. Schedules come in with the example programs, each in several
  variants; the models assume what isl promises of them (`RespectsDataFlow`), not
  how it finds them. A schedule whose root is neither a band nor a sequence, which ends in "The program
  contains independent parts with no basis to synchronize them."
  (`scheduling.cpp:411-417`), is not among them. Sets and relations are evaluated up to the horizon.
- In the pipeline (`AffineProgram` to `Kernel`) arrays and iteration spaces are
  one-dimensional: an element stands for a row. `StorageAlloc` has any number of
  dimensions.
- A statement has one write; several reads.
- Integers are unbounded; the code uses 32-bit ints. Indices are not negative.
  `ceil` of a floating-point quotient is modelled as an integer division rounded
  up.
- Tile and permutation options of the schedule (`--sched-intra-tile-permute` and
  the like), atomic statements, and parallel loops in the generated code are not
  modelled; that columns of a parallel loop conflict is, in `StorageAlloc`.
- Not modelled: the choice of channels from the command line of a stdio program
  (parsing of options before anything runs); the generators of interface code and
  the report, and the loops and text of the generated class (they format what
  others have decided); modulo avoidance, which `compiler.cpp` disables as broken;
  the CLooG and LLVM back ends and `array_bounding.cpp`, which nothing builds or
  calls. A large part of the repository's lines is vendored (`extra/json`) or generated
  (scanners, parsers) and has no row in the map for that reason.
- Values are not modelled, only which element is where.
- A process thread that comes too early is taken to crash, although the data
  race with the constructor has no defined behaviour at all. Ports of the JACK
  client get their blocks from the server for the length of a cycle.
- The first JACK cycle is taken to have frames: `process_thread` does not wait
  again if it has none, unlike `clock()`.
- In `StdioChannels` a stream passes on at once what is written to it; a stream's
  own buffer, whose last part is written by its destructor without any report, is
  beyond the code. A channel in text format moves element by element and is
  modelled as a direct one; that an element cannot be parsed is not modelled.
  A stream that breaks is one that reads up to some element and then fails.

## 7. Plan

Done: all of the path from files to the generated class at work, and the
interfaces that drive it. Left, in order:

1. Theorems: `Accessing` and `WithinArrays` from what `PolyhedralGen` makes, `InSight` and
   `LivesInSight` from lifetimes that do not end at a horizon.
2. `PolyhedralModel` handed over to the back end: a schedule for each model that
   `FrontEnd` ends with, and several iteration dimensions in `AffineProgram`.
3. The class and an interface composed: prelude and period of a compiled program
   with its I/O clock driving `ClockedIO`.
4. `StdioConfig`: options to channels (`find_singular_stream`, `setup_manager`,
   `parse_channel_options`, `infer_channel_type`).
5. Negative indices and 32-bit sizes.
