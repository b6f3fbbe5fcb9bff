---------------------------- MODULE StdioChannels ----------------------------
(***************************************************************************)
(* A program that reads and writes files and pipes: the channels of        *)
(* interface/raw/interface.h and main() of interface/raw/main.cpp.         *)
(*                                                                         *)
(* A channel either moves elements directly between program and stream, or *)
(* through a buffer of its own.  The end of an input, or a device that     *)
(* fails, throws an exception that ends the program; what is then still in *)
(* the buffers of outputs is written by their destructors.                 *)
(*                                                                         *)
(* The n-th element of an input, or that is given to an output, is n - 1.  *)
(***************************************************************************)
EXTENDS Integers, Sequences

CONSTANTS
  Inputs, Outputs,
  Size,         (* d_properties.transfer_size: elements per transfer       *)
  MaxBuffer,    (* max_buffer_size, the option -b                          *)
  Sources,      (* possible lengths of inputs                              *)
  Rooms,        (* possible capacities of the devices of outputs           *)
  MaxLead,      (* a channel is at most so many transfers ahead of another *)
  PreludeOnly,  (* transfers per channel of a program without a period     *)
  MaxTransfers  (* and, at most, of one with a period                      *)
Chans == Inputs \cup Outputs
ASSUME StdioAssumption ==
  /\ Inputs \cap Outputs = {}
  /\ Size \in [Chans -> Nat \ {0}] /\ MaxBuffer \in Nat
  /\ Sources \subseteq [Inputs -> Nat] /\ Rooms \subseteq Nat
  /\ MaxLead \in Nat \ {0} /\ {PreludeOnly, MaxTransfers} \subseteq Nat

VARIABLES
  pc,           (* "running"; "thrown", an exception is on its way;        *)
                (* "leaving", main returns; "exited"                       *)
  status,       (* what main returns                                       *)
  source, broken, room, has_period,   (* see Channels                      *)
  calls,        (* transfers completed on each channel                     *)
  taken,        (* elements taken from the stream of each input            *)
  device,       (* elements written to the stream of each output           *)
  buf,          (* d_buffer of each channel                                *)
  idx, cnt,     (* d_buffer_index, d_buffer_count                          *)
  bad, eof,     (* channels whose stream has badbit or eofbit set          *)
  dest,         (* what the last transfer of an input delivered            *)
  open          (* outputs that have yet to be destroyed                   *)

world == <<source, broken, room, has_period>>
inputs == <<taken, cnt, eof, dest>>
vars == <<pc, status, world, calls, inputs, device, buf, idx, bad, open>>

Init ==
  /\ pc = "running" /\ status = 0
  /\ source \in Sources /\ room \in [Outputs -> Rooms]
  /\ broken \in SUBSET Inputs /\ has_period \in BOOLEAN
  /\ calls = [c \in Chans |-> 0]
  /\ taken = [i \in Inputs |-> 0] /\ cnt = [i \in Inputs |-> 0]
  /\ dest = [i \in Inputs |-> <<>>]
  /\ device = [o \in Outputs |-> <<>>]
  /\ buf = [c \in Chans |-> <<>>] /\ idx = [c \in Chans |-> 0]
  /\ bad = {} /\ eof = {}
  /\ open = Outputs

Least(a, b) == IF a < b THEN a ELSE b
Stretch(first, n) == [k \in 1..n |-> first + k - 1]

(* should_buffer                                                           *)
Buffered(c) == MaxBuffer >= 2 * Size[c]

(* The program calls its channels in some order, none too far ahead.       *)
Turn(c) ==
  /\ pc = "running"
  /\ \A d \in Chans : calls[c] < calls[d] + MaxLead
  /\ calls[c] < IF has_period THEN MaxTransfers ELSE PreludeOnly

Completed(c) == calls' = [calls EXCEPT ![c] = @ + 1] /\ pc' = pc
Thrown == pc' = "thrown" /\ UNCHANGED calls

-----------------------------------------------------------------------------
(* Mutated: takes every read to be complete                                *)
Requested(i, n) == n
(* istream::read of n elements: how many there are; if fewer than n, the   *)
(* stream has come to its end, or to what cannot be read.                  *)
Available(i, n) == Least(n, source[i] - taken[i])
Short(i, n)     == Available(i, n) < n

Delivered(i, data) ==
  /\ dest' = [dest EXCEPT ![i] = data]
  /\ Completed(i)

MarkEnd(i, n) ==
  /\ eof' = IF Short(i, n) /\ i \notin broken THEN eof \cup {i} ELSE eof
  /\ bad' = IF Short(i, n) /\ i \in broken THEN bad \cup {i} ELSE bad

ReadDirect(i) ==
  /\ Turn(i) /\ ~Buffered(i)
  /\ taken' = [taken EXCEPT ![i] = @ + Available(i, Size[i])]
  /\ MarkEnd(i, Size[i])
  /\ IF Short(i, Size[i])
     THEN Thrown /\ UNCHANGED dest
     ELSE Delivered(i, Stretch(taken[i], Size[i]))
  /\ UNCHANGED <<status, world, cnt, device, buf, idx, open>>

(* The elements that are left in the buffer                                *)
Left(i) == cnt[i] - idx[i]

ReadFromBuffer(i) ==
  /\ Turn(i) /\ Buffered(i)
  /\ Left(i) >= Size[i]
  /\ Delivered(i, SubSeq(buf[i], idx[i] + 1, idx[i] + Size[i]))
  /\ idx' = [idx EXCEPT ![i] = @ + Size[i]]
  /\ UNCHANGED <<status, world, taken, cnt, eof, device, buf, bad, open>>

(* Mutated: forgets what was left when it fills the buffer again           *)
RestDropped(i, fresh) == SubSeq(fresh, 1, Size[i])
(* What was left and as many of the fresh elements as are missing          *)
RestAnd(i, fresh) ==
  SubSeq(buf[i], idx[i] + 1, cnt[i]) \o SubSeq(fresh, 1, Size[i] - Left(i))

(* Mutated: d_buffer_count stays what it was when nothing more comes       *)
CountKept(i) ==
  IF Available(i, MaxBuffer) = 0 THEN cnt[i] ELSE Available(i, MaxBuffer)
(* gcount() / sizeof(T)                                                    *)
CountRead(i) == Available(i, MaxBuffer)

(* The stream's own exceptions tell of badbit only: that fewer elements    *)
(* than required were read is up to the channel.                           *)
Refill(i) ==
  /\ Turn(i) /\ Buffered(i)
  /\ Left(i) < Size[i]
  /\ taken' = [taken EXCEPT ![i] = @ + Available(i, MaxBuffer)]
  /\ MarkEnd(i, MaxBuffer)
  /\ LET n == CountRead(i)
         fresh == IF Available(i, MaxBuffer) = 0 THEN buf[i]
                  ELSE Stretch(taken[i], Available(i, MaxBuffer))
     IN  /\ buf' = [buf EXCEPT ![i] = fresh]
         /\ cnt' = IF i \in bad' THEN cnt ELSE [cnt EXCEPT ![i] = n]
         /\ IF i \in bad' \/ Size[i] - Left(i) > n
            THEN Thrown /\ idx' = [idx EXCEPT ![i] = 0] /\ UNCHANGED dest
            ELSE /\ Delivered(i, RestAnd(i, fresh))
                 /\ idx' = [idx EXCEPT ![i] = Size[i] - Left(i)]
  /\ UNCHANGED <<status, world, device, open>>

-----------------------------------------------------------------------------
(* ostream::write of data: the device takes as much as it has room for.    *)
Fits(o, data) == Len(device[o]) + Len(data) <= room[o]
Put(o, data) ==
  device' = [device EXCEPT ![o] =
               @ \o SubSeq(data, 1, Least(Len(data), room[o] - Len(@)))]
MarkBad(o, data) == bad' = IF Fits(o, data) THEN bad ELSE bad \cup {o}

Row(o) == Stretch(calls[o] * Size[o], Size[o])

WriteDirect(o) ==
  /\ Turn(o) /\ ~Buffered(o)
  /\ Put(o, Row(o)) /\ MarkBad(o, Row(o))
  /\ IF Fits(o, Row(o)) THEN Completed(o) ELSE Thrown
  /\ UNCHANGED <<status, world, inputs, buf, idx, open>>

(* d_buffer up to d_buffer_index, followed by data                         *)
Extended(o, data) == SubSeq(buf[o], 1, idx[o]) \o data

WriteToBuffer(o) ==
  /\ Turn(o) /\ Buffered(o)
  /\ idx[o] + Size[o] < MaxBuffer
  /\ buf' = [buf EXCEPT ![o] = Extended(o, Row(o))]
  /\ idx' = [idx EXCEPT ![o] = @ + Size[o]]
  /\ Completed(o)
  /\ UNCHANGED <<status, world, inputs, device, bad, open>>

(* The full buffer is written; d_buffer_index is 0 already if that fails.  *)
Flush(o) ==
  /\ Turn(o) /\ Buffered(o)
  /\ idx[o] + Size[o] >= MaxBuffer
  /\ LET data == Extended(o, Row(o))
         full == SubSeq(data, 1, MaxBuffer)
         rest == Least(Len(data) - MaxBuffer, MaxBuffer)
     IN  /\ Put(o, full) /\ MarkBad(o, full)
         /\ IF Fits(o, full)
            THEN /\ buf' = [buf EXCEPT ![o] =
                              SubSeq(data, MaxBuffer + 1, MaxBuffer + rest)]
                 /\ idx' = [idx EXCEPT ![o] = rest]
                 /\ Completed(o)
            ELSE /\ buf' = [buf EXCEPT ![o] = full]
                 /\ idx' = [idx EXCEPT ![o] = 0]
                 /\ Thrown
  /\ UNCHANGED <<status, world, inputs, open>>

-----------------------------------------------------------------------------
(* Mutated: any stream that could not give or take what it was asked to    *)
Failing == bad \cup eof
(* report_stream_error: bad, or fail and not eof                           *)
Faulty == bad

Catch ==
  /\ pc = "thrown"
  /\ pc' = "leaving"
  /\ status' = IF Faulty # {} THEN 1 ELSE 0
  /\ UNCHANGED <<world, calls, inputs, device, buf, idx, bad, open>>

(* The prelude was all.                                                    *)
Finish ==
  /\ pc = "running" /\ ~has_period
  /\ \A c \in Chans : calls[c] = PreludeOnly
  /\ pc' = "leaving"
  /\ UNCHANGED <<status, world, calls, inputs, device, buf, idx, bad, open>>

(* Mutated: the buffer is deleted with what is in it                       *)
NothingMore(o) == <<>>
Remaining(o) == SubSeq(buf[o], 1, idx[o])

(* The destructor of an output: no exceptions any more                     *)
Destroy(o) ==
  /\ pc = "leaving" /\ o \in open
  /\ Put(o, Remaining(o)) /\ MarkBad(o, Remaining(o))
  /\ open' = open \ {o}
  /\ UNCHANGED <<pc, status, world, calls, inputs, buf, idx>>

Exit ==
  /\ pc = "leaving" /\ open = {}
  /\ pc' = "exited"
  /\ UNCHANGED <<status, world, calls, inputs, device, buf, idx, bad, open>>

Next ==
  \/ \E i \in Inputs : ReadDirect(i) \/ ReadFromBuffer(i) \/ Refill(i)
  \/ \E o \in Outputs : WriteDirect(o) \/ WriteToBuffer(o) \/ Flush(o)
  \/ Catch \/ Finish
  \/ \E o \in Outputs : Destroy(o)
  \/ Exit

(* The operating system runs the program.                                  *)
Spec == Init /\ [][Next]_vars /\ WF_vars(Next)
-----------------------------------------------------------------------------
(* The types; positions in the buffers keep within what is in them.        *)
TypeOK ==
  /\ pc \in {"running", "thrown", "leaving", "exited"}
  /\ status \in {0, 1}
  /\ bad \subseteq Chans /\ eof \subseteq Inputs /\ open \subseteq Outputs
  /\ \A i \in Inputs : taken[i] \in 0..source[i] /\ cnt[i] \in 0..MaxBuffer
  /\ \A i \in Inputs : pc = "running" => idx[i] \in 0..cnt[i]
  /\ \A o \in Outputs : Buffered(o) => idx[o] \in 0..(MaxBuffer - 1)

(* Each transfer of an input delivers the elements that follow those of    *)
(* the transfer before, and a device has the elements it was given from    *)
(* the first on: none is left out, repeated, or in another's place, where  *)
(* one buffer ends and the next begins as anywhere else.                   *)
InOrder ==
  /\ \A i \in Inputs :
       calls[i] > 0 => dest[i] = Stretch((calls[i] - 1) * Size[i], Size[i])
  /\ \A o \in Outputs : device[o] = Stretch(0, Len(device[o]))

(* Buffers make no difference to what the program reads, when and with     *)
(* which status it ends, and what has been written when it has.            *)
Direct == INSTANCE Channels WITH
  phase <- CASE pc = "running" -> "running"
             [] pc = "thrown"  -> IF bad = {} THEN "ending" ELSE "failing"
             [] pc = "leaving" -> IF status = 0 THEN "ending" ELSE "failing"
             [] pc = "exited"  -> "closed",
  got <- [i \in Inputs |-> calls[i] * Size[i]],
  sent <- [o \in Outputs |-> calls[o] * Size[o]],
  arrived <- [o \in Outputs |-> IF pc = "exited" THEN Len(device[o]) ELSE 0]
BuffersDoNotMatter == Direct!Spec

(* The program exits in the end: if nothing else ends it, its inputs do.   *)
EventuallyExits == <>(pc = "exited")
=============================================================================
