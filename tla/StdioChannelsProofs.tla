------------------------- MODULE StdioChannelsProofs -------------------------
(***************************************************************************)
(* Channels with and without buffers keep every element in its place, for  *)
(* any channels, sizes of transfers and of buffers, and lengths of files;  *)
(* a program with them is one that reads and writes as Channels promises.  *)
(***************************************************************************)
EXTENDS StdioChannels, SequenceTheorems, TLAPS

Types ==
  /\ pc \in {"running", "thrown", "leaving", "exited"}
  /\ status \in {0, 1}
  /\ source \in [Inputs -> Nat] /\ room \in [Outputs -> Nat]
  /\ broken \in SUBSET Inputs /\ has_period \in BOOLEAN
  /\ calls \in [Chans -> Nat]
  /\ taken \in [Inputs -> Nat] /\ cnt \in [Inputs -> Nat]
  /\ dest \in [Inputs -> Seq(Int)]
  /\ device \in [Outputs -> Seq(Int)]
  /\ buf \in [Chans -> Seq(Int)] /\ idx \in [Chans -> Nat]
  /\ bad \in SUBSET Chans /\ eof \in SUBSET Inputs /\ open \in SUBSET Outputs
  /\ \A i \in Inputs : taken[i] <= source[i] /\ cnt[i] <= MaxBuffer

(* A channel that fails ends the program; outputs are destroyed after that. *)
Stages ==
  /\ pc \in {"running", "thrown"} => status = 0 /\ open = Outputs
  /\ pc = "running" => bad = {}

(* The elements that transfers were completed for                          *)
Moved(c) == calls[c] * Size[c]

(* The buffer of an input holds the elements that were taken last, and all *)
(* that was taken before what is left in it has been delivered.            *)
InputOK(i) ==
  /\ idx[i] <= cnt[i]
  /\ buf[i] = Stretch(taken[i] - cnt[i], cnt[i])
  /\ taken[i] = Moved(i) + Left(i)
  /\ ~Buffered(i) => cnt[i] = 0

Failed == \/ pc = "thrown" /\ bad # {}
          \/ pc = "leaving" /\ status = 1

Written(o) == Len(device[o])

(* The buffer of an output holds the elements that follow those which its  *)
(* device has, up to the last that was given to it.                        *)
Pending(o) ==
  /\ Written(o) + idx[o] = Moved(o)
  /\ SubSeq(buf[o], 1, idx[o]) = Stretch(Written(o), idx[o])

(* The device of an output could not take the next elements, or has got,   *)
(* when the output is destroyed, what it had room for.                     *)
Full(o) ==
  /\ Failed
  /\ idx[o] = 0
  /\ Written(o) = room[o] /\ room[o] < Moved(o) + Size[o]

Emptied(o) ==
  \/ Written(o) = Moved(o)
  \/ Written(o) = room[o] /\ room[o] < Moved(o)

OutputOK(o) ==
  /\ Written(o) <= room[o]
  /\ IF Buffered(o) THEN idx[o] < MaxBuffer ELSE idx[o] = 0
  /\ pc # "exited" => IF o \in open THEN Pending(o) \/ Full(o)
                                    ELSE Emptied(o) \/ Full(o)

IInv ==
  /\ Types /\ Stages /\ InOrder
  /\ pc = "running" => \A i \in Inputs : InputOK(i)
  /\ \A o \in Outputs : OutputOK(o)

-----------------------------------------------------------------------------
(* Stretches of elements that follow each other, and parts of them         *)
LEMMA StretchProperties ==
  ASSUME NEW a \in Int, NEW n \in Nat
  PROVE  /\ Stretch(a, n) \in Seq(Int)
         /\ Len(Stretch(a, n)) = n
         /\ \A k \in 1..n : Stretch(a, n)[k] = a + k - 1
<1>1. Stretch(a, n) \in [1..n -> Int]
  BY DEF Stretch
<1>2. Stretch(a, n) \in Seq(Int)
  BY <1>1, SeqDef
<1> QED BY <1>1, <1>2, LenProperties DEF Stretch

LEMMA SeqIsStretch ==
  ASSUME NEW s \in Seq(Int), NEW a \in Int, NEW n \in Nat,
         Len(s) = n, \A k \in 1..n : s[k] = a + k - 1
  PROVE  s = Stretch(a, n)
BY StretchProperties, SeqEqual

LEMMA StretchConcat ==
  ASSUME NEW a \in Int, NEW m \in Nat, NEW n \in Nat
  PROVE  Stretch(a, m) \o Stretch(a + m, n) = Stretch(a, m + n)
<1>1. a + m \in Int /\ m + n \in Nat
  OBVIOUS
<1>2. PICK s \in Seq(Int), t \in Seq(Int) :
        s = Stretch(a, m) /\ t = Stretch(a + m, n)
  BY <1>1, StretchProperties, Zenon
<1>3. /\ Len(s) = m /\ Len(t) = n
      /\ \A k \in 1..m : s[k] = a + k - 1
      /\ \A k \in 1..n : t[k] = (a + m) + k - 1
  BY <1>1, <1>2, StretchProperties, Zenon
<1>4. /\ s \o t \in Seq(Int) /\ Len(s \o t) = m + n
      /\ \A k \in 1..(m + n) : (s \o t)[k] = IF k <= m THEN s[k] ELSE t[k - m]
  BY <1>3, ConcatProperties
<1>5. \A k \in 1..(m + n) : (s \o t)[k] = a + k - 1
  <2> TAKE k \in 1..(m + n)
  <2>1. CASE k <= m
    BY <1>3, <1>4, <2>1
  <2>2. CASE ~(k <= m)
    <3>1. k - m \in 1..n
      BY <2>2
    <3> QED BY <1>3, <1>4, <2>2, <3>1
  <2> QED BY <2>1, <2>2
<1>6. s \o t = Stretch(a, m + n)
  BY <1>1, <1>4, <1>5, SeqIsStretch, Zenon
<1> QED BY <1>2, <1>6

LEMMA StretchPart ==
  ASSUME NEW a \in Int, NEW n \in Nat, NEW i \in Nat, NEW m \in Nat, i + m <= n
  PROVE  SubSeq(Stretch(a, n), i + 1, i + m) = Stretch(a + i, m)
<1>1. PICK s \in Seq(Int) : s = Stretch(a, n)
  BY StretchProperties
<1>2. Len(s) = n /\ \A k \in 1..n : s[k] = a + k - 1
  BY <1>1, StretchProperties
<1>3. \A k \in (i + 1)..(i + m) : s[k] \in Int
  BY <1>2
<1>4. /\ SubSeq(s, i + 1, i + m) \in Seq(Int)
      /\ Len(SubSeq(s, i + 1, i + m))
           = IF i + 1 <= i + m THEN i + m - (i + 1) + 1 ELSE 0
      /\ \A k \in 1..(i + m - (i + 1) + 1) :
           SubSeq(s, i + 1, i + m)[k] = s[i + 1 + k - 1]
  BY <1>3, SubSeqProperties
<1>5. Len(SubSeq(s, i + 1, i + m)) = m
  BY <1>4
<1>6. \A k \in 1..m : SubSeq(s, i + 1, i + m)[k] = (a + i) + k - 1
  BY <1>2, <1>4
<1>7. a + i \in Int
  OBVIOUS
<1>8. SubSeq(s, i + 1, i + m) = Stretch(a + i, m)
  BY <1>4, <1>5, <1>6, <1>7, SeqIsStretch, Zenon
<1> QED BY <1>1, <1>8

LEMMA StretchFirst ==
  ASSUME NEW a \in Int, NEW n \in Nat, NEW m \in Nat, m <= n
  PROVE  SubSeq(Stretch(a, n), 1, m) = Stretch(a, m)
<1>1. 0 \in Nat /\ 0 + 1 = 1 /\ 0 + m = m /\ a + 0 = a
  OBVIOUS
<1>2. SubSeq(Stretch(a, n), 0 + 1, 0 + m) = Stretch(a + 0, m)
  BY <1>1, StretchPart, Zenon
<1> QED BY <1>1, <1>2, Zenon

LEMMA Transfers ==
  ASSUME NEW k \in Nat, NEW s \in Nat
  PROVE  k * s \in Nat /\ (k + 1) * s = k * s + s /\ 0 * s = 0
OBVIOUS

(* Sizes and positions are numbers of elements.                            *)
LEMMA Numbers ==
  ASSUME Types, NEW c \in Chans
  PROVE  /\ Moved(c) \in Nat /\ Size[c] \in Nat /\ Size[c] > 0
         /\ calls[c] \in Nat /\ idx[c] \in Nat /\ buf[c] \in Seq(Int)
         /\ MaxBuffer \in Nat
<1>1. Size[c] \in Nat /\ Size[c] > 0 /\ MaxBuffer \in Nat
  BY StdioAssumption, SMT
<1>2. calls[c] \in Nat /\ idx[c] \in Nat /\ buf[c] \in Seq(Int)
  BY DEF Types
<1>3. Moved(c) \in Nat
  BY <1>1, <1>2, Transfers DEF Moved
<1> QED BY <1>1, <1>2, <1>3

LEMMA StreamNumbers ==
  ASSUME Types, NEW i \in Inputs, NEW n \in Nat
  PROVE  /\ taken[i] \in Nat /\ source[i] \in Nat /\ cnt[i] \in Nat
         /\ taken[i] <= source[i]
         /\ Available(i, n) \in Nat
         /\ Available(i, n) <= n
         /\ taken[i] + Available(i, n) <= source[i]
         /\ Short(i, n) => taken[i] + Available(i, n) = source[i]
         /\ ~Short(i, n) => Available(i, n) = n
<1>1. /\ taken[i] \in Nat /\ source[i] \in Nat /\ cnt[i] \in Nat
      /\ taken[i] <= source[i]
  BY DEF Types
<1>2. CASE n < source[i] - taken[i]
  <2>1. Available(i, n) = n
    BY <1>2 DEF Available, Least
  <2> QED BY <1>1, <1>2, <2>1 DEF Short
<1>3. CASE ~(n < source[i] - taken[i])
  <2>1. Available(i, n) = source[i] - taken[i]
    BY <1>3 DEF Available, Least
  <2> QED BY <1>1, <1>3, <2>1 DEF Short
<1> QED BY <1>2, <1>3

LEMMA StretchEmpty ==
  ASSUME NEW a \in Int
  PROVE  Stretch(a, 0) = <<>>
<1>1. 0 \in Nat /\ <<>> \in Seq(Int) /\ Len(<<>>) = 0
  OBVIOUS
<1>2. \A k \in 1..0 : <<>>[k] = a + k - 1
  OBVIOUS
<1> QED BY <1>1, <1>2, SeqIsStretch, Zenon

-----------------------------------------------------------------------------
(* What a call of an input does: it delivers the next elements, or, when   *)
(* the stream has too few, ends the program.                               *)
Others(c) == \A d \in Chans \ {c} : buf'[d] = buf[d] /\ idx'[d] = idx[d]

Delivers(i) ==
  /\ pc' = pc /\ bad' = bad
  /\ calls' = [calls EXCEPT ![i] = @ + 1]
  /\ dest' = [dest EXCEPT ![i] = Stretch(Moved(i), Size[i])]
  /\ Moved(i) + Size[i] <= source[i]
  /\ InputOK(i)'

Ends(i) ==
  /\ pc' = "thrown" /\ UNCHANGED <<calls, dest>>
  /\ IF i \in broken THEN bad' = bad \cup {i}
     ELSE bad' = bad /\ Moved(i) + Size[i] > source[i]

Reads(i) ==
  /\ pc = "running"
  /\ UNCHANGED <<status, world, device, open>>
  /\ taken' \in [Inputs -> Nat] /\ taken'[i] <= source[i]
  /\ cnt' \in [Inputs -> Nat] /\ cnt'[i] <= MaxBuffer
  /\ \A j \in Inputs \ {i} : taken'[j] = taken[j] /\ cnt'[j] = cnt[j]
  /\ eof' \in SUBSET Inputs
  /\ buf' \in [Chans -> Seq(Int)] /\ idx' \in [Chans -> Nat] /\ Others(i)
  /\ Delivers(i) \/ Ends(i)

LEMMA MovesOn ==
  ASSUME Types, NEW c \in Chans, calls' = [calls EXCEPT ![c] = @ + 1]
  PROVE  /\ Moved(c)' = Moved(c) + Size[c]
         /\ \A d \in Chans \ {c} : Moved(d)' = Moved(d)
<1>1. /\ calls'[c] = calls[c] + 1 /\ calls[c] \in Nat /\ Size[c] \in Nat
      /\ \A d \in Chans \ {c} : calls'[d] = calls[d]
  BY Numbers DEF Types
<1>2. (calls[c] + 1) * Size[c] = calls[c] * Size[c] + Size[c]
  BY <1>1, Transfers
<1> QED BY <1>1, <1>2 DEF Moved

LEMMA DirectReads ==
  ASSUME IInv, NEW i \in Inputs, ReadDirect(i)
  PROVE  Reads(i)
<1>1. /\ pc = "running" /\ ~Buffered(i) /\ bad = {} /\ i \in Chans
      /\ UNCHANGED <<status, world, cnt, device, buf, idx, open>>
  BY DEF ReadDirect, Turn, IInv, Stages, Chans
<1>2. Types /\ InputOK(i)
  BY <1>1 DEF IInv
<1>3. /\ Moved(i) \in Nat /\ Size[i] \in Nat /\ idx[i] \in Nat /\ Size[i] > 0
      /\ MaxBuffer \in Nat
  BY <1>1, <1>2, Numbers
<1>4. /\ taken[i] \in Nat /\ source[i] \in Nat
      /\ Available(i, Size[i]) \in Nat
      /\ taken[i] + Available(i, Size[i]) <= source[i]
      /\ Short(i, Size[i]) => taken[i] + Available(i, Size[i]) = source[i]
      /\ Short(i, Size[i]) <=> Available(i, Size[i]) < Size[i]
      /\ ~Short(i, Size[i]) => Available(i, Size[i]) = Size[i]
  BY <1>2, <1>3, StreamNumbers DEF Short
<1>5. cnt[i] = 0 /\ idx[i] = 0 /\ Left(i) = 0 /\ taken[i] = Moved(i)
  BY <1>1, <1>2, <1>3, <1>4 DEF InputOK, Left
<1>6. /\ taken' = [taken EXCEPT ![i] = @ + Available(i, Size[i])]
      /\ taken' \in [Inputs -> Nat]
      /\ taken'[i] = taken[i] + Available(i, Size[i])
      /\ \A j \in Inputs \ {i} : taken'[j] = taken[j]
  BY <1>2, <1>4 DEF ReadDirect, Types
<1>7. /\ eof' \in SUBSET Inputs
      /\ bad' = IF Short(i, Size[i]) /\ i \in broken THEN bad \cup {i} ELSE bad
  BY <1>2 DEF ReadDirect, MarkEnd, Types
<1>8. Delivers(i) \/ Ends(i)
  <2>1. CASE Short(i, Size[i])
    <3>1. pc' = "thrown" /\ UNCHANGED <<calls, dest>>
      BY <2>1 DEF ReadDirect, Thrown
    <3>2. Moved(i) + Size[i] > source[i]
      BY <1>3, <1>4, <1>5, <2>1
    <3> QED BY <1>7, <2>1, <3>1, <3>2 DEF Ends
  <2>2. CASE ~Short(i, Size[i])
    <3>1. /\ calls' = [calls EXCEPT ![i] = @ + 1] /\ pc' = pc
          /\ dest' = [dest EXCEPT ![i] = Stretch(Moved(i), Size[i])]
      BY <1>5, <2>2 DEF ReadDirect, Delivered, Completed
    <3>2. Moved(i) + Size[i] <= source[i] /\ bad' = bad
      BY <1>4, <1>5, <1>7, <2>2
    <3>3. InputOK(i)'
      <4>1. Moved(i)' = Moved(i) + Size[i]
        BY <1>1, <1>2, <3>1, MovesOn
      <4>2. taken'[i] = Moved(i)'
        BY <1>4, <1>5, <1>6, <2>2, <4>1
      <4>3. cnt'[i] = 0 /\ idx'[i] = 0 /\ Left(i)' = 0
        BY <1>1, <1>5 DEF Left
      <4>4. buf'[i] = Stretch(taken'[i] - cnt'[i], cnt'[i])
        <5>1. buf[i] = Stretch(taken[i] - 0, 0)
          BY <1>2, <1>5 DEF InputOK
        <5>2. taken[i] - 0 \in Int /\ taken'[i] - 0 \in Int
          BY <1>4, <1>6
        <5> QED BY <1>1, <4>3, <5>1, <5>2, StretchEmpty
      <4> QED BY <1>3, <4>1, <4>2, <4>3, <4>4 DEF InputOK
    <3> QED BY <3>1, <3>2, <3>3 DEF Delivers
  <2> QED BY <2>1, <2>2
<1>9. /\ cnt' \in [Inputs -> Nat] /\ cnt'[i] <= MaxBuffer
      /\ \A j \in Inputs \ {i} : cnt'[j] = cnt[j]
      /\ buf' \in [Chans -> Seq(Int)] /\ idx' \in [Chans -> Nat] /\ Others(i)
  BY <1>1, <1>2, <1>5, <1>3 DEF Types, Others
<1>10. taken'[i] <= source[i]
  BY <1>4, <1>6
<1> QED BY <1>1, <1>6, <1>7, <1>8, <1>9, <1>10 DEF Reads

LEMMA BufferReads ==
  ASSUME IInv, NEW i \in Inputs, ReadFromBuffer(i)
  PROVE  Reads(i)
<1>1. /\ pc = "running" /\ bad = {} /\ i \in Chans /\ Left(i) >= Size[i]
      /\ pc' = pc /\ calls' = [calls EXCEPT ![i] = @ + 1]
      /\ idx' = [idx EXCEPT ![i] = @ + Size[i]]
      /\ UNCHANGED <<status, world, taken, cnt, eof, device, buf, bad, open>>
  BY DEF ReadFromBuffer, Delivered, Completed, Turn, IInv, Stages, Chans
<1>2. Types /\ InputOK(i)
  BY <1>1 DEF IInv
<1>3. /\ Moved(i) \in Nat /\ Size[i] \in Nat /\ idx[i] \in Nat
      /\ MaxBuffer \in Nat /\ 0 \in Nat
  BY <1>1, <1>2, Numbers
<1>4. /\ taken[i] \in Nat /\ source[i] \in Nat /\ cnt[i] \in Nat
      /\ taken[i] <= source[i]
  BY <1>2, <1>3, StreamNumbers
<1>5. /\ idx[i] + Size[i] <= cnt[i]
      /\ taken[i] = Moved(i) + (cnt[i] - idx[i])
  BY <1>1, <1>2, <1>3, <1>4 DEF InputOK, Left
<1>6. /\ idx' \in [Chans -> Nat] /\ idx'[i] = idx[i] + Size[i] /\ Others(i)
  BY <1>1, <1>2, <1>3 DEF Types, Others
<1>7. dest' = [dest EXCEPT ![i] = Stretch(Moved(i), Size[i])]
  <2>1. PICK a \in Int : a = taken[i] - cnt[i] /\ a + idx[i] = Moved(i)
    BY <1>3, <1>4, <1>5
  <2>2. SubSeq(Stretch(a, cnt[i]), idx[i] + 1, idx[i] + Size[i])
          = Stretch(a + idx[i], Size[i])
    <3>1. /\ a \in Int /\ cnt[i] \in Nat /\ idx[i] \in Nat /\ Size[i] \in Nat
          /\ idx[i] + Size[i] <= cnt[i]
      BY <1>3, <1>4, <1>5, <2>1
    <3> QED BY <3>1, StretchPart, Zenon
  <2>3. SubSeq(buf[i], idx[i] + 1, idx[i] + Size[i]) = Stretch(Moved(i), Size[i])
    BY <1>2, <2>1, <2>2 DEF InputOK
  <2> QED BY <2>3 DEF ReadFromBuffer, Delivered
<1>8. Moved(i) + Size[i] <= source[i]
  BY <1>3, <1>4, <1>5
<1>9. InputOK(i)'
  <2>1. Moved(i)' = Moved(i) + Size[i]
    BY <1>1, <1>2, MovesOn
  <2>2. idx'[i] <= cnt'[i] /\ taken'[i] = Moved(i)' + Left(i)'
    BY <1>1, <1>3, <1>4, <1>5, <1>6, <2>1 DEF Left
  <2> QED BY <1>1, <1>2, <2>2 DEF InputOK, Buffered
<1>10. Delivers(i)
  BY <1>1, <1>7, <1>8, <1>9 DEF Delivers
<1> QED BY <1>1, <1>2, <1>4, <1>6, <1>10 DEF Reads, Types

(* Filling the buffer again: what was left in it and the first of the      *)
(* fresh elements follow each other, and the rest of the fresh ones stays. *)
LEMMA RefillReads ==
  ASSUME IInv, NEW i \in Inputs, Refill(i)
  PROVE  Reads(i)
<1> DEFINE avail == Available(i, MaxBuffer)
           need == Size[i] - Left(i)
           fresh == IF avail = 0 THEN buf[i] ELSE Stretch(taken[i], avail)
<1>1. /\ pc = "running" /\ bad = {} /\ i \in Chans /\ Left(i) < Size[i]
      /\ MaxBuffer >= 2 * Size[i]
      /\ UNCHANGED <<status, world, device, open>>
      /\ buf' = [buf EXCEPT ![i] = fresh]
      /\ cnt' = IF i \in bad' THEN cnt ELSE [cnt EXCEPT ![i] = avail]
  BY DEF Refill, Turn, IInv, Stages, Chans, Buffered, CountRead
<1>2. Types /\ InputOK(i)
  BY <1>1 DEF IInv
<1>3. /\ Moved(i) \in Nat /\ Size[i] \in Nat /\ idx[i] \in Nat /\ Size[i] > 0
      /\ MaxBuffer \in Nat /\ buf[i] \in Seq(Int)
  BY <1>1, <1>2, Numbers
<1>4. /\ taken[i] \in Nat /\ source[i] \in Nat /\ cnt[i] \in Nat
      /\ avail \in Nat /\ avail <= MaxBuffer
      /\ taken[i] + avail <= source[i]
      /\ Short(i, MaxBuffer) => taken[i] + avail = source[i]
      /\ ~Short(i, MaxBuffer) => avail = MaxBuffer
  BY <1>2, <1>3, StreamNumbers
<1>5. /\ idx[i] <= cnt[i] /\ cnt[i] <= MaxBuffer
      /\ Left(i) = cnt[i] - idx[i] /\ Left(i) \in Nat
      /\ taken[i] = Moved(i) + Left(i)
      /\ need \in Nat /\ need > 0 /\ Left(i) + need = Size[i]
  <2>1. /\ idx[i] <= cnt[i] /\ cnt[i] <= MaxBuffer
        /\ taken[i] = Moved(i) + Left(i)
    BY <1>2 DEF InputOK, Types
  <2>2. Left(i) = cnt[i] - idx[i] /\ Left(i) \in Nat
    BY <1>3, <1>4, <2>1 DEF Left
  <2> QED BY <1>1, <1>3, <2>1, <2>2
<1>6. /\ taken' = [taken EXCEPT ![i] = @ + avail]
      /\ taken' \in [Inputs -> Nat]
      /\ taken'[i] = taken[i] + avail
      /\ \A j \in Inputs \ {i} : taken'[j] = taken[j]
  BY <1>2, <1>4 DEF Refill, Types
<1>7. /\ eof' \in SUBSET Inputs
      /\ bad' = IF Short(i, MaxBuffer) /\ i \in broken THEN bad \cup {i} ELSE bad
  BY <1>2 DEF Refill, MarkEnd, Types
<1>8. fresh \in Seq(Int) /\ (avail # 0 => fresh = Stretch(taken[i], avail))
  <2>1. taken[i] \in Int
    BY <1>4
  <2>2. Stretch(taken[i], avail) \in Seq(Int)
    BY <1>4, <2>1, StretchProperties, Zenon
  <2> QED BY <1>3, <2>2
<1> HIDE DEF avail, fresh, need
<1>9. /\ cnt' \in [Inputs -> Nat] /\ cnt'[i] <= MaxBuffer
      /\ i \notin bad' => cnt'[i] = avail
      /\ \A j \in Inputs \ {i} : cnt'[j] = cnt[j]
      /\ buf' \in [Chans -> Seq(Int)] /\ buf'[i] = fresh
  BY <1>1, <1>2, <1>4, <1>5, <1>8 DEF Types
<1>10. CASE i \in bad' \/ need > avail
  <2>1. pc' = "thrown" /\ idx' = [idx EXCEPT ![i] = 0] /\ UNCHANGED <<calls, dest>>
    BY <1>10 DEF Refill, CountRead, Thrown, avail, need
  <2>2. idx' \in [Chans -> Nat] /\ Others(i)
    BY <1>1, <1>2, <2>1 DEF Types, Others
  <2>3. Ends(i)
    <3>1. CASE i \in bad'
      BY <1>1, <1>7, <2>1, <3>1 DEF Ends
    <3>2. CASE i \notin bad'
      <4>1. need > avail
        BY <1>10, <3>2
      <4>2. Short(i, MaxBuffer)
        <5>1. need < MaxBuffer
          BY <1>1, <1>3, <1>5
        <5>2. avail # MaxBuffer
          BY ONLY <1>3, <1>4, <1>5, <4>1, <5>1
        <5> QED BY <1>4, <5>2, Zenon
      <4>3. i \notin broken /\ bad' = bad
        BY <1>7, <3>2, <4>2
      <4>4. Moved(i) + Size[i] > source[i]
        BY <1>3, <1>4, <1>5, <4>1, <4>2
      <4> QED BY <2>1, <4>3, <4>4 DEF Ends
    <3> QED BY <3>1, <3>2
  <2> QED BY <1>1, <1>4, <1>6, <1>7, <1>9, <2>2, <2>3 DEF Reads
<1>11. CASE ~(i \in bad' \/ need > avail)
  <2>1. /\ pc' = pc /\ calls' = [calls EXCEPT ![i] = @ + 1]
        /\ dest' = [dest EXCEPT ![i] = RestAnd(i, fresh)]
        /\ idx' = [idx EXCEPT ![i] = need]
    BY <1>11 DEF Refill, CountRead, Delivered, Completed, avail, fresh, need
  <2>2. /\ avail # 0 /\ need <= avail
        /\ fresh = Stretch(taken[i], avail)
        /\ i \notin bad'
    BY <1>4, <1>5, <1>8, <1>11
  <2>3. bad' = bad
    BY <1>7, <2>2
  <2>4. RestAnd(i, fresh) = Stretch(Moved(i), Size[i])
    <3>1. /\ idx[i] + Left(i) = cnt[i] /\ idx[i] + Left(i) <= cnt[i]
          /\ Moved(i) \in Int /\ taken[i] \in Int
      <4>1. \A left, n, m \in Nat : left = n - m => m + left = n /\ m + left <= n
        OBVIOUS
      <4>2. idx[i] + Left(i) = cnt[i] /\ idx[i] + Left(i) <= cnt[i]
        <5>1. Left(i) \in Nat /\ cnt[i] \in Nat /\ idx[i] \in Nat /\ Left(i) = cnt[i] - idx[i]
          BY <1>3, <1>4, <1>5, Zenon
        <5> QED BY ONLY <4>1, <5>1, Zenon
      <4>3. Moved(i) \in Int /\ taken[i] \in Int
        BY <1>3, <1>4
      <4> QED BY <4>2, <4>3
    <3>2. PICK a \in Int : a = taken[i] - cnt[i] /\ a + idx[i] = Moved(i)
      <4>1. /\ taken[i] \in Nat /\ cnt[i] \in Nat /\ idx[i] \in Nat /\ Moved(i) \in Nat
            /\ taken[i] = Moved(i) + (cnt[i] - idx[i])
        BY <1>3, <1>4, <1>5
      <4> QED BY <4>1
    <3>3. SubSeq(Stretch(a, cnt[i]), idx[i] + 1, idx[i] + Left(i))
            = Stretch(a + idx[i], Left(i))
      <4>1. /\ a \in Int /\ cnt[i] \in Nat /\ idx[i] \in Nat /\ Left(i) \in Nat
            /\ idx[i] + Left(i) <= cnt[i]
        BY <1>3, <1>4, <1>5, <3>1, <3>2
      <4> QED BY <4>1, StretchPart, Zenon
    <3>4. SubSeq(buf[i], idx[i] + 1, cnt[i]) = Stretch(Moved(i), Left(i))
      BY <1>2, <3>1, <3>2, <3>3 DEF InputOK
    <3>5. SubSeq(Stretch(taken[i], avail), 1, need) = Stretch(taken[i], need)
      BY <1>4, <1>5, <2>2, <3>1, StretchFirst, Zenon
    <3>6. Stretch(Moved(i), Left(i)) \o Stretch(Moved(i) + Left(i), need)
            = Stretch(Moved(i), Left(i) + need)
      BY <1>5, <3>1, StretchConcat, Zenon
    <3> QED BY <1>5, <2>2, <3>4, <3>5, <3>6 DEF RestAnd, need
  <2>5. idx' \in [Chans -> Nat] /\ idx'[i] = need /\ Others(i)
    BY <1>1, <1>2, <1>5, <2>1 DEF Types, Others
  <2>6. Moved(i) + Size[i] <= source[i]
    <3>1. need \in Nat /\ need <= avail
      BY <1>5, <2>2
    <3>2. Moved(i) + Size[i] = taken[i] + need
      BY <1>3, <1>5
    <3>3. taken[i] \in Nat /\ avail \in Nat /\ source[i] \in Nat
          /\ taken[i] + avail <= source[i]
      BY <1>4
    <3> QED BY <3>1, <3>2, <3>3
  <2>7. InputOK(i)'
    <3>1. Moved(i)' = Moved(i) + Size[i]
      BY <1>1, <1>2, <2>1, MovesOn
    <3>2. cnt'[i] = avail /\ taken'[i] - cnt'[i] = taken[i]
      BY <1>4, <1>6, <1>9, <2>2
    <3>3. idx'[i] <= cnt'[i] /\ taken'[i] = Moved(i)' + Left(i)'
      BY <1>3, <1>4, <1>5, <1>6, <2>2, <2>5, <3>1, <3>2 DEF Left
    <3>4. buf'[i] = Stretch(taken'[i] - cnt'[i], cnt'[i])
      BY <1>9, <2>2, <3>2
    <3>5. Buffered(i)'
      BY <1>1 DEF Buffered
    <3> QED BY <3>3, <3>4, <3>5 DEF InputOK
  <2>8. dest' = [dest EXCEPT ![i] = Stretch(Moved(i), Size[i])]
    BY <2>1, <2>4
  <2>9. Delivers(i)
    BY <2>1, <2>3, <2>6, <2>7, <2>8 DEF Delivers
  <2> QED BY <1>1, <1>4, <1>6, <1>7, <1>9, <2>5, <2>9 DEF Reads
<1> QED BY <1>10, <1>11

-----------------------------------------------------------------------------
LEMMA LeastOf ==
  ASSUME NEW a \in Int, NEW b \in Int
  PROVE  /\ a <= b => Least(a, b) = a
         /\ b <= a => Least(a, b) = b
BY DEF Least

(* A stream takes the elements that follow those which it has, as many as  *)
(* its device has room for.                                                *)
LEMMA PutStretch ==
  ASSUME Types, NEW o \in Outputs, NEW n \in Nat,
         device[o] = Stretch(0, Written(o)), Written(o) <= room[o],
         Put(o, Stretch(Written(o), n))
  PROVE  /\ device' \in [Outputs -> Seq(Int)]
         /\ \A q \in Outputs \ {o} : device'[q] = device[q]
         /\ Written(o) \in Nat /\ room[o] \in Nat
         /\ Written(o)' = Least(Written(o) + n, room[o])
         /\ device'[o] = Stretch(0, Written(o)')
         /\ Fits(o, Stretch(Written(o), n)) <=> Written(o) + n <= room[o]
<1>1. /\ device \in [Outputs -> Seq(Int)] /\ device[o] \in Seq(Int)
      /\ Written(o) \in Nat /\ Written(o) \in Int /\ room[o] \in Nat
  <2>1. device \in [Outputs -> Seq(Int)] /\ room[o] \in Nat
    BY DEF Types
  <2>2. device[o] \in Seq(Int)
    BY <2>1
  <2> QED BY <2>1, <2>2, LenProperties DEF Written
<1>2. Len(Stretch(Written(o), n)) = n
  BY <1>1, StretchProperties, Zenon
<1>3. PICK m \in Nat : /\ m = Least(n, room[o] - Written(o)) /\ m <= n
                       /\ Written(o) + m = Least(Written(o) + n, room[o])
  BY <1>1 DEF Least
<1>4. SubSeq(Stretch(Written(o), n), 1, m) = Stretch(Written(o), m)
  BY <1>1, <1>3, StretchFirst, Zenon
<1>5. 0 \in Int /\ 0 + Written(o) = Written(o) /\ Written(o) + m \in Nat
  BY <1>1, <1>3
<1>6. device[o] \o Stretch(Written(o), m) = Stretch(0, Written(o) + m)
  <2>1. Stretch(0, Written(o)) \o Stretch(0 + Written(o), m) = Stretch(0, Written(o) + m)
    BY <1>1, <1>3, <1>5, StretchConcat, Zenon
  <2> QED BY <1>5, <2>1, Zenon
<1>7. device' = [device EXCEPT ![o] = Stretch(0, Written(o) + m)]
  <2>1. Least(Len(Stretch(Written(o), n)), room[o] - Len(device[o])) = m
    BY <1>2, <1>3 DEF Written
  <2>2. device' = [device EXCEPT ![o] = device[o] \o
                      SubSeq(Stretch(Written(o), n), 1,
                             Least(Len(Stretch(Written(o), n)), room[o] - Len(device[o])))]
    BY DEF Put
  <2> QED BY <1>4, <1>6, <2>1, <2>2, Zenon
<1>8. /\ Stretch(0, Written(o) + m) \in Seq(Int)
      /\ Len(Stretch(0, Written(o) + m)) = Written(o) + m
  BY <1>5, StretchProperties, Zenon
<1>9. /\ device' \in [Outputs -> Seq(Int)]
      /\ device'[o] = Stretch(0, Written(o) + m)
      /\ \A q \in Outputs \ {o} : device'[q] = device[q]
  BY <1>1, <1>7, <1>8
<1>10. Written(o)' = Written(o) + m
  BY <1>8, <1>9 DEF Written
<1>11. Fits(o, Stretch(Written(o), n)) <=> Written(o) + n <= room[o]
  BY <1>2 DEF Fits, Written
<1> QED BY <1>1, <1>3, <1>9, <1>10, <1>11, Zenon

(* What a call of an output does: the elements are in the stream or in the *)
(* buffer, or the device cannot take them, and the program ends.           *)
Accepts(o) ==
  /\ pc' = pc /\ bad' = bad
  /\ calls' = [calls EXCEPT ![o] = @ + 1]
  /\ Pending(o)'

Overflows(o) ==
  /\ pc' = "thrown" /\ bad' = bad \cup {o} /\ UNCHANGED calls
  /\ idx'[o] = 0
  /\ Written(o)' = room[o] /\ room[o] < Moved(o) + Size[o]

Writes(o) ==
  /\ pc = "running"
  /\ UNCHANGED <<status, world, inputs, open>>
  /\ device' \in [Outputs -> Seq(Int)]
  /\ \A q \in Outputs \ {o} : device'[q] = device[q]
  /\ device'[o] = Stretch(0, Written(o)') /\ Written(o)' <= room[o]
  /\ buf' \in [Chans -> Seq(Int)] /\ idx' \in [Chans -> Nat] /\ Others(o)
  /\ IF Buffered(o) THEN idx'[o] < MaxBuffer ELSE idx'[o] = 0
  /\ Accepts(o) \/ Overflows(o)

(* The state of an output that the program writes to                       *)
LEMMA OutputState ==
  ASSUME IInv, NEW o \in Outputs, pc = "running"
  PROVE  /\ Types /\ bad = {} /\ o \in Chans
         /\ Pending(o) /\ Written(o) <= room[o]
         /\ device[o] = Stretch(0, Written(o))
         /\ IF Buffered(o) THEN idx[o] < MaxBuffer ELSE idx[o] = 0
         /\ Written(o) \in Nat /\ room[o] \in Nat /\ idx[o] \in Nat
         /\ Moved(o) \in Nat /\ Size[o] \in Nat /\ Size[o] > 0 /\ MaxBuffer \in Nat
         /\ buf[o] \in Seq(Int)
<1>1. /\ Types /\ bad = {} /\ open = Outputs /\ o \in Chans
      /\ device[o] = Stretch(0, Written(o))
      /\ OutputOK(o)
  BY DEF IInv, Stages, InOrder, Chans, Written
<1>2. Pending(o)
  BY <1>1 DEF OutputOK, Full, Failed
<1>3. Written(o) \in Nat /\ room[o] \in Nat
  BY <1>1, LenProperties DEF Types, Written
<1>4. /\ Moved(o) \in Nat /\ Size[o] \in Nat /\ Size[o] > 0 /\ MaxBuffer \in Nat
      /\ idx[o] \in Nat /\ buf[o] \in Seq(Int)
  BY <1>1, Numbers
<1> QED BY <1>1, <1>2, <1>3, <1>4 DEF OutputOK

LEMMA DirectWrites ==
  ASSUME IInv, NEW o \in Outputs, WriteDirect(o)
  PROVE  Writes(o)
<1>1. /\ pc = "running" /\ ~Buffered(o)
      /\ UNCHANGED <<status, world, inputs, buf, idx, open>>
      /\ Put(o, Row(o))
      /\ bad' = IF Fits(o, Row(o)) THEN bad ELSE bad \cup {o}
      /\ IF Fits(o, Row(o)) THEN Completed(o) ELSE Thrown
  BY DEF WriteDirect, Turn, MarkBad
<1>2. /\ Types /\ o \in Chans /\ Pending(o) /\ Written(o) <= room[o]
      /\ device[o] = Stretch(0, Written(o))
      /\ Written(o) \in Nat /\ room[o] \in Nat /\ idx[o] = 0
      /\ Moved(o) \in Nat /\ Size[o] \in Nat
  BY <1>1, OutputState
<1>3. Written(o) = Moved(o) /\ Row(o) = Stretch(Written(o), Size[o])
  BY <1>2 DEF Pending, Row, Moved
<1>4. /\ device' \in [Outputs -> Seq(Int)]
      /\ \A q \in Outputs \ {o} : device'[q] = device[q]
      /\ Written(o)' = Least(Written(o) + Size[o], room[o])
      /\ device'[o] = Stretch(0, Written(o)')
      /\ Fits(o, Row(o)) <=> Written(o) + Size[o] <= room[o]
  BY <1>1, <1>2, <1>3, PutStretch
<1>5. Written(o)' <= room[o]
  BY <1>2, <1>4 DEF Least
<1>6. /\ buf' \in [Chans -> Seq(Int)] /\ idx' \in [Chans -> Nat] /\ Others(o)
      /\ idx'[o] = 0
  BY <1>1, <1>2 DEF Types, Others
<1>7. Accepts(o) \/ Overflows(o)
  <2>1. CASE Fits(o, Row(o))
    <3>1. pc' = pc /\ bad' = bad /\ calls' = [calls EXCEPT ![o] = @ + 1]
      BY <1>1, <2>1 DEF Completed
    <3>2. Written(o)' = Moved(o)'
      <4>1. Moved(o)' = Moved(o) + Size[o]
        BY <1>2, <3>1, MovesOn
      <4>2. Written(o) + Size[o] \in Int /\ room[o] \in Int
        BY <1>2
      <4>3. Written(o)' = Written(o) + Size[o]
        BY <1>4, <2>1, <4>2, LeastOf
      <4> QED BY <1>3, <4>1, <4>3
    <3>3. SubSeq(buf[o], 1, 0) = Stretch(Written(o)', 0)
      <4>1. Written(o) \in Int /\ Written(o)' \in Int
        BY <1>2, <1>4 DEF Least
      <4>2. SubSeq(buf[o], 1, 0) = Stretch(Written(o), 0)
        BY <1>2 DEF Pending
      <4> QED BY <4>1, <4>2, StretchEmpty, Zenon
    <3>4. Pending(o)'
      <4>1. buf'[o] = buf[o] /\ Written(o)' + 0 = Written(o)'
        BY <1>1, <1>2, <1>4 DEF Least
      <4> QED BY <1>6, <3>2, <3>3, <4>1 DEF Pending
    <3> QED BY <3>1, <3>4 DEF Accepts
  <2>2. CASE ~Fits(o, Row(o))
    <3>1. pc' = "thrown" /\ bad' = bad \cup {o} /\ UNCHANGED calls
      BY <1>1, <2>2 DEF Thrown
    <3>2. Written(o)' = room[o] /\ room[o] < Moved(o) + Size[o]
      <4>1. Written(o) + Size[o] \in Int /\ room[o] \in Int
        BY <1>2
      <4>2. room[o] < Written(o) + Size[o]
        BY <1>4, <2>2, <4>1
      <4> QED BY <1>3, <1>4, <4>1, <4>2, LeastOf
    <3> QED BY <1>6, <3>1, <3>2 DEF Overflows
  <2> QED BY <2>1, <2>2
<1> QED BY <1>1, <1>4, <1>5, <1>6, <1>7 DEF Writes

(* The elements in the buffer and those of a transfer follow each other.   *)
LEMMA ExtendedIsStretch ==
  ASSUME IInv, NEW o \in Outputs, pc = "running"
  PROVE  /\ Extended(o, Row(o)) = Stretch(Written(o), idx[o] + Size[o])
         /\ Len(Extended(o, Row(o))) = idx[o] + Size[o]
<1>1. /\ Pending(o) /\ Written(o) \in Nat /\ idx[o] \in Nat /\ Size[o] \in Nat
      /\ Moved(o) \in Nat
  BY OutputState
<1>2. /\ Written(o) \in Int /\ idx[o] + Size[o] \in Nat
      /\ Written(o) + idx[o] = Moved(o)
      /\ Row(o) = Stretch(Written(o) + idx[o], Size[o])
  BY <1>1 DEF Pending, Row, Moved
<1>3. Stretch(Written(o), idx[o]) \o Stretch(Written(o) + idx[o], Size[o])
        = Stretch(Written(o), idx[o] + Size[o])
  BY <1>1, <1>2, StretchConcat, Zenon
<1>4. Extended(o, Row(o)) = Stretch(Written(o), idx[o] + Size[o])
  BY <1>1, <1>2, <1>3 DEF Extended, Pending
<1>5. Len(Stretch(Written(o), idx[o] + Size[o])) = idx[o] + Size[o]
  BY <1>2, StretchProperties, Zenon
<1> QED BY <1>4, <1>5

LEMMA BufferWrites ==
  ASSUME IInv, NEW o \in Outputs, WriteToBuffer(o)
  PROVE  Writes(o)
<1>1. /\ pc = "running" /\ Buffered(o) /\ idx[o] + Size[o] < MaxBuffer
      /\ buf' = [buf EXCEPT ![o] = Extended(o, Row(o))]
      /\ idx' = [idx EXCEPT ![o] = @ + Size[o]]
      /\ pc' = pc /\ calls' = [calls EXCEPT ![o] = @ + 1]
      /\ UNCHANGED <<status, world, inputs, device, bad, open>>
  BY DEF WriteToBuffer, Turn, Completed
<1>2. /\ Types /\ o \in Chans /\ Pending(o) /\ Written(o) <= room[o]
      /\ device[o] = Stretch(0, Written(o))
      /\ Written(o) \in Nat /\ room[o] \in Nat /\ idx[o] \in Nat
      /\ Moved(o) \in Nat /\ Size[o] \in Nat
  BY <1>1, OutputState
<1>3. Extended(o, Row(o)) = Stretch(Written(o), idx[o] + Size[o])
  BY <1>1, ExtendedIsStretch
<1>4. idx[o] + Size[o] \in Nat /\ Written(o) \in Int
  BY <1>2
<1>5. Stretch(Written(o), idx[o] + Size[o]) \in Seq(Int)
  BY <1>4, StretchProperties, Zenon
<1>6. /\ buf' \in [Chans -> Seq(Int)] /\ idx' \in [Chans -> Nat] /\ Others(o)
      /\ buf'[o] = Stretch(Written(o), idx[o] + Size[o])
      /\ idx'[o] = idx[o] + Size[o] /\ idx'[o] < MaxBuffer
  <2>1. /\ buf \in [Chans -> Seq(Int)] /\ idx \in [Chans -> Nat]
        /\ buf' = [buf EXCEPT ![o] = Stretch(Written(o), idx[o] + Size[o])]
        /\ idx' = [idx EXCEPT ![o] = idx[o] + Size[o]]
    BY <1>1, <1>2, <1>3 DEF Types
  <2> QED BY <1>1, <1>2, <1>4, <1>5, <2>1 DEF Others
<1>7. Written(o)' = Written(o)
  BY <1>1 DEF Written
<1>8. Pending(o)'
  <2>1. Moved(o)' = Moved(o) + Size[o]
    BY <1>1, <1>2, MovesOn
  <2>2. Written(o)' + idx'[o] = Moved(o)'
    BY <1>2, <1>6, <1>7, <2>1 DEF Pending
  <2>3. idx[o] + Size[o] <= idx[o] + Size[o]
    BY <1>4
  <2>4. SubSeq(Stretch(Written(o), idx[o] + Size[o]), 1, idx[o] + Size[o])
          = Stretch(Written(o), idx[o] + Size[o])
    BY <1>4, <2>3, StretchFirst, Zenon
  <2> QED BY <1>6, <1>7, <2>2, <2>4 DEF Pending
<1>9. Accepts(o)
  BY <1>1, <1>8 DEF Accepts
<1> QED BY <1>1, <1>2, <1>6, <1>7, <1>9 DEF Writes, Types

(* Writing the full buffer: the rest of the transfer, which is shorter     *)
(* than a transfer, is what is in the buffer then.                         *)
LEMMA FlushWrites ==
  ASSUME IInv, NEW o \in Outputs, Flush(o)
  PROVE  Writes(o)
<1> DEFINE data == Extended(o, Row(o))
           full == SubSeq(data, 1, MaxBuffer)
           rest == Least(Len(data) - MaxBuffer, MaxBuffer)
<1>1. /\ pc = "running" /\ MaxBuffer >= 2 * Size[o]
      /\ idx[o] + Size[o] >= MaxBuffer
      /\ Put(o, full)
      /\ bad' = IF Fits(o, full) THEN bad ELSE bad \cup {o}
      /\ UNCHANGED <<status, world, inputs, open>>
  BY DEF Flush, Turn, MarkBad, Buffered
<1>2. IF Fits(o, full)
      THEN /\ buf' = [buf EXCEPT ![o] = SubSeq(data, MaxBuffer + 1, MaxBuffer + rest)]
           /\ idx' = [idx EXCEPT ![o] = rest]
           /\ Completed(o)
      ELSE /\ buf' = [buf EXCEPT ![o] = full]
           /\ idx' = [idx EXCEPT ![o] = 0]
           /\ Thrown
  BY DEF Flush
<1>3. /\ Types /\ o \in Chans /\ Pending(o) /\ Written(o) <= room[o]
      /\ device[o] = Stretch(0, Written(o))
      /\ Written(o) \in Nat /\ room[o] \in Nat /\ idx[o] \in Nat
      /\ Moved(o) \in Nat /\ Size[o] \in Nat /\ Size[o] > 0 /\ MaxBuffer \in Nat
  BY <1>1, OutputState
<1>4. Buffered(o) /\ idx[o] < MaxBuffer
  BY <1>1, OutputState DEF Flush
<1>5. data = Stretch(Written(o), idx[o] + Size[o]) /\ Len(data) = idx[o] + Size[o]
  BY <1>1, ExtendedIsStretch
<1>6. /\ rest \in Nat /\ rest < MaxBuffer /\ MaxBuffer + rest = idx[o] + Size[o]
  <2>1. /\ idx[o] \in Nat /\ Size[o] \in Nat /\ MaxBuffer \in Nat
        /\ idx[o] < MaxBuffer /\ MaxBuffer >= 2 * Size[o] /\ Size[o] > 0
        /\ idx[o] + Size[o] >= MaxBuffer
    BY <1>1, <1>3, <1>4
  <2>2. /\ Len(data) - MaxBuffer = idx[o] + Size[o] - MaxBuffer
        /\ idx[o] + Size[o] - MaxBuffer \in Nat
        /\ idx[o] + Size[o] - MaxBuffer < MaxBuffer
    BY <1>5, <2>1
  <2>3. rest = idx[o] + Size[o] - MaxBuffer
    BY <2>1, <2>2, LeastOf
  <2> QED BY <2>1, <2>2, <2>3
<1>7. /\ idx[o] + Size[o] \in Nat /\ Written(o) \in Int
      /\ Written(o) + MaxBuffer \in Int
      /\ MaxBuffer <= idx[o] + Size[o] /\ MaxBuffer + rest <= idx[o] + Size[o]
      /\ 0 \in Nat /\ rest <= rest
  <2> HIDE DEF rest
  <2>1. /\ idx[o] + Size[o] \in Nat /\ Written(o) \in Int /\ Written(o) + MaxBuffer \in Int
    BY <1>3
  <2>2. MaxBuffer <= idx[o] + Size[o] /\ MaxBuffer + rest <= idx[o] + Size[o]
    BY <1>1, <1>6, <2>1
  <2>3. 0 \in Nat /\ rest <= rest
    BY <1>6
  <2> QED BY <2>1, <2>2, <2>3
<1>8. full = Stretch(Written(o), MaxBuffer)
  <2>1. SubSeq(Stretch(Written(o), idx[o] + Size[o]), 1, MaxBuffer)
          = Stretch(Written(o), MaxBuffer)
    BY <1>3, <1>7, StretchFirst, Zenon
  <2> QED BY <1>5, <2>1, Zenon
<1>9. SubSeq(data, MaxBuffer + 1, MaxBuffer + rest) = Stretch(Written(o) + MaxBuffer, rest)
  <2> HIDE DEF data, rest
  <2>1. SubSeq(Stretch(Written(o), idx[o] + Size[o]), MaxBuffer + 1, MaxBuffer + rest)
          = Stretch(Written(o) + MaxBuffer, rest)
    <3>1. rest \in Nat /\ MaxBuffer \in Nat
      BY <1>3, <1>6
    <3>2. /\ Written(o) \in Int /\ idx[o] + Size[o] \in Nat
          /\ MaxBuffer + rest <= idx[o] + Size[o]
      BY <1>7
    <3> QED BY ONLY <3>1, <3>2, StretchPart, Zenon
  <2> QED BY <1>5, <2>1, Zenon
<1> HIDE DEF data, full, rest
<1>10. /\ device' \in [Outputs -> Seq(Int)]
       /\ \A q \in Outputs \ {o} : device'[q] = device[q]
       /\ Written(o)' = Least(Written(o) + MaxBuffer, room[o])
       /\ device'[o] = Stretch(0, Written(o)')
       /\ Fits(o, full) <=> Written(o) + MaxBuffer <= room[o]
  BY <1>1, <1>3, <1>8, PutStretch
<1>11. Written(o)' <= room[o]
  BY <1>3, <1>10 DEF Least
<1>12. buf \in [Chans -> Seq(Int)] /\ idx \in [Chans -> Nat]
  BY <1>3 DEF Types
<1>13. CASE Fits(o, full)
  <2>1. /\ buf' = [buf EXCEPT ![o] = Stretch(Written(o) + MaxBuffer, rest)]
        /\ idx' = [idx EXCEPT ![o] = rest]
        /\ pc' = pc /\ bad' = bad /\ calls' = [calls EXCEPT ![o] = @ + 1]
    BY <1>1, <1>2, <1>9, <1>13 DEF Completed
  <2>2. Stretch(Written(o) + MaxBuffer, rest) \in Seq(Int)
    BY <1>6, <1>7, StretchProperties, Zenon
  <2>3. /\ buf' \in [Chans -> Seq(Int)] /\ idx' \in [Chans -> Nat] /\ Others(o)
        /\ buf'[o] = Stretch(Written(o) + MaxBuffer, rest) /\ idx'[o] = rest
    BY <1>3, <1>6, <1>12, <2>1, <2>2 DEF Others
  <2>4. Written(o)' = Written(o) + MaxBuffer
    <3>1. Written(o) + MaxBuffer \in Int /\ room[o] \in Int
      BY <1>3
    <3> QED BY <1>10, <1>13, <3>1, LeastOf
  <2>5. Pending(o)'
    <3>1. Moved(o)' = Moved(o) + Size[o]
      BY <1>3, <2>1, MovesOn
    <3>2. Written(o)' + idx'[o] = Moved(o)'
      <4>1. Written(o) + idx[o] = Moved(o)
        BY <1>3 DEF Pending
      <4>2. MaxBuffer + rest = idx[o] + Size[o]
        BY <1>6
      <4>3. /\ Written(o) \in Nat /\ idx[o] \in Nat /\ Size[o] \in Nat
            /\ MaxBuffer \in Nat /\ rest \in Nat
        BY <1>3, <1>6
      <4>4. (Written(o) + MaxBuffer) + rest = Moved(o) + Size[o]
        BY <4>1, <4>2, <4>3
      <4> QED BY <2>3, <2>4, <3>1, <4>4
    <3>3. SubSeq(Stretch(Written(o) + MaxBuffer, rest), 1, rest)
            = Stretch(Written(o) + MaxBuffer, rest)
      BY <1>6, <1>7, StretchFirst, Zenon
    <3> QED BY <2>3, <2>4, <3>2, <3>3 DEF Pending
  <2>6. Accepts(o)
    BY <2>1, <2>5 DEF Accepts
  <2> QED BY <1>1, <1>4, <1>6, <1>10, <1>11, <2>3, <2>6 DEF Writes
<1>14. CASE ~Fits(o, full)
  <2>1. /\ buf' = [buf EXCEPT ![o] = Stretch(Written(o), MaxBuffer)]
        /\ idx' = [idx EXCEPT ![o] = 0]
        /\ pc' = "thrown" /\ bad' = bad \cup {o} /\ UNCHANGED calls
    BY <1>1, <1>2, <1>8, <1>14 DEF Thrown
  <2>2. Stretch(Written(o), MaxBuffer) \in Seq(Int)
    BY <1>3, <1>7, StretchProperties, Zenon
  <2>3. /\ buf' \in [Chans -> Seq(Int)] /\ idx' \in [Chans -> Nat] /\ Others(o)
        /\ idx'[o] = 0 /\ idx'[o] < MaxBuffer
    BY <1>3, <1>6, <1>12, <2>1, <2>2 DEF Others
  <2>4. Written(o)' = room[o] /\ room[o] < Moved(o) + Size[o]
    <3>1. Written(o) + MaxBuffer > room[o]
      BY <1>3, <1>10, <1>14
    <3>2. Written(o) + idx[o] = Moved(o)
      BY <1>3 DEF Pending
    <3>3. Written(o) + MaxBuffer \in Int /\ room[o] \in Int
      BY <1>3
    <3>4. Written(o)' = room[o]
      BY <1>10, <3>1, <3>3, LeastOf
    <3> QED BY <1>1, <1>3, <3>1, <3>2, <3>4
  <2>5. Overflows(o)
    BY <2>1, <2>3, <2>4 DEF Overflows
  <2> QED BY <1>1, <1>4, <1>10, <1>11, <2>3, <2>5 DEF Writes
<1> QED BY <1>13, <1>14

-----------------------------------------------------------------------------
(* The invariant: of a channel that is not called, nothing changes.        *)
LEMMA InvInit == Init => IInv
<1> SUFFICES ASSUME Init PROVE IInv
  OBVIOUS
<1>1. <<>> \in Seq(Int) /\ 0 \in Nat /\ 0 \in Int /\ Len(<<>>) = 0
  OBVIOUS
<1>2. Types
  <2>1. /\ source \in [Inputs -> Nat] /\ room \in [Outputs -> Nat]
        /\ broken \in SUBSET Inputs /\ has_period \in BOOLEAN
        /\ MaxBuffer \in Nat
    BY StdioAssumption DEF Init
  <2> QED BY <1>1, <2>1 DEF Init, Types
<1>3. \A c \in Chans : Moved(c) = 0
  BY StdioAssumption, Transfers DEF Init, Moved
<1>4. Stages /\ open = Outputs /\ pc = "running"
  BY DEF Init, Stages
<1>5. InOrder
  <2>1. \A o \in Outputs : device[o] = Stretch(0, Len(device[o]))
    BY <1>1, StretchEmpty DEF Init
  <2> QED BY <2>1 DEF Init, InOrder, Chans
<1>6. \A i \in Inputs : InputOK(i)
  <2> SUFFICES ASSUME NEW i \in Inputs PROVE InputOK(i)
    OBVIOUS
  <2>1. /\ i \in Chans /\ taken[i] = 0 /\ cnt[i] = 0 /\ idx[i] = 0 /\ buf[i] = <<>>
        /\ 0 - 0 = 0
    BY DEF Init, Chans
  <2>2. Left(i) = 0 /\ Stretch(taken[i] - cnt[i], cnt[i]) = <<>>
    BY <1>1, <2>1, StretchEmpty DEF Left
  <2> QED BY <1>3, <2>1, <2>2 DEF InputOK
<1>7. \A o \in Outputs : OutputOK(o)
  <2> SUFFICES ASSUME NEW o \in Outputs PROVE OutputOK(o)
    OBVIOUS
  <2>1. /\ o \in Chans /\ device[o] = <<>> /\ buf[o] = <<>> /\ idx[o] = 0
        /\ Written(o) = 0
    BY <1>1 DEF Init, Chans, Written
  <2>2. SubSeq(<<>>, 1, 0) = <<>> /\ Stretch(0, 0) = <<>>
    BY <1>1, StretchEmpty, SubSeqEmpty
  <2>3. Pending(o)
    <3>1. Moved(o) = 0 /\ 0 + 0 = 0
      BY <1>3, <2>1
    <3>2. SubSeq(buf[o], 1, idx[o]) = Stretch(Written(o), idx[o])
      BY <2>1, <2>2
    <3>3. Written(o) + idx[o] = Moved(o)
      BY <2>1, <3>1
    <3> QED BY <3>2, <3>3 DEF Pending
  <2>4. Buffered(o) => 0 < MaxBuffer
    BY <2>1, StdioAssumption DEF Buffered
  <2>5. room[o] \in Nat
    BY <1>2 DEF Types
  <2> QED BY <1>4, <2>1, <2>3, <2>4, <2>5 DEF OutputOK
<1> QED BY <1>2, <1>4, <1>5, <1>6, <1>7 DEF IInv

LEMMA ReadStep ==
  ASSUME IInv, NEW i \in Inputs, Reads(i)
  PROVE  IInv'
<1>1. /\ pc = "running" /\ Types /\ Stages /\ InOrder
      /\ \A j \in Inputs : InputOK(j)
      /\ \A o \in Outputs : OutputOK(o)
      /\ UNCHANGED <<status, source, broken, room, has_period, device, open>>
      /\ i \in Chans
  BY DEF IInv, Reads, world, Chans
<1>2. /\ \/ pc' = "running" /\ bad' = bad
         \/ pc' = "thrown" /\ bad' \in SUBSET Chans
      /\ calls' \in [Chans -> Nat] /\ dest' \in [Inputs -> Seq(Int)]
      /\ \A d \in Chans \ {i} : calls'[d] = calls[d] /\ Moved(d)' = Moved(d)
      /\ \A j \in Inputs \ {i} : dest'[j] = dest[j]
  <2>1. calls \in [Chans -> Nat] /\ dest \in [Inputs -> Seq(Int)] /\ bad \in SUBSET Chans
    BY <1>1 DEF Types
  <2>2. CASE Delivers(i)
    <3>1. Moved(i) \in Int /\ Size[i] \in Nat
      BY <1>1, Numbers
    <3>2. Stretch(Moved(i), Size[i]) \in Seq(Int)
      BY <3>1, StretchProperties, Zenon
    <3>3. /\ calls' = [calls EXCEPT ![i] = @ + 1]
          /\ dest' = [dest EXCEPT ![i] = Stretch(Moved(i), Size[i])]
          /\ pc' = pc /\ bad' = bad
      BY <2>2 DEF Delivers
    <3>4. \A d \in Chans \ {i} : Moved(d)' = Moved(d)
      BY <1>1, <3>3, MovesOn
    <3> QED BY <1>1, <2>1, <3>2, <3>3, <3>4
  <2>3. CASE Ends(i)
    BY <1>1, <2>1, <2>3 DEF Ends, Moved
  <2> QED BY <2>2, <2>3 DEF Reads
<1>3. Types'
  <2>1. /\ taken' \in [Inputs -> Nat] /\ cnt' \in [Inputs -> Nat]
        /\ buf' \in [Chans -> Seq(Int)] /\ idx' \in [Chans -> Nat]
        /\ eof' \in SUBSET Inputs
        /\ \A j \in Inputs : taken'[j] <= source[j] /\ cnt'[j] <= MaxBuffer
    BY <1>1 DEF Reads, Types
  <2>2. bad' \in SUBSET Chans /\ pc' \in {"running", "thrown"}
    BY <1>1, <1>2 DEF Types
  <2> QED BY <1>1, <1>2, <2>1, <2>2 DEF Types
<1>4. Stages'
  BY <1>1, <1>2 DEF Stages
<1>5. InOrder'
  <2>1. ASSUME NEW j \in Inputs, calls'[j] > 0
        PROVE  dest'[j] = Stretch((calls'[j] - 1) * Size[j], Size[j])
    <3>1. CASE j # i \/ Ends(i)
      <4>1. calls'[j] = calls[j] /\ dest'[j] = dest[j]
        BY <1>2, <3>1 DEF Ends, Chans
      <4> QED BY <1>1, <2>1, <4>1 DEF InOrder
    <3>2. CASE j = i /\ Delivers(i)
      <4>1. /\ calls' = [calls EXCEPT ![i] = @ + 1]
            /\ dest' = [dest EXCEPT ![i] = Stretch(Moved(i), Size[i])]
        BY <3>2 DEF Delivers
      <4>2. /\ calls \in [Chans -> Nat] /\ dest \in [Inputs -> Seq(Int)]
        BY <1>1 DEF Types
      <4>3. /\ dest'[i] = Stretch(calls[i] * Size[i], Size[i])
            /\ calls'[i] - 1 = calls[i]
        BY <1>1, <4>1, <4>2 DEF Moved
      <4> QED BY <3>2, <4>3
    <3> QED BY <3>1, <3>2 DEF Reads
  <2> QED BY <1>1, <2>1 DEF InOrder
<1>6. pc' = "running" => \A j \in Inputs : InputOK(j)'
  <2> SUFFICES ASSUME pc' = "running", NEW j \in Inputs PROVE InputOK(j)'
    OBVIOUS
  <2>1. CASE j = i
    BY <2>1 DEF Reads, Delivers, Ends
  <2>2. CASE j # i
    <3>1. /\ taken'[j] = taken[j] /\ cnt'[j] = cnt[j]
          /\ buf'[j] = buf[j] /\ idx'[j] = idx[j] /\ Moved(j)' = Moved(j)
      BY <1>2, <2>2 DEF Reads, Others, Chans
    <3>2. InputOK(j)
      BY <1>1
    <3> QED BY <3>1, <3>2 DEF InputOK, Left, Buffered
  <2> QED BY <2>1, <2>2
<1>7. ASSUME NEW o \in Outputs PROVE OutputOK(o)'
  <2>1. /\ buf'[o] = buf[o] /\ idx'[o] = idx[o] /\ Moved(o)' = Moved(o)
        /\ Written(o)' = Written(o)
    BY <1>1, <1>2, StdioAssumption DEF Reads, Others, Chans, Written
  <2>2. /\ Pending(o) /\ Written(o) <= room[o] /\ open = Outputs
        /\ IF Buffered(o) THEN idx[o] < MaxBuffer ELSE idx[o] = 0
    BY <1>1, OutputState DEF Stages
  <2> QED BY <1>1, <2>1, <2>2 DEF OutputOK, Pending, Buffered
<1> QED BY <1>3, <1>4, <1>5, <1>6, <1>7 DEF IInv

LEMMA WriteStep ==
  ASSUME IInv, NEW o \in Outputs, Writes(o)
  PROVE  IInv'
<1>1. /\ pc = "running" /\ Types /\ Stages /\ InOrder
      /\ \A i \in Inputs : InputOK(i)
      /\ UNCHANGED <<status, source, broken, room, has_period, taken, cnt, eof,
                     dest, open>>
      /\ o \in Chans
  BY DEF IInv, Writes, world, inputs, Chans
<1>2. /\ \/ pc' = "running" /\ bad' = bad
         \/ pc' = "thrown" /\ bad' = bad \cup {o}
      /\ calls' \in [Chans -> Nat]
      /\ \A d \in Chans \ {o} : calls'[d] = calls[d] /\ Moved(d)' = Moved(d)
  <2>1. calls \in [Chans -> Nat]
    BY <1>1 DEF Types
  <2>2. CASE Accepts(o)
    <3>1. calls' = [calls EXCEPT ![o] = @ + 1] /\ pc' = pc /\ bad' = bad
      BY <2>2 DEF Accepts
    <3>2. \A d \in Chans \ {o} : Moved(d)' = Moved(d)
      BY <1>1, <3>1, MovesOn
    <3> QED BY <1>1, <2>1, <3>1, <3>2
  <2>3. CASE Overflows(o)
    BY <2>1, <2>3 DEF Overflows, Moved
  <2> QED BY <2>2, <2>3 DEF Writes
<1>3. Types'
  <2>1. /\ device' \in [Outputs -> Seq(Int)]
        /\ buf' \in [Chans -> Seq(Int)] /\ idx' \in [Chans -> Nat]
        /\ bad' \in SUBSET Chans /\ pc' \in {"running", "thrown"}
    BY <1>1, <1>2 DEF Writes, Types
  <2> QED BY <1>1, <1>2, <2>1 DEF Types
<1>4. Stages'
  BY <1>1, <1>2 DEF Stages
<1>5. InOrder'
  <2>1. ASSUME NEW i \in Inputs PROVE calls'[i] = calls[i]
    BY <1>2, StdioAssumption DEF Chans
  <2>2. ASSUME NEW q \in Outputs PROVE device'[q] = Stretch(0, Len(device'[q]))
    <3>1. CASE q = o
      BY <3>1 DEF Writes, Written
    <3>2. CASE q # o
      BY <1>1, <3>2 DEF Writes, InOrder
    <3> QED BY <3>1, <3>2
  <2> QED BY <1>1, <2>1, <2>2 DEF InOrder
<1>6. ASSUME NEW i \in Inputs PROVE InputOK(i)'
  <2>1. /\ buf'[i] = buf[i] /\ idx'[i] = idx[i] /\ Moved(i)' = Moved(i)
    BY <1>2, StdioAssumption DEF Writes, Others, Chans
  <2>2. InputOK(i)
    BY <1>1
  <2> QED BY <1>1, <2>1, <2>2 DEF InputOK, Left, Buffered
<1>7. ASSUME NEW q \in Outputs PROVE OutputOK(q)'
  <2>1. open' = Outputs /\ open = Outputs
    BY <1>1 DEF Stages
  <2>2. CASE q = o
    <3>1. CASE Accepts(o)
      BY <1>1, <2>1, <2>2, <3>1 DEF Writes, Accepts, OutputOK, Buffered
    <3>2. CASE Overflows(o)
      <4>1. Moved(o)' = Moved(o) /\ Failed'
        BY <3>2 DEF Overflows, Moved, Failed
      <4> QED BY <1>1, <2>1, <2>2, <3>2, <4>1 DEF Writes, Overflows, OutputOK, Buffered, Full
    <3> QED BY <3>1, <3>2 DEF Writes
  <2>3. CASE q # o
    <3>1. /\ buf'[q] = buf[q] /\ idx'[q] = idx[q] /\ Moved(q)' = Moved(q)
          /\ Written(q)' = Written(q)
      BY <1>2, <2>3 DEF Writes, Others, Chans, Written
    <3>2. /\ Pending(q) /\ Written(q) <= room[q]
          /\ IF Buffered(q) THEN idx[q] < MaxBuffer ELSE idx[q] = 0
      BY <1>1, OutputState
    <3> QED BY <1>1, <2>1, <3>1, <3>2 DEF OutputOK, Pending, Buffered
  <2> QED BY <2>2, <2>3
<1> QED BY <1>3, <1>4, <1>5, <1>6, <1>7 DEF IInv

(* What is left in the buffer of an output goes to its stream, as far as   *)
(* the device takes it.                                                    *)
LEMMA DestroyStep ==
  ASSUME IInv, NEW o \in Outputs, Destroy(o)
  PROVE  IInv'
<1>1. /\ pc = "leaving" /\ pc' = pc /\ o \in open /\ open' = open \ {o}
      /\ Put(o, Remaining(o))
      /\ bad' = IF Fits(o, Remaining(o)) THEN bad ELSE bad \cup {o}
      /\ UNCHANGED <<status, source, broken, room, has_period, calls, taken, cnt,
                     eof, dest, buf, idx>>
      /\ Types /\ InOrder /\ OutputOK(o) /\ o \in Chans
  BY DEF Destroy, MarkBad, world, inputs, IInv, Chans
<1>2. /\ Written(o) \in Nat /\ Written(o) \in Int /\ room[o] \in Nat /\ idx[o] \in Nat
      /\ Moved(o) \in Nat /\ Written(o) <= room[o]
      /\ device[o] = Stretch(0, Written(o))
  BY <1>1, Numbers, LenProperties DEF Types, Written, OutputOK, InOrder
<1>3. Pending(o) \/ Full(o)
  BY <1>1 DEF OutputOK
<1>4. Remaining(o) = Stretch(Written(o), idx[o])
  <2>1. CASE Pending(o)
    BY <2>1 DEF Pending, Remaining
  <2>2. CASE Full(o)
    <3>1. idx[o] = 0 /\ SubSeq(buf[o], 1, 0) = <<>>
      BY <2>2, SubSeqEmpty DEF Full
    <3>2. Stretch(Written(o), 0) = <<>>
      BY <1>2, StretchEmpty, Zenon
    <3> QED BY <3>1, <3>2 DEF Remaining
  <2> QED BY <1>3, <2>1, <2>2
<1>5. /\ device' \in [Outputs -> Seq(Int)]
      /\ \A q \in Outputs \ {o} : device'[q] = device[q]
      /\ Written(o)' = Least(Written(o) + idx[o], room[o])
      /\ device'[o] = Stretch(0, Written(o)')
  BY <1>1, <1>2, <1>4, PutStretch
<1>6. Written(o) + idx[o] \in Int /\ room[o] \in Int
  BY <1>2
<1>7. /\ Written(o) + idx[o] <= room[o] => Written(o)' = Written(o) + idx[o]
      /\ room[o] <= Written(o) + idx[o] => Written(o)' = room[o]
  BY <1>5, <1>6, LeastOf
<1>8. Types'
  <2>1. bad' \in SUBSET Chans /\ open' \in SUBSET Outputs
    BY <1>1 DEF Types
  <2> QED BY <1>1, <1>5, <2>1 DEF Types
<1>9. Stages'
  BY <1>1 DEF Stages
<1>10. InOrder'
  <2>1. ASSUME NEW q \in Outputs PROVE device'[q] = Stretch(0, Len(device'[q]))
    <3>1. CASE q = o
      BY <1>5, <3>1 DEF Written
    <3>2. CASE q # o
      BY <1>1, <1>5, <3>2 DEF InOrder
    <3> QED BY <3>1, <3>2
  <2> QED BY <1>1, <2>1 DEF InOrder
<1>11. /\ Failed' = Failed
       /\ \A c \in Chans : Moved(c)' = Moved(c)
  BY <1>1 DEF Failed, Moved
<1>12. ASSUME NEW q \in Outputs PROVE OutputOK(q)'
  <2>1. CASE q = o
    <3>1. Written(o)' <= room[o]
      BY <1>2, <1>7
    <3>2. Emptied(o)' \/ Full(o)'
      <4>1. CASE Pending(o)
        <5>1. Written(o) + idx[o] = Moved(o)
          BY <4>1 DEF Pending
        <5>2. \/ Written(o)' = Moved(o)
              \/ Written(o)' = room[o] /\ room[o] < Moved(o)
          BY <1>2, <1>7, <5>1
        <5> QED BY <1>1, <1>11, <5>2 DEF Emptied
      <4>2. CASE Full(o)
        <5>1. Failed /\ idx[o] = 0 /\ Written(o) = room[o] /\ room[o] < Moved(o) + Size[o]
          BY <4>2 DEF Full
        <5>2. Written(o)' = room[o]
          BY <1>2, <1>7, <5>1
        <5> QED BY <1>1, <1>11, <5>1, <5>2 DEF Full
      <4> QED BY <1>3, <4>1, <4>2
    <3> QED BY <1>1, <2>1, <3>1, <3>2 DEF OutputOK, Buffered
  <2>2. CASE q # o
    <3>1. Written(q)' = Written(q) /\ Moved(q)' = Moved(q) /\ (q \in open' <=> q \in open)
      BY <1>1, <1>5, <1>11, <2>2 DEF Written, Chans
    <3>2. OutputOK(q)
      BY DEF IInv
    <3> QED BY <1>1, <1>11, <3>1, <3>2 DEF OutputOK, Pending, Full, Emptied, Buffered
  <2> QED BY <2>1, <2>2
<1> QED BY <1>1, <1>8, <1>9, <1>10, <1>12 DEF IInv

(* The handler of exceptions, the end of main(), and steps of nothing at   *)
(* all: no channel is touched.                                             *)
LEMMA LeaveStep ==
  ASSUME IInv, Catch \/ Finish \/ Exit \/ UNCHANGED vars
  PROVE  IInv'
<1>1. /\ UNCHANGED <<source, broken, room, has_period, calls, taken, cnt, eof, dest,
                     device, buf, idx, bad, open>>
      /\ \/ pc = "thrown" /\ pc' = "leaving" /\ status' = IF bad # {} THEN 1 ELSE 0
         \/ pc \in {"running", "leaving"} /\ pc' \in {"leaving", "exited"}
            /\ (pc' = "leaving" => pc = "running") /\ status' = status
         \/ pc' = pc /\ status' = status
  BY DEF Catch, Finish, Exit, vars, world, inputs, Faulty
<1>2. Types' /\ Stages' /\ InOrder'
  BY <1>1 DEF IInv, Types, Stages, InOrder
<1>3. pc' = "running" => \A i \in Inputs : InputOK(i)'
  BY <1>1 DEF IInv, InputOK, Left, Buffered, Moved
<1>4. ASSUME NEW o \in Outputs PROVE OutputOK(o)'
  <2>1. OutputOK(o) /\ Stages
    BY DEF IInv
  <2>2. pc' # "exited" => (Full(o) => Full(o)')
    BY <1>1, <2>1 DEF Full, Failed, Written, Moved, Stages
  <2>3. pc' # "exited" => pc # "exited"
    BY <1>1
  <2> QED BY <1>1, <2>1, <2>2, <2>3 DEF OutputOK, Pending, Emptied, Buffered, Written, Moved
<1> QED BY <1>2, <1>3, <1>4 DEF IInv

(* Every step is one of these.                                             *)
LEMMA StepKinds ==
  ASSUME IInv, [Next]_vars
  PROVE  \/ \E i \in Inputs : Reads(i)
         \/ \E o \in Outputs : Writes(o)
         \/ \E o \in Outputs : Destroy(o)
         \/ Catch \/ Finish \/ Exit \/ UNCHANGED vars
BY DirectReads, BufferReads, RefillReads, DirectWrites, BufferWrites, FlushWrites DEF Next

LEMMA InvStep == IInv /\ [Next]_vars => IInv'
BY StepKinds, ReadStep, WriteStep, DestroyStep, LeaveStep

-----------------------------------------------------------------------------
(* Positions in the buffers keep within what is in them, whatever the      *)
(* sizes of transfers, buffers and files.                                  *)
THEOREM TypeCorrect == Spec => []TypeOK
<1>1. IInv => TypeOK
  <2> SUFFICES ASSUME IInv PROVE TypeOK
    OBVIOUS
  <2>1. /\ pc \in {"running", "thrown", "leaving", "exited"} /\ status \in {0, 1}
        /\ bad \subseteq Chans /\ eof \subseteq Inputs /\ open \subseteq Outputs
    BY DEF IInv, Types
  <2>2. ASSUME NEW i \in Inputs
        PROVE  /\ taken[i] \in 0..source[i] /\ cnt[i] \in 0..MaxBuffer
               /\ pc = "running" => idx[i] \in 0..cnt[i]
    <3>1. /\ taken[i] \in Nat /\ source[i] \in Nat /\ cnt[i] \in Nat /\ idx[i] \in Nat
          /\ taken[i] <= source[i] /\ cnt[i] <= MaxBuffer
      BY DEF IInv, Types, Chans
    <3>2. pc = "running" => idx[i] <= cnt[i]
      BY DEF IInv, InputOK
    <3> QED BY <3>1, <3>2, StdioAssumption
  <2>3. ASSUME NEW o \in Outputs, Buffered(o) PROVE idx[o] \in 0..(MaxBuffer - 1)
    <3>1. idx[o] \in Nat /\ idx[o] < MaxBuffer
      BY <2>3 DEF IInv, Types, OutputOK, Chans
    <3> QED BY <3>1, StdioAssumption
  <2> QED BY <2>1, <2>2, <2>3 DEF TypeOK
<1> QED BY <1>1, InvInit, InvStep, PTL DEF Spec

(* Every element is delivered in its place and written in its place,       *)
(* however transfers and buffers cut the stream.                           *)
THEOREM ElementsInOrder == Spec => []InOrder
<1>1. IInv => InOrder
  BY DEF IInv
<1> QED BY <1>1, InvInit, InvStep, PTL DEF Spec

-----------------------------------------------------------------------------
(* A program with these channels is one that Channels describes: what each *)
(* kind of step is there.                                                  *)
Phase ==
  CASE pc = "running" -> "running"
    [] pc = "thrown"  -> IF bad = {} THEN "ending" ELSE "failing"
    [] pc = "leaving" -> IF status = 0 THEN "ending" ELSE "failing"
    [] pc = "exited"  -> "closed"
Got == [i \in Inputs |-> calls[i] * Size[i]]
Sent == [o \in Outputs |-> calls[o] * Size[o]]
Arrived == [o \in Outputs |-> IF pc = "exited" THEN Len(device[o]) ELSE 0]

LEMMA ChannelsInit == Init => Direct!Init
<1> SUFFICES ASSUME Init PROVE Direct!Init
  OBVIOUS
<1>1. \A c \in Chans : calls[c] * Size[c] = 0
  BY StdioAssumption, Transfers DEF Init
<1>2. Got = [i \in Inputs |-> 0] /\ Sent = [o \in Outputs |-> 0]
  BY <1>1 DEF Got, Sent, Chans
<1>3. Arrived = [o \in Outputs |-> 0] /\ Phase = "running"
  BY DEF Init, Arrived, Phase
<1>4. /\ source \in [Inputs -> Nat] /\ room \in [Outputs -> Nat]
      /\ broken \in SUBSET Inputs /\ has_period \in BOOLEAN
  BY StdioAssumption DEF Init
<1> QED BY <1>2, <1>3, <1>4 DEF Direct!Init, Got, Sent, Arrived, Phase

(* The transfers of one channel                                            *)
LEMMA MovesOne ==
  ASSUME Types, NEW c \in Chans, calls' = [calls EXCEPT ![c] = @ + 1]
  PROVE  /\ c \in Inputs => Got' = [Got EXCEPT ![c] = @ + Size[c]] /\ Sent' = Sent
         /\ c \in Outputs => Sent' = [Sent EXCEPT ![c] = @ + Size[c]] /\ Got' = Got
<1>1. /\ calls'[c] * Size[c] = calls[c] * Size[c] + Size[c]
      /\ \A d \in Chans \ {c} : calls'[d] * Size[d] = calls[d] * Size[d]
  BY MovesOn DEF Moved
<1> QED BY <1>1, StdioAssumption DEF Got, Sent, Chans

LEMMA ChannelsRead ==
  ASSUME IInv, NEW i \in Inputs, Reads(i)
  PROVE  Direct!Next
<1>1. /\ pc = "running" /\ Types /\ bad = {} /\ i \in Chans
      /\ UNCHANGED <<source, broken, room, has_period>>
  BY DEF IInv, Stages, Reads, Chans, world
<1>2. CASE Delivers(i)
  <2>1. Got' = [Got EXCEPT ![i] = @ + Size[i]] /\ Sent' = Sent
    BY <1>1, <1>2, MovesOne DEF Delivers
  <2>2. Phase = "running" /\ Phase' = "running" /\ Arrived' = Arrived
    BY <1>1, <1>2 DEF Delivers, Phase, Arrived
  <2>3. Got[i] + Size[i] <= source[i]
    BY <1>2 DEF Delivers, Got, Moved
  <2>4. Direct!Read(i)
    BY <1>1, <2>1, <2>2, <2>3 DEF Direct!Read, Direct!world, Got, Sent, Arrived, Phase
  <2> QED BY <2>4 DEF Direct!Next
<1>3. CASE Ends(i)
  <2>1. Got' = Got /\ Sent' = Sent /\ Arrived' = Arrived /\ Phase = "running"
    BY <1>1, <1>3 DEF Ends, Got, Sent, Arrived, Phase
  <2>2. CASE i \in broken
    <3>1. Phase' = "failing"
      BY <1>3, <2>2 DEF Ends, Phase
    <3>2. Direct!Fail
      BY <1>1, <2>1, <2>2, <3>1
      DEF Direct!Fail, Direct!Leave, Direct!world, Got, Sent, Arrived, Phase
    <3> QED BY <3>2 DEF Direct!Next
  <2>3. CASE i \notin broken
    <3>1. Phase' = "ending" /\ Got[i] + Size[i] > source[i]
      BY <1>1, <1>3, <2>3 DEF Ends, Phase, Got, Moved
    <3>2. Direct!UsedUp(i)
      BY <2>3, <3>1 DEF Direct!UsedUp, Got
    <3>3. Direct!End
      BY <1>1, <2>1, <3>1, <3>2
      DEF Direct!End, Direct!Leave, Direct!world, Got, Sent, Arrived, Phase
    <3> QED BY <3>3 DEF Direct!Next
  <2> QED BY <2>2, <2>3
<1> QED BY <1>2, <1>3 DEF Reads

LEMMA ChannelsWrite ==
  ASSUME IInv, NEW o \in Outputs, Writes(o)
  PROVE  Direct!Next
<1>1. /\ pc = "running" /\ Types /\ bad = {} /\ o \in Chans
      /\ UNCHANGED <<source, broken, room, has_period>>
  BY DEF IInv, Stages, Writes, Chans, world
<1>2. CASE Accepts(o)
  <2>1. Sent' = [Sent EXCEPT ![o] = @ + Size[o]] /\ Got' = Got
    BY <1>1, <1>2, MovesOne DEF Accepts
  <2>2. Phase = "running" /\ Phase' = "running" /\ Arrived' = Arrived
    BY <1>1, <1>2 DEF Accepts, Phase, Arrived
  <2>3. Direct!Write(o)
    BY <1>1, <2>1, <2>2 DEF Direct!Write, Direct!world, Got, Sent, Arrived, Phase
  <2> QED BY <2>3 DEF Direct!Next
<1>3. CASE Overflows(o)
  <2>1. Got' = Got /\ Sent' = Sent /\ Arrived' = Arrived
    BY <1>1, <1>3 DEF Overflows, Got, Sent, Arrived
  <2>2. Phase = "running" /\ Phase' = "failing"
    BY <1>1, <1>3 DEF Overflows, Phase
  <2>3. Sent[o] + Size[o] > room[o]
    <3>1. room[o] < Moved(o) + Size[o] /\ Sent[o] = Moved(o)
      BY <1>3 DEF Overflows, Sent, Moved
    <3>2. room[o] \in Nat /\ Moved(o) \in Nat /\ Size[o] \in Nat
      BY <1>1, Numbers DEF Types
    <3> QED BY <3>1, <3>2
  <2>4. Direct!Full(o)
    BY <2>3 DEF Direct!Full, Sent
  <2>5. Direct!Fail
    BY <1>1, <2>1, <2>2, <2>4
    DEF Direct!Fail, Direct!Leave, Direct!world, Got, Sent, Arrived, Phase
  <2> QED BY <2>5 DEF Direct!Next
<1> QED BY <1>2, <1>3 DEF Writes

(* Between the end of the program and its exit, Channels stands still.     *)
LEMMA ChannelsWait ==
  ASSUME IInv, Catch \/ UNCHANGED vars \/ \E o \in Outputs : Destroy(o)
  PROVE  UNCHANGED Direct!vars
<1>1. /\ UNCHANGED <<source, broken, room, has_period, calls>>
      /\ \/ pc = "thrown" /\ pc' = "leaving" /\ status' = IF bad # {} THEN 1 ELSE 0
         \/ pc = "leaving" /\ pc' = "leaving" /\ status' = status
         \/ UNCHANGED <<pc, status, bad, device>>
  BY DEF Catch, Destroy, vars, world, Faulty
<1>2. Got' = Got /\ Sent' = Sent /\ Arrived' = Arrived
  BY <1>1 DEF Got, Sent, Arrived
<1>3. Phase' = Phase
  <2>1. CASE pc = "thrown" /\ pc' = "leaving" /\ status' = IF bad # {} THEN 1 ELSE 0
    <3>1. Phase = IF bad = {} THEN "ending" ELSE "failing"
      BY <2>1 DEF Phase
    <3>2. Phase' = IF status' = 0 THEN "ending" ELSE "failing"
      BY <2>1 DEF Phase
    <3> QED BY <2>1, <3>1, <3>2
  <2>2. CASE pc = "leaving" /\ pc' = "leaving" /\ status' = status
    BY <2>2 DEF Phase
  <2>3. CASE UNCHANGED <<pc, status, bad, device>>
    BY <2>3 DEF Phase
  <2> QED BY <1>1, <2>1, <2>2, <2>3
<1> QED BY <1>1, <1>2, <1>3 DEF Direct!vars, Direct!world, Got, Sent, Arrived, Phase

LEMMA ChannelsFinish ==
  ASSUME IInv, Finish
  PROVE  Direct!Next
<1>1. /\ pc = "running" /\ pc' = "leaving" /\ status' = 0 /\ ~has_period
      /\ UNCHANGED <<source, broken, room, has_period, calls>>
  BY DEF Finish, IInv, Stages, world
<1>2. /\ Got' = Got /\ Sent' = Sent /\ Arrived' = Arrived
      /\ Phase = "running" /\ Phase' = "ending"
  BY <1>1 DEF Got, Sent, Arrived, Phase
<1>3. Direct!Finish
  BY <1>1, <1>2 DEF Direct!Finish, Direct!Leave, Direct!world, Got, Sent, Arrived, Phase
<1> QED BY <1>3 DEF Direct!Next

(* When the outputs have been destroyed, the devices have all they had     *)
(* room for, and of more than was given to an output at most a transfer    *)
(* that failed.                                                            *)
LEMMA ChannelsClose ==
  ASSUME IInv, Exit
  PROVE  Direct!Next
<1>1. /\ pc = "leaving" /\ pc' = "exited" /\ open = {} /\ Types
      /\ UNCHANGED <<status, source, broken, room, has_period, calls, device>>
  BY DEF Exit, IInv, world
<1>2. /\ Got' = Got /\ Sent' = Sent
      /\ Arrived' = [o \in Outputs |-> Written(o)]
      /\ Phase = IF status = 0 THEN "ending" ELSE "failing"
      /\ Phase' = "closed"
  BY <1>1 DEF Got, Sent, Arrived, Phase, Written
<1>3. ASSUME NEW o \in Outputs
      PROVE  /\ Arrived'[o] \in Nat
             /\ Arrived'[o] <= room[o]
             /\ Sent[o] <= room[o] => Sent[o] <= Arrived'[o]
             /\ Arrived'[o] <= Sent[o] + (IF Phase = "failing" THEN Size[o] ELSE 0)
  <2>1. Arrived'[o] = Written(o) /\ Sent[o] = Moved(o)
    BY <1>2 DEF Sent, Moved
  <2>2. /\ Written(o) \in Nat /\ room[o] \in Nat /\ Moved(o) \in Nat /\ Size[o] \in Nat
    BY <1>1, Numbers, LenProperties DEF Types, Written, Chans
  <2>3. Written(o) <= room[o] /\ (Emptied(o) \/ Full(o))
    BY <1>1 DEF IInv, OutputOK
  <2>4. CASE Emptied(o)
    BY <2>1, <2>2, <2>3, <2>4 DEF Emptied
  <2>5. CASE Full(o)
    <3>1. Phase = "failing" /\ Written(o) = room[o] /\ room[o] < Moved(o) + Size[o]
      BY <1>1, <1>2, <2>5 DEF Full, Failed
    <3> QED BY <2>1, <2>2, <3>1
  <2> QED BY <2>3, <2>4, <2>5
<1>4. Arrived' \in [Outputs -> Nat] /\ Phase \in {"ending", "failing"}
  BY <1>2, <1>3
<1>5. Direct!Close
  BY <1>1, <1>2, <1>3, <1>4 DEF Direct!Close, Direct!world, Got, Sent, Arrived, Phase
<1> QED BY <1>5 DEF Direct!Next

(* Buffers, the sizes of transfers and where streams end make no           *)
(* difference to what a program reads, when and with which status it ends, *)
(* and what has been written when it has.                                  *)
THEOREM Implementation == Spec => BuffersDoNotMatter
<1>1. IInv /\ [Next]_vars => [Direct!Next]_(Direct!vars)
  BY StepKinds, ChannelsRead, ChannelsWrite, ChannelsWait, ChannelsFinish, ChannelsClose
<1> QED BY <1>1, ChannelsInit, InvInit, InvStep, PTL
        DEF Spec, BuffersDoNotMatter, Direct!Spec
=============================================================================
