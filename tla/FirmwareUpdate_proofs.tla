------------------------ MODULE FirmwareUpdate_proofs ------------------------
(***************************************************************************)
(* Proofs about the firmware update, for slots, sectors, flash words and   *)
(* images of any size, any number of connections and of entries in the     *)
(* map, and any number of requests, failures and power cuts: what the      *)
(* verification certifies and the hand-over stands for is the image that   *)
(* was received, and the whole implements ImageStaging.  All rests on      *)
(* UpdateAssumption and SlotAssumption.                                    *)
(***************************************************************************)
EXTENDS FirmwareUpdate, Integers, SequenceTheorems, WellFoundedInduction, TLAPS

\* The server's side, and that the current connection has an entry.
HttpInv ==
  /\ post \in [Conns -> Post] /\ finishing \in Conns \cup {NoConn}
  /\ map \in [1..NumEntries -> Entry] /\ current \in Conns \cup {NoConn}
  /\ posts \in Nat
  /\ current # NoConn => EntriesOf(map, current) # {}

\* Pipelines belong to uploads, and one at most feeds the writer.
PipeInv ==
  /\ upload \in {"idle", "in_progress", "ready", "error"}
  /\ \A i \in 1..NumEntries : map[i].active => map[i].conn # NoConn /\ map[i].mode = "upload"
  /\ OnePipeline /\ StatusTellsWriter

\* An active writer has erased flash in front of it, a prepared one all around.
WriterInv ==
  /\ IapTypeOK
  /\ writer.active => ~writer.finalized /\ ~writer.prepared
  /\ writer.active =>
       \A i \in 1..SlotSize : Len(writer.payload) < i /\ i <= writer.expected => slot[i] = Erased
  /\ writer.prepared => \A i \in 1..SlotSize : slot[i] = Erased
  /\ writer.finalized => Len(writer.payload) = writer.expected

\* What was read back so far is what the slot holds.
ReadbackInv ==
  /\ Len(writer.readback) <= writer.expected
  /\ writer.readback = SubSeq(slot, 1, Len(writer.readback))

\* A verification runs on an image that is complete, and the slot is the same
\* until its end and behind it.
VerifyInv ==
  /\ verify \in {"idle", "pending", "verifying", "verified", "error"}
  /\ certified \in {<<>>} \cup [1..SlotSize -> Byte] /\ unheeded \in BOOLEAN
  /\ verify \in {"pending", "verifying", "verified"} => writer.finalized /\ ~writer.active
  /\ verify \in {"pending", "verifying"} /\ writer.verifying /\ ~unheeded => ReadbackInv
  /\ verify = "verified" /\ ~unheeded => HoldsImage /\ slot = certified

\* A record in the marker sector is answered by the reset that follows it.
MarkInv ==
  /\ phase \in {"http", "verify", "apply", "reset"}
  /\ logger \in BOOLEAN /\ applying \in BOOLEAN /\ marker \in BOOLEAN
  /\ marker /\ ~unheeded => phase = "reset" /\ slot = certified

IInv == HttpInv /\ PipeInv /\ WriterInv /\ VerifyInv /\ MarkInv

\* A step that programs flash programs erased flash.
Clean == \A i \in 1..SlotSize : slot'[i] \in {slot[i], Erased} \/ slot[i] = Erased

-----------------------------------------------------------------------------
(* Numbers, sequences, flash                                               *)

\* A set of places that is not empty has a first one.
LEMMA FirstIn ==
  ASSUME NEW S \in SUBSET Nat, S # {}
  PROVE  First(S) \in S
<1> DEFINE R == {ss \in Nat \X Nat : ss[1] < ss[2]}
<1>1. IsWellFoundedOn(R, Nat)
  BY NatLessThanWellFounded DEF OpToRel
<1>2. \E x \in S : \A y \in S : ~(<<y, x>> \in R)
  <2> HIDE DEF R
  <2> QED BY <1>1, WFMin
<1>3. PICK x \in S : \A y \in S : ~(<<y, x>> \in R)
  BY <1>2
<1>4. \A y \in S : ~(y < x)
  BY <1>3
<1>5. \A y \in S : x <= y
  BY <1>4
<1> QED BY <1>5 DEF First

\* The entry that a connection is found under.
LEMMA FirstEntry ==
  ASSUME NEW m \in [1..NumEntries -> Entry], NEW c, EntriesOf(m, c) # {}
  PROVE  First(EntriesOf(m, c)) \in 1..NumEntries /\ m[First(EntriesOf(m, c))].conn = c
<1>1. EntriesOf(m, c) \in SUBSET Nat
  BY UpdateAssumption DEF EntriesOf
<1>2. First(EntriesOf(m, c)) \in EntriesOf(m, c)
  BY <1>1, FirstIn
<1> QED BY <1>2 DEF EntriesOf

\* Sectors that cover a size.
LEMMA RoundUpCovers ==
  ASSUME NEW n \in Nat
  PROVE  RoundUp(n) \in Nat /\ n <= RoundUp(n)
<1> DEFINE E == EraseSize
           x == n + E - 1
<1>1. E \in Nat /\ E > 0 /\ x \in Nat
  BY SlotAssumption
<1>2. x = E * (x \div E) + (x % E) /\ x % E \in 0..E - 1 /\ x \div E \in Nat
  <2> HIDE DEF E, x
  <2> QED BY <1>1
<1>3. RoundUp(n) = E * (x \div E)
  BY <1>1, <1>2 DEF RoundUp
<1> HIDE DEF x, E
<1>4. E * (x \div E) \in Nat
  BY <1>1, <1>2
<1>5. x = n + E - 1
  BY DEF x, E
<1> QED BY <1>1, <1>2, <1>3, <1>4, <1>5

\* What goes on to the flash, and what waits.
LEMMA AlignedIs ==
  ASSUME NEW bytes \in Seq(Byte)
  PROVE  LET rest == SubSeq(bytes, Len(Aligned(bytes)) + 1, Len(bytes))
         IN /\ Aligned(bytes) \in Seq(Byte)
            /\ Len(Aligned(bytes)) <= Len(bytes)
            /\ rest \in Seq(Byte) /\ Len(rest) < ProgSize
<1> DEFINE n == Len(bytes)
           k == n % ProgSize
           a == Aligned(bytes)
<1>1. n \in Nat /\ ProgSize \in Nat /\ ProgSize > 0
  BY SlotAssumption
<1>2. k \in 0..ProgSize - 1 /\ k <= n
  <2> HIDE DEF n
  <2> QED BY <1>1
<1>3. a = SubSeq(bytes, 1, n - k)
  BY DEF Aligned
<1> HIDE DEF a, k
<1>4. a \in Seq(Byte) /\ Len(a) = n - k
  BY <1>1, <1>2, <1>3
<1>5. SubSeq(bytes, n - k + 1, n) \in Seq(Byte) /\ Len(SubSeq(bytes, n - k + 1, n)) = k
  BY <1>1, <1>2
<1> QED BY <1>1, <1>2, <1>4, <1>5 DEF a

\* Programming changes the bytes behind the offset, and no more than it has data for.
LEMMA ProgrammedIs ==
  ASSUME slot \in [1..SlotSize -> Byte], NEW offset \in Nat, NEW data \in Seq(Byte)
  PROVE  /\ Programmed(offset, data) \in [1..SlotSize -> Byte]
         /\ \A i \in 1..SlotSize :
              i <= offset \/ offset + Len(data) < i => Programmed(offset, data)[i] = slot[i]
<1>1. ASSUME NEW i \in 1..SlotSize, offset < i, i <= offset + Len(data)
      PROVE  data[i - offset] \in Byte
  <2>1. i - offset \in 1..Len(data)
    BY <1>1
  <2> QED BY <2>1
<1> QED BY <1>1 DEF Programmed

LEMMA ErasedToIs ==
  ASSUME slot \in [1..SlotSize -> Byte], NEW n \in Int
  PROVE  /\ ErasedTo(n) \in [1..SlotSize -> Byte]
         /\ \A i \in 1..SlotSize : ErasedTo(n)[i] \in {slot[i], Erased}
         /\ \A i \in 1..SlotSize : i <= n => ErasedTo(n)[i] = Erased
<1>1. Erased \in Byte
  BY DEF Erased, Byte
<1> QED BY <1>1 DEF ErasedTo

LEMMA EraseStopsIs ==
  ASSUME slot \in [1..SlotSize -> Byte], NEW n \in Nat, EraseStops(n)
  PROVE  /\ slot' \in [1..SlotSize -> Byte]
         /\ \A i \in 1..SlotSize : slot'[i] \in {slot[i], Erased}
<1>1. PICK sectors \in 0..((n \div EraseSize) - 1) : slot' = ErasedTo(sectors * EraseSize)
  BY DEF EraseStops
<1>2. sectors * EraseSize \in Int
  BY SlotAssumption
<1> QED BY <1>1, <1>2, ErasedToIs

-----------------------------------------------------------------------------
(* The writer                                                              *)

LEMMA IdleWriterIs ==
  /\ IdleWriter \in Writer
  /\ ~IdleWriter.active /\ ~IdleWriter.finalized /\ ~IdleWriter.prepared
BY SlotAssumption DEF IdleWriter, Writer

LEMMA EmptyPending == <<>> \in Seq(Byte) /\ Len(<<>>) < ProgSize
BY SlotAssumption

\* An idle writer asks for nothing.
LEMMA IdleIsGood ==
  ASSUME slot' \in [1..SlotSize -> Byte], writer' = IdleWriter, pending' = <<>>
  PROVE  WriterInv' /\ ~writer'.active
BY IdleWriterIs, EmptyPending DEF WriterInv, IapTypeOK

\* A begin leaves erased flash where the image goes.
LEMMA BeginIs ==
  ASSUME WriterInv, NEW len \in Nat, Begin(len), pending' = <<>>
  PROVE  WriterInv' /\ writer'.active /\ ~writer'.finalized /\ ~writer.active /\ Clean
<1>1. len \in 1..SlotSize /\ ~writer.active
  BY DEF Begin, MayBegin
<1>2. writer' = [IdleWriter EXCEPT !.active = TRUE, !.expected = len]
  BY DEF Begin
<1>3. /\ writer' \in Writer /\ writer'.active /\ ~writer'.finalized /\ ~writer'.prepared
      /\ writer'.expected = len /\ writer'.payload = <<>>
  <2>1. writer' = [active |-> TRUE, finalized |-> FALSE, prepared |-> FALSE, expected |-> len,
                   payload |-> <<>>, verifying |-> FALSE, readback |-> <<>>]
    BY <1>2 DEF IdleWriter
  <2>2. len \in 0..SlotSize /\ <<>> \in Seq(Byte)
    BY <1>1, EmptyPending
  <2> QED BY <2>1, <2>2 DEF Writer
<1>4. slot \in [1..SlotSize -> Byte]
  BY DEF WriterInv, IapTypeOK
<1>5. /\ slot' \in [1..SlotSize -> Byte] /\ Clean
      /\ \A i \in 1..SlotSize : i <= len => slot'[i] = Erased
  <2>1. CASE writer.prepared
    <3>1. slot' = slot
      BY <2>1 DEF Begin
    <3>2. \A i \in 1..SlotSize : slot[i] = Erased
      BY <2>1 DEF WriterInv
    <3> QED BY <3>1, <3>2, <1>4 DEF Clean
  <2>2. CASE ~writer.prepared
    <3> DEFINE e == RoundUp(len)
    <3>1. slot' = ErasedTo(e)
      BY <2>2 DEF Begin
    <3>2. e \in Nat /\ len <= e
      BY RoundUpCovers
    <3> HIDE DEF e
    <3>3. /\ slot' \in [1..SlotSize -> Byte]
          /\ \A i \in 1..SlotSize : slot'[i] \in {slot[i], Erased}
          /\ \A i \in 1..SlotSize : i <= e => slot'[i] = Erased
      BY <1>4, <3>1, <3>2, ErasedToIs
    <3>4. \A i \in 1..SlotSize : i <= len => slot'[i] = Erased
      BY <3>2, <3>3
    <3> QED BY <3>3, <3>4 DEF Clean
  <2> QED BY <2>1, <2>2
<1>6. IapTypeOK'
  BY <1>3, <1>5, EmptyPending DEF IapTypeOK
<1>7. \A i \in 1..SlotSize : Len(writer'.payload) < i /\ i <= writer'.expected => slot'[i] = Erased
  BY <1>3, <1>5
<1> QED BY <1>1, <1>3, <1>5, <1>6, <1>7 DEF WriterInv

\* Flash words go behind those that are there.
LEMMA WriteChunkIs ==
  ASSUME WriterInv, NEW offset \in Nat, NEW data \in Seq(Byte), writer.active,
         WriteChunk(offset, data)
  PROVE  WriterInv' /\ writer'.active /\ ~writer'.finalized /\ Clean
<1> DEFINE bytes == pending \o data
           a == Aligned(bytes)
           n == Len(writer.payload)
           p == writer.payload \o a
<1>1. bytes \in Seq(Byte) /\ n \in Nat /\ slot \in [1..SlotSize -> Byte] /\ writer \in Writer
  BY DEF WriterInv, IapTypeOK, Writer
<1>2. /\ slot' = Programmed(n, a)
      /\ writer' = [writer EXCEPT !.payload = p]
      /\ pending' = SubSeq(bytes, Len(a) + 1, Len(bytes))
      /\ MayIngest(offset, data)
  BY DEF WriteChunk
<1>3. a \in Seq(Byte) /\ pending' \in Seq(Byte) /\ Len(pending') < ProgSize
  BY <1>1, <1>2, AlignedIs
<1>4. Len(a) = 0 \/ n + Len(a) <= writer.expected
  BY <1>2 DEF MayIngest, MayWrite
<1>5. p \in Seq(Byte) /\ Len(p) = n + Len(a)
  BY <1>1, <1>3 DEF Writer
<1> HIDE DEF a, p, bytes
<1>6. /\ writer' \in Writer /\ writer'.payload = p /\ writer'.expected = writer.expected
      /\ writer'.active = writer.active /\ writer'.finalized = writer.finalized
      /\ writer'.prepared = writer.prepared
  BY <1>1, <1>2, <1>5 DEF Writer
<1> DEFINE erased == \A i \in 1..SlotSize : n < i /\ i <= writer.expected => slot[i] = Erased
<1>7. erased
  BY DEF WriterInv
<1>8. /\ slot' \in [1..SlotSize -> Byte]
      /\ \A i \in 1..SlotSize : i <= n \/ n + Len(a) < i => slot'[i] = slot[i]
  BY <1>1, <1>2, <1>3, ProgrammedIs
<1> HIDE DEF n
<1>9. Clean
  <2> SUFFICES ASSUME NEW i \in 1..SlotSize, slot'[i] # slot[i]
               PROVE  slot[i] = Erased
    BY DEF Clean
  <2>1. n < i /\ i <= n + Len(a)
    BY <1>1, <1>3, <1>8
  <2>2. i <= writer.expected
    BY <1>1, <1>3, <1>4, <2>1 DEF Writer
  <2> QED BY <1>7, <2>1, <2>2
<1>10. \A i \in 1..SlotSize : Len(p) < i /\ i <= writer.expected => slot'[i] = Erased
  <2> SUFFICES ASSUME NEW i \in 1..SlotSize, Len(p) < i, i <= writer.expected
               PROVE  slot'[i] = Erased
    OBVIOUS
  <2>1. n < i /\ n + Len(a) < i
    BY <1>1, <1>3, <1>5
  <2> QED BY <1>7, <1>8, <2>1
<1>11. IapTypeOK'
  BY <1>3, <1>6, <1>8 DEF IapTypeOK
<1>12. ~writer.finalized /\ ~writer.prepared
  BY DEF WriterInv
<1> QED BY <1>6, <1>9, <1>10, <1>11, <1>12 DEF WriterInv

\* Flash that fails has programmed some of the words.
LEMMA WriteChunkFailsIs ==
  ASSUME WriterInv, NEW offset \in Nat, NEW data \in Seq(Byte), writer.active,
         WriteChunkFails(offset, data)
  PROVE  WriterInv' /\ ~writer'.active /\ Clean
<1> DEFINE a == Aligned(pending \o data)
           n == Len(writer.payload)
<1>1. /\ n \in Nat /\ slot \in [1..SlotSize -> Byte] /\ writer.expected \in 0..SlotSize
      /\ pending \o data \in Seq(Byte)
  BY DEF WriterInv, IapTypeOK, Writer
<1>2. a \in Seq(Byte)
  BY <1>1, AlignedIs
<1>3. Len(a) = 0 \/ n + Len(a) <= writer.expected
  BY DEF WriteChunkFails, MayIngest, MayWrite
<1>4. PICK words \in 0..((Len(a) \div ProgSize) - 1) :
        slot' = Programmed(n, SubSeq(a, 1, words * ProgSize))
  BY DEF WriteChunkFails
<1> DEFINE d == SubSeq(a, 1, words * ProgSize)
<1> HIDE DEF a
<1>5. words * ProgSize \in 0..Len(a)
  <2> DEFINE P == ProgSize
             q == Len(a) \div P
             m == Len(a)
  <2>1. P \in Nat /\ P > 0 /\ m \in Nat
    BY <1>2, SlotAssumption
  <2>2. words \in 0..(q - 1)
    BY <1>4
  <2>3. q \in Nat /\ P * q <= m
    <3> HIDE DEF P, m
    <3>1. m = P * (m \div P) + (m % P) /\ m % P \in 0..P - 1 /\ m \div P \in Nat
      BY <2>1
    <3>2. P * (m \div P) \in Nat
      BY <2>1, <3>1
    <3> QED BY <2>1, <3>1, <3>2 DEF m
  <2> HIDE DEF q, P, m
  <2>4. words \in Nat /\ words <= q
    BY <2>2, <2>3
  <2>5. words * P <= q * P /\ words * P \in Nat
    BY <2>1, <2>3, <2>4
  <2>6. q * P = P * q
    BY <2>1, <2>3
  <2> QED BY <2>1, <2>3, <2>5, <2>6 DEF P, m
<1>6. d \in Seq(Byte) /\ Len(d) <= Len(a)
  <2> DEFINE k == words * ProgSize
  <2>1. k \in 0..Len(a)
    BY <1>5
  <2> HIDE DEF k
  <2>2. SubSeq(a, 1, k) \in Seq(Byte) /\ Len(SubSeq(a, 1, k)) = k
    BY <1>2, <2>1
  <2> QED BY <2>1, <2>2 DEF k
<1> HIDE DEF d
<1>7. slot' = Programmed(n, d)
  BY <1>4 DEF d
<1>8. /\ slot' \in [1..SlotSize -> Byte]
      /\ \A i \in 1..SlotSize : i <= n \/ n + Len(d) < i => slot'[i] = slot[i]
  BY <1>1, <1>6, <1>7, ProgrammedIs
<1>9. \A i \in 1..SlotSize : n < i /\ i <= writer.expected => slot[i] = Erased
  BY DEF WriterInv
<1> HIDE DEF n
<1>10. Clean
  <2> SUFFICES ASSUME NEW i \in 1..SlotSize, slot'[i] # slot[i]
               PROVE  slot[i] = Erased
    BY DEF Clean
  <2>1. n < i /\ i <= n + Len(d)
    BY <1>1, <1>6, <1>8
  <2>2. i <= writer.expected
    BY <1>1, <1>2, <1>3, <1>6, <2>1
  <2> QED BY <1>9, <2>1, <2>2
<1>11. writer' = IdleWriter /\ pending' = <<>>
  BY DEF WriteChunkFails, Abort
<1> QED BY <1>8, <1>10, <1>11, IdleIsGood

\* The image is complete.
LEMMA FinalizeIs ==
  ASSUME WriterInv, Finalize
  PROVE  /\ WriterInv' /\ writer'.finalized /\ ~writer'.active /\ ~writer'.verifying
         /\ slot' = slot
<1>1. writer.active /\ Len(writer.payload) = writer.expected
  BY DEF Finalize, MayFinalize
<1>2. /\ writer' = [writer EXCEPT !.active = FALSE, !.finalized = TRUE,
                                  !.verifying = FALSE, !.readback = <<>>]
      /\ slot' = slot /\ pending' = pending
  BY DEF Finalize
<1>3. writer \in Writer /\ <<>> \in Seq(Byte)
  BY EmptyPending DEF WriterInv, IapTypeOK
<1>4. /\ writer' \in Writer /\ ~writer'.active /\ writer'.finalized /\ ~writer'.verifying
      /\ writer'.prepared = writer.prepared /\ writer'.payload = writer.payload
      /\ writer'.expected = writer.expected
  BY <1>2, <1>3 DEF Writer
<1>5. IapTypeOK'
  BY <1>2, <1>4 DEF WriterInv, IapTypeOK
<1>6. ~writer.prepared
  BY <1>1 DEF WriterInv
<1> QED BY <1>1, <1>2, <1>4, <1>5, <1>6 DEF WriterInv

\* The slot as a sequence.
LEMMA SlotIsSeq ==
  ASSUME slot \in [1..SlotSize -> Byte]
  PROVE  slot \in Seq(Byte) /\ Len(slot) = SlotSize
BY SlotAssumption

LEMMA ReadbackType ==
  ASSUME IapTypeOK
  PROVE  Readback \in Seq(Byte)
<1> DEFINE start == IF writer.verifying THEN Len(writer.readback) ELSE 0
           end == IF start + VerifySize < writer.expected THEN start + VerifySize
                                                          ELSE writer.expected
<1>1. /\ writer.readback \in Seq(Byte) /\ writer.expected \in 0..SlotSize
      /\ slot \in Seq(Byte) /\ Len(slot) = SlotSize
  BY SlotIsSeq DEF IapTypeOK, Writer
<1>2. start \in 0..Len(writer.readback)
  BY <1>1
<1>3. end \in 0..SlotSize
  <2> HIDE DEF start
  <2> QED BY <1>1, <1>2, SlotAssumption
<1>4. Readback = SubSeq(writer.readback, 1, start) \o SubSeq(slot, start + 1, end)
  BY DEF Readback
<1> HIDE DEF start, end
<1>5. SubSeq(writer.readback, 1, start) \in Seq(Byte)
  BY <1>1, <1>2
<1>6. SubSeq(slot, start + 1, end) \in Seq(Byte)
  <2>1. \A i \in start + 1 .. end : slot[i] \in Byte
    BY <1>1, <1>2, <1>3
  <2>2. start + 1 \in Int /\ end \in Int
    BY <1>1, <1>2, <1>3
  <2> QED BY <2>1, <2>2, SubSeqProperties
<1> QED BY <1>4, <1>5, <1>6

\* The next buffer continues what the slot holds.
LEMMA ReadbackContinues ==
  ASSUME IapTypeOK, writer.verifying => ReadbackInv
  PROVE  /\ Len(Readback) <= writer.expected
         /\ Readback = SubSeq(slot, 1, Len(Readback))
<1> DEFINE start == IF writer.verifying THEN Len(writer.readback) ELSE 0
           end == IF start + VerifySize < writer.expected THEN start + VerifySize
                                                          ELSE writer.expected
           front == SubSeq(writer.readback, 1, start)
<1>1. /\ writer.readback \in Seq(Byte) /\ writer.expected \in 0..SlotSize
      /\ slot \in Seq(Byte) /\ Len(slot) = SlotSize
  BY SlotIsSeq DEF IapTypeOK, Writer
<1>2. start \in 0..writer.expected /\ front = SubSeq(slot, 1, start)
  <2>1. CASE writer.verifying
    <3>1. /\ Len(writer.readback) <= writer.expected
          /\ writer.readback = SubSeq(slot, 1, Len(writer.readback))
      BY <2>1 DEF ReadbackInv
    <3>2. start = Len(writer.readback)
      BY <2>1
    <3>3. front = writer.readback
      BY <1>1, <3>2, SubSeqFull
    <3> QED BY <1>1, <3>1, <3>2, <3>3
  <2>2. CASE ~writer.verifying
    <3>1. start = 0
      BY <2>2
    <3>2. front = <<>> /\ SubSeq(slot, 1, start) = <<>>
      BY <3>1, SubSeqEmpty
    <3> QED BY <1>1, <3>1, <3>2
  <2> QED BY <2>1, <2>2
<1>3. end \in start..SlotSize /\ end <= writer.expected
  <2> HIDE DEF start, front
  <2> QED BY <1>1, <1>2, SlotAssumption
<1>4. Readback = front \o SubSeq(slot, start + 1, end)
  BY DEF Readback
<1> HIDE DEF start, end, front
<1>5. start \in 0..Len(slot) /\ end \in start..Len(slot)
  BY <1>1, <1>2, <1>3, SlotAssumption
<1>6. Readback = SubSeq(slot, 1, end)
  <2>1. 1 \in 1..Len(slot) + 1 /\ start \in 1 - 1 .. Len(slot)
    BY <1>1, <1>5, SlotAssumption
  <2>2. SubSeq(slot, 1, start) \o SubSeq(slot, start + 1, end) = SubSeq(slot, 1, end)
    BY <1>1, <1>5, <2>1, ConcatAdjacentSubSeq
  <2> QED BY <1>2, <1>4, <2>2
<1>7. Len(SubSeq(slot, 1, end)) = end
  BY <1>1, <1>5
<1> QED BY <1>3, <1>6, <1>7

\* A step of the verification says "verified" only of a slot that holds the image.
LEMMA VerifyStepIs ==
  ASSUME WriterInv, VerifyInv, verify \in {"pending", "verifying"}, VerifyStep(verify')
  PROVE  /\ WriterInv' /\ slot' = slot
         /\ writer'.active = writer.active /\ writer'.finalized = writer.finalized
         /\ writer.finalized /\ ~writer.active
         /\ verify' \in {"error", "verified", "verifying"}
         /\ ~unheeded /\ verify' = "verifying" => ReadbackInv'
         /\ ~unheeded /\ verify' = "verified" => HoldsImage'
<1> DEFINE r == Readback
           done == Len(r) = writer.expected
           good == ~done \/ r = writer.payload
           more == ~(done /\ good)
<1>1. writer.finalized /\ ~writer.active
  BY DEF VerifyInv
<1>2. /\ verify' = IF ~good THEN "error" ELSE IF done THEN "verified" ELSE "verifying"
      /\ writer' = [writer EXCEPT !.readback = r, !.verifying = more]
      /\ slot' = slot /\ pending' = pending
  BY <1>1 DEF VerifyStep
<1>3. r \in Seq(Byte)
  BY ReadbackType DEF WriterInv
<1>4. ~unheeded => Len(r) <= writer.expected /\ r = SubSeq(slot, 1, Len(r))
  <2>1. ~unheeded => (writer.verifying => ReadbackInv)
    BY DEF VerifyInv
  <2>2. IapTypeOK
    BY DEF WriterInv
  <2> QED BY <2>1, <2>2, ReadbackContinues
<1>5. writer \in Writer /\ more \in BOOLEAN
  BY DEF WriterInv, IapTypeOK
<1> HIDE DEF r
<1>6. verify' = "verified" => done /\ r = writer.payload
  BY <1>2
<1>7. verify' \in {"error", "verified", "verifying"}
  BY <1>2
<1> HIDE DEF more, done, good
<1>8. /\ writer' \in Writer /\ writer'.active = writer.active
      /\ writer'.finalized = writer.finalized /\ writer'.prepared = writer.prepared
      /\ writer'.payload = writer.payload /\ writer'.expected = writer.expected
      /\ writer'.readback = r
  BY <1>2, <1>3, <1>5 DEF Writer
<1>9. WriterInv'
  <2>1. IapTypeOK'
    BY <1>2, <1>8 DEF WriterInv, IapTypeOK
  <2> QED BY <1>1, <1>2, <1>8, <2>1 DEF WriterInv
<1>10. ~unheeded => ReadbackInv'
  BY <1>2, <1>4, <1>8 DEF ReadbackInv
<1>11. ~unheeded /\ verify' = "verified" => HoldsImage'
  BY <1>2, <1>4, <1>6, <1>8 DEF HoldsImage, done
<1> QED BY <1>1, <1>2, <1>7, <1>8, <1>9, <1>10, <1>11

-----------------------------------------------------------------------------
(* Parts that a step leaves alone                                          *)

LEMMA SlotKept ==
  ASSUME slot' = slot
  PROVE  Clean
BY DEF Clean

LEMMA WriterKept ==
  ASSUME WriterInv, UNCHANGED iapVars
  PROVE  WriterInv' /\ Clean
BY SlotKept DEF WriterInv, IapTypeOK, iapVars

LEMMA VerifyKept ==
  ASSUME VerifyInv, UNCHANGED <<slot, writer, verify, certified, unheeded>>
  PROVE  VerifyInv'
BY DEF VerifyInv, ReadbackInv, HoldsImage

\* Nothing is said of a slot that is not being verified.
LEMMA VerifyEnds ==
  ASSUME VerifyInv, verify' \in {"idle", "error"}, UNCHANGED certified, unheeded' \in BOOLEAN
  PROVE  VerifyInv'
BY DEF VerifyInv

LEMMA VerifyOff ==
  ASSUME VerifyInv, writer.active, UNCHANGED <<verify, certified>>, unheeded' \in BOOLEAN
  PROVE  VerifyInv'
BY DEF VerifyInv

LEMMA MarkKept ==
  ASSUME MarkInv, UNCHANGED <<slot, phase, logger, applying, marker, certified, unheeded>>
  PROVE  MarkInv'
BY DEF MarkInv

\* The record is not there while callbacks run.
LEMMA MarkInCallback ==
  ASSUME MarkInv, phase = "http", UNCHANGED <<phase, logger, applying, marker, unheeded>>
  PROVE  MarkInv'
BY DEF MarkInv

LEMMA PostChanged ==
  ASSUME post \in [Conns -> Post], NEW c \in Conns, NEW p \in Post,
         post' = [post EXCEPT ![c] = p]
  PROVE  post' \in [Conns -> Post]
OBVIOUS

\* A step that touches neither the writer nor the verification.
LEMMA ServerStep ==
  ASSUME IInv, HttpInv', PipeInv', UNCHANGED <<iapVars, loopVars, certified, unheeded>>
  PROVE  IInv' /\ Clean
<1>1. WriterInv' /\ Clean
  BY WriterKept DEF IInv
<1>2. VerifyInv'
  BY VerifyKept DEF IInv, iapVars, loopVars
<1>3. MarkInv'
  BY MarkKept DEF IInv, iapVars, loopVars
<1> QED BY <1>1, <1>2, <1>3 DEF IInv

-----------------------------------------------------------------------------
(* The map of connections                                                  *)

LEMMA FreeEntryIs == FreeEntry \in Entry /\ ~FreeEntry.active /\ FreeEntry.conn = NoConn
BY DEF FreeEntry, Entry

LEMMA NewEntryIs ==
  ASSUME NEW c \in Conns, NEW mode \in {"form", "upload"}, NEW len \in Nat
  PROVE  /\ NewEntry(c, mode, len) \in Entry
         /\ NewEntry(c, mode, len).conn = c /\ NewEntry(c, mode, len).mode = mode
         /\ ~NewEntry(c, mode, len).active
BY DEF NewEntry, FreeEntry, Entry

\* An entry is put into a free place, the others stay.
LEMMA AllocatedIs ==
  ASSUME HttpInv, EntriesOf(map, NoConn) # {}, NEW e \in Entry
  PROVE  /\ Allocated(e) \in [1..NumEntries -> Entry]
         /\ \E f \in 1..NumEntries :
              Allocated(e)[f] = e /\ \A j \in 1..NumEntries \ {f} : Allocated(e)[j] = map[j]
<1> DEFINE f == First(EntriesOf(map, NoConn))
<1>1. map \in [1..NumEntries -> Entry]
  BY DEF HttpInv
<1>2. f \in 1..NumEntries
  BY <1>1, FirstEntry
<1>3. Allocated(e) = [map EXCEPT ![f] = e]
  BY DEF Allocated
<1> HIDE DEF f
<1> QED BY <1>1, <1>2, <1>3

\* One entry of the connection goes, the others stay.
LEMMA FreedIs ==
  ASSUME NEW m \in [1..NumEntries -> Entry], NEW c, EntriesOf(m, c) # {}
  PROVE  /\ Freed(m, c) \in [1..NumEntries -> Entry]
         /\ Freed(m, c)[First(EntriesOf(m, c))] = FreeEntry
         /\ \A i \in 1..NumEntries \ {First(EntriesOf(m, c))} : Freed(m, c)[i] = m[i]
         /\ \A i \in 1..NumEntries : Freed(m, c)[i] = FreeEntry \/ Freed(m, c)[i] = m[i]
<1> DEFINE f == First(EntriesOf(m, c))
<1>1. f \in 1..NumEntries /\ m[f].conn = c
  BY FirstEntry
<1>2. Freed(m, c) = [m EXCEPT ![f] = FreeEntry]
  BY DEF Freed
<1> HIDE DEF f
<1>3. /\ Freed(m, c) \in [1..NumEntries -> Entry]
      /\ Freed(m, c)[f] = FreeEntry
      /\ \A j \in 1..NumEntries \ {f} : Freed(m, c)[j] = m[j]
  BY <1>1, <1>2, FreeEntryIs
<1> QED BY <1>1, <1>3 DEF f

\* No step that only frees entries makes a second pipeline.
LEMMA PipesShrink ==
  ASSUME HttpInv, HttpInv', PipeInv,
         \A i \in 1..NumEntries : map'[i].active => map[i].active /\ map'[i].conn = map[i].conn
                                                    /\ map'[i].mode = map[i].mode,
         (\E i \in 1..NumEntries : map'[i].active) => writer'.active,
         upload' \in {"idle", "in_progress", "ready", "error"}, StatusTellsWriter'
  PROVE  PipeInv'
<1>1. DOMAIN map = 1..NumEntries /\ DOMAIN map' = 1..NumEntries
  BY DEF HttpInv
<1>2. \A i, j \in 1..NumEntries : map'[i].active /\ map'[j].active => i = j
  BY <1>1 DEF PipeInv, OnePipeline
<1>3. OnePipeline'
  BY <1>1, <1>2 DEF OnePipeline
<1> QED BY <1>3 DEF PipeInv

LEMMA PipesKept ==
  ASSUME HttpInv, HttpInv', PipeInv, UNCHANGED <<map, upload>>,
         writer'.active = writer.active, writer'.finalized = writer.finalized
  PROVE  PipeInv'
<1>1. DOMAIN map = 1..NumEntries
  BY DEF HttpInv
<1> QED BY <1>1 DEF PipeInv, OnePipeline, StatusTellsWriter

\* An active entry is the only one, and the writer works for it.
LEMMA ActiveIs ==
  ASSUME HttpInv, PipeInv, NEW i \in 1..NumEntries, map[i].active
  PROVE  writer.active /\ \A j \in 1..NumEntries : map[j].active => j = i
<1>1. DOMAIN map = 1..NumEntries
  BY DEF HttpInv
<1> QED BY <1>1 DEF PipeInv, OnePipeline

-----------------------------------------------------------------------------
(* httpd_post_begin                                                        *)

LEMMA PostRepeatsStep ==
  ASSUME IInv, NEW c \in Conns, PostRepeats(c)
  PROVE  IInv' /\ Clean
<1>1. /\ posts' = posts + 1 /\ UNCHANGED <<post, finishing, map, current, upload>>
      /\ UNCHANGED <<iapVars, loopVars, certified, unheeded>>
  BY DEF PostRepeats, Posted, httpVars
<1>2. HttpInv'
  BY <1>1 DEF IInv, HttpInv, EntriesOf
<1>3. writer'.active = writer.active /\ writer'.finalized = writer.finalized
  BY <1>1 DEF iapVars
<1>4. PipeInv'
  BY <1>1, <1>2, <1>3, PipesKept DEF IInv
<1> QED BY <1>1, <1>2, <1>4, ServerStep

LEMMA PostFindsNoEntryStep ==
  ASSUME IInv, NEW c \in Conns, PostFindsNoEntry(c)
  PROVE  IInv' /\ Clean
<1>1. /\ posts' = posts + 1 /\ UNCHANGED <<post, finishing, map, upload>> /\ current' = NoConn
      /\ UNCHANGED <<iapVars, loopVars, certified, unheeded>>
  BY DEF PostFindsNoEntry, Posted
<1>2. HttpInv'
  BY <1>1 DEF IInv, HttpInv, EntriesOf
<1>3. writer'.active = writer.active /\ writer'.finalized = writer.finalized
  BY <1>1 DEF iapVars
<1>4. PipeInv'
  BY <1>1, <1>2, <1>3, PipesKept DEF IInv
<1> QED BY <1>1, <1>2, <1>4, ServerStep

\* The server's side of a request that is accepted, with its entry.
LEMMA AcceptedIs ==
  ASSUME HttpInv, NEW c \in Conns, NEW len \in Nat, NEW e \in Entry, e.conn = c,
         EntriesOf(map, NoConn) # {}, posts' = posts + 1,
         Accepted(c, len), map' = Allocated(e)
  PROVE  HttpInv'
<1> DEFINE p == [NoPost EXCEPT !.id = posts', !.len = len]
<1>1. posts' \in Nat
  BY DEF HttpInv
<1>2. p \in Post
  BY <1>1 DEF NoPost, Post
<1>3. post' = [post EXCEPT ![c] = p] /\ finishing' \in {c, NoConn} /\ current' = c
  BY DEF Accepted
<1> HIDE DEF p
<1>4. post' \in [Conns -> Post]
  BY <1>2, <1>3, PostChanged DEF HttpInv
<1>5. map' \in [1..NumEntries -> Entry] /\ \E f \in 1..NumEntries : map'[f] = e
  BY AllocatedIs
<1>6. EntriesOf(map', c) # {}
  BY <1>5 DEF EntriesOf
<1> QED BY <1>1, <1>3, <1>4, <1>5, <1>6 DEF HttpInv

LEMMA PostFormStep ==
  ASSUME IInv, NEW c \in Conns, NEW len \in BodySizes, PostForm(c, len)
  PROVE  IInv' /\ Clean
<1> DEFINE e == NewEntry(c, "form", len)
<1>1. len \in Nat
  BY UpdateAssumption
<1>2. e \in Entry /\ e.conn = c /\ ~e.active
  BY <1>1, NewEntryIs
<1>3. /\ posts' = posts + 1 /\ EntriesOf(map, NoConn) # {} /\ Accepted(c, len)
      /\ map' = Allocated(e) /\ UNCHANGED upload
      /\ UNCHANGED <<iapVars, loopVars, certified, unheeded>>
  BY DEF PostForm, Posted
<1> HIDE DEF e
<1>4. HttpInv /\ PipeInv
  BY DEF IInv
<1>5. HttpInv'
  BY <1>1, <1>2, <1>3, <1>4, AcceptedIs
<1>6. \A i \in 1..NumEntries : map'[i].active =>
        map[i].active /\ map'[i].conn = map[i].conn /\ map'[i].mode = map[i].mode
  BY <1>2, <1>3, <1>4, AllocatedIs
<1>7. writer' = writer
  BY <1>3 DEF iapVars
<1>8. (\E i \in 1..NumEntries : map'[i].active) => writer'.active
  BY <1>4, <1>6, <1>7, ActiveIs
<1>9. upload' \in {"idle", "in_progress", "ready", "error"} /\ StatusTellsWriter'
  BY <1>3, <1>4, <1>7 DEF PipeInv, StatusTellsWriter
<1>10. PipeInv'
  BY <1>4, <1>5, <1>6, <1>8, <1>9, PipesShrink
<1> QED BY <1>3, <1>5, <1>10, ServerStep

\* An upload begins: no other pipeline is active, since the writer was not.
LEMMA PostUploadStep ==
  ASSUME IInv, NEW c \in Conns, NEW len \in BodySizes, PostUpload(c, len)
  PROVE  IInv' /\ Clean
<1> DEFINE e0 == NewEntry(c, "upload", len)
           e == [e0 EXCEPT !.active = TRUE]
<1>1. len \in Nat /\ c # NoConn
  BY UpdateAssumption
<1>2. e0 \in Entry /\ e0.conn = c /\ e0.mode = "upload"
  BY <1>1, NewEntryIs
<1> HIDE DEF e0
<1>3. e \in Entry /\ e.conn = c /\ e.mode = "upload"
  BY <1>2 DEF Entry
<1>4. /\ posts' = posts + 1 /\ EntriesOf(map, NoConn) # {} /\ Accepted(c, len)
      /\ map' = Allocated(e) /\ upload' = "in_progress" /\ verify' = "idle"
      /\ pending' = <<>> /\ Begin(len) /\ phase = "http"
      /\ UNCHANGED <<phase, logger, applying, marker, certified, unheeded>>
  BY DEF PostUpload, Posted, Callback, e0
<1> HIDE DEF e
<1>5. HttpInv /\ PipeInv /\ WriterInv /\ VerifyInv /\ MarkInv
  BY DEF IInv
<1>6. HttpInv'
  BY <1>1, <1>3, <1>4, <1>5, AcceptedIs
<1>7. WriterInv' /\ writer'.active /\ ~writer.active /\ Clean
  BY <1>1, <1>4, <1>5, BeginIs
<1>8. PipeInv'
  <2>1. \A i \in 1..NumEntries : ~map[i].active
    BY <1>5, <1>7, ActiveIs
  <2>2. PICK f \in 1..NumEntries :
          map'[f] = e /\ \A j \in 1..NumEntries \ {f} : map'[j] = map[j]
    BY <1>3, <1>4, <1>5, AllocatedIs
  <2>3. \A i \in 1..NumEntries : map'[i].active => i = f
    BY <2>1, <2>2
  <2>4. DOMAIN map' = 1..NumEntries
    BY <1>6 DEF HttpInv
  <2>5. OnePipeline'
    BY <1>7, <2>3, <2>4 DEF OnePipeline
  <2>6. StatusTellsWriter'
    BY <1>4, <1>7 DEF StatusTellsWriter
  <2>7. \A i \in 1..NumEntries : map'[i].active =>
          map'[i].conn # NoConn /\ map'[i].mode = "upload"
    BY <1>1, <1>3, <2>2, <2>3
  <2> QED BY <1>4, <2>5, <2>6, <2>7 DEF PipeInv
<1>9. VerifyInv'
  BY <1>4, <1>5, VerifyEnds DEF VerifyInv
<1>10. MarkInv'
  BY <1>4, <1>5, MarkInCallback
<1> QED BY <1>6, <1>7, <1>8, <1>9, <1>10 DEF IInv

\* A begin that is refused or fails leaves the writer as it is.
LEMMA RefusedWriter ==
  ASSUME WriterInv, NEW len \in Nat, BeginRefused(len) \/ BeginFails(len),
         pending' \in {pending, <<>>}
  PROVE  WriterInv' /\ writer' = writer /\ Clean
<1>1. writer' = writer
  BY DEF BeginRefused, BeginFails
<1>2. slot \in [1..SlotSize -> Byte] /\ pending' \in Seq(Byte) /\ Len(pending') < ProgSize
  BY EmptyPending DEF WriterInv, IapTypeOK
<1>3. CASE BeginRefused(len)
  <2>1. slot' = slot
    BY <1>3 DEF BeginRefused
  <2> QED BY <1>1, <1>2, <2>1, SlotKept DEF WriterInv, IapTypeOK
<1>4. CASE BeginFails(len)
  <2>1. ~writer.active /\ ~writer.prepared /\ EraseStops(RoundUp(len))
    BY <1>4 DEF BeginFails, MayBegin
  <2>2. slot' \in [1..SlotSize -> Byte] /\ \A i \in 1..SlotSize : slot'[i] \in {slot[i], Erased}
    BY <1>2, <2>1, RoundUpCovers, EraseStopsIs
  <2>3. Clean
    BY <2>2 DEF Clean
  <2> QED BY <1>1, <1>2, <2>1, <2>2, <2>3 DEF WriterInv, IapTypeOK
<1> QED BY <1>3, <1>4

LEMMA PostUploadRefusedStep ==
  ASSUME IInv, NEW c \in Conns, NEW len \in BodySizes, PostUploadRefused(c, len)
  PROVE  IInv' /\ Clean
<1> DEFINE e == NewEntry(c, "upload", len)
           full == Allocated(e)
<1>1. len \in Nat
  BY UpdateAssumption
<1>2. e \in Entry /\ e.conn = c /\ ~e.active
  BY <1>1, NewEntryIs
<1>3. /\ posts' = posts + 1 /\ EntriesOf(map, NoConn) # {} /\ current' = NoConn
      /\ UNCHANGED <<post, finishing>>
      /\ map' = Freed(full, c) /\ upload' = "error" /\ verify' = "idle"
      /\ pending' \in {pending, <<>>} /\ (BeginRefused(len) \/ BeginFails(len))
      /\ phase = "http"
      /\ UNCHANGED <<phase, logger, applying, marker, certified, unheeded>>
  BY DEF PostUploadRefused, Posted, Callback
<1> HIDE DEF e
<1>4. HttpInv /\ PipeInv /\ WriterInv /\ VerifyInv /\ MarkInv
  BY DEF IInv
<1>5. /\ full \in [1..NumEntries -> Entry]
      /\ \E f \in 1..NumEntries : full[f] = e /\ \A j \in 1..NumEntries \ {f} : full[j] = map[j]
  BY <1>2, <1>3, <1>4, AllocatedIs
<1> HIDE DEF full
<1>6. EntriesOf(full, c) # {}
  BY <1>2, <1>5 DEF EntriesOf
<1>7. /\ map' \in [1..NumEntries -> Entry]
      /\ \A i \in 1..NumEntries : map'[i] = FreeEntry \/ map'[i] = full[i]
  <2>1. full \in [1..NumEntries -> Entry]
    BY <1>5
  <2>2. /\ Freed(full, c) \in [1..NumEntries -> Entry]
        /\ \A i \in 1..NumEntries :
             Freed(full, c)[i] = FreeEntry \/ Freed(full, c)[i] = full[i]
    BY <1>6, <2>1, FreedIs
  <2>3. map' = Freed(full, c)
    BY <1>3
  <2> QED BY <2>2, <2>3
<1>8. HttpInv'
  BY <1>3, <1>4, <1>7 DEF HttpInv
<1>9. \A i \in 1..NumEntries : map'[i].active =>
        map[i].active /\ map'[i].conn = map[i].conn /\ map'[i].mode = map[i].mode
  BY <1>2, <1>5, <1>7, FreeEntryIs
<1>10. WriterInv' /\ writer' = writer /\ Clean
  BY <1>1, <1>3, <1>4, RefusedWriter
<1>11. (\E i \in 1..NumEntries : map'[i].active) => writer'.active
  BY <1>4, <1>9, <1>10, ActiveIs
<1>12. StatusTellsWriter' /\ upload' \in {"idle", "in_progress", "ready", "error"}
  BY <1>3 DEF StatusTellsWriter
<1>13. PipeInv'
  BY <1>4, <1>8, <1>9, <1>11, <1>12, PipesShrink
<1>14. VerifyInv'
  BY <1>3, <1>4, VerifyEnds DEF VerifyInv
<1>15. MarkInv'
  BY <1>3, <1>4, MarkInCallback
<1> QED BY <1>8, <1>10, <1>13, <1>14, <1>15 DEF IInv

-----------------------------------------------------------------------------
(* httpd_post_receive_data                                                 *)

LEMMA ReceivedIs ==
  ASSUME HttpInv, NEW c \in Conns, NEW k \in Nat, Received(c, k)
  PROVE  post' \in [Conns -> Post] /\ finishing' \in Conns \cup {NoConn}
<1> DEFINE p == [post[c] EXCEPT !.sent = @ + k]
<1>1. post[c] \in Post
  BY DEF HttpInv
<1>2. p \in Post
  BY <1>1 DEF Post
<1>3. post' = [post EXCEPT ![c] = p] /\ finishing' \in {c, NoConn}
  BY DEF Received
<1> HIDE DEF p
<1> QED BY <1>2, <1>3, PostChanged DEF HttpInv

\* Only the server's side changes.
LEMMA PostsOnly ==
  ASSUME IInv, post' \in [Conns -> Post], finishing' \in Conns \cup {NoConn},
         UNCHANGED <<map, current, upload, posts>>,
         UNCHANGED <<iapVars, loopVars, certified, unheeded>>
  PROVE  IInv' /\ Clean
<1>1. HttpInv'
  BY DEF IInv, HttpInv
<1>2. writer'.active = writer.active /\ writer'.finalized = writer.finalized
  BY DEF iapVars
<1>3. PipeInv'
  BY <1>1, <1>2, PipesKept DEF IInv
<1> QED BY <1>1, <1>3, ServerStep

LEMMA DataRefusedStep ==
  ASSUME IInv, NEW c \in Conns, NEW k \in 1..SlotSize, DataRefused(c, k)
  PROVE  IInv' /\ Clean
<1> DEFINE p == [post[c] EXCEPT !.refused = TRUE]
<1>1. p \in Post
  BY DEF IInv, HttpInv, Post
<1>2. /\ post' = [post EXCEPT ![c] = p] /\ finishing' = finishing
      /\ UNCHANGED <<map, current, upload, posts>>
      /\ UNCHANGED <<iapVars, loopVars, certified, unheeded>>
  BY DEF DataRefused, histVars
<1> HIDE DEF p
<1>3. post' \in [Conns -> Post] /\ finishing' \in Conns \cup {NoConn}
  BY <1>1, <1>2, PostChanged DEF IInv, HttpInv
<1> QED BY <1>2, <1>3, PostsOnly

LEMMA DataElsewhereStep ==
  ASSUME IInv, NEW c \in Conns, NEW k \in 1..SlotSize, DataElsewhere(c, k)
  PROVE  IInv' /\ Clean
<1>1. /\ UNCHANGED <<map, current, upload, posts>>
      /\ UNCHANGED <<iapVars, loopVars, certified, unheeded>>
  BY DEF DataElsewhere, histVars
<1>2. post' \in [Conns -> Post] /\ finishing' \in Conns \cup {NoConn}
  BY SlotAssumption, ReceivedIs DEF DataElsewhere, IInv
<1> QED BY <1>1, <1>2, PostsOnly

\* The entry of the current connection.
LEMMA CurrentEntry ==
  ASSUME HttpInv, NEW c \in Conns, current = c
  PROVE  Lookup(c) \in 1..NumEntries /\ map[Lookup(c)].conn = c /\ EntriesOf(map, c) # {}
<1>1. EntriesOf(map, c) # {} /\ map \in [1..NumEntries -> Entry]
  BY UpdateAssumption DEF HttpInv
<1> QED BY <1>1, FirstEntry DEF Lookup

\* The current entry is changed, but not whose it is.
LEMMA EntryChanged ==
  ASSUME HttpInv, NEW c \in Conns, current = c, NEW e \in Entry, e.conn = c,
         map' = [map EXCEPT ![Lookup(c)] = e],
         post' \in [Conns -> Post], finishing' \in Conns \cup {NoConn},
         UNCHANGED <<current, posts>>
  PROVE  HttpInv'
<1>1. Lookup(c) \in 1..NumEntries
  BY CurrentEntry
<1>2. map' \in [1..NumEntries -> Entry] /\ map'[Lookup(c)] = e
  BY <1>1 DEF HttpInv
<1>3. EntriesOf(map', c) # {}
  BY <1>1, <1>2 DEF EntriesOf
<1> QED BY <1>2, <1>3 DEF HttpInv

LEMMA EntryGrows ==
  ASSUME NEW x \in Entry, NEW n \in Nat
  PROVE  LET e == [x EXCEPT !.received = @ + n]
         IN e \in Entry /\ e.conn = x.conn /\ e.mode = x.mode /\ e.active = x.active
<1> DEFINE r == x.received + n
           e == [x EXCEPT !.received = r]
<1>1. r \in Nat
  BY DEF Entry
<1> HIDE DEF r
<1>2. e \in Entry /\ e.conn = x.conn /\ e.mode = x.mode
  BY <1>1 DEF Entry
<1>3. e.active = x.active
  BY DEF Entry
<1> QED BY <1>2, <1>3 DEF r

\* Data that the pipeline takes.
LEMMA PushTaken ==
  ASSUME IInv, NEW c \in Conns, current = c, NEW n \in Nat, NEW data \in Seq(Byte),
         NEW i, i = Lookup(c), map[i].mode = "upload", map[i].active,
         WriteChunk(map[i].received, data),
         map' = [map EXCEPT ![i].received = @ + n], upload' = "in_progress",
         post' \in [Conns -> Post], finishing' \in Conns \cup {NoConn},
         UNCHANGED <<current, posts, loopVars, certified, unheeded>>, phase = "http"
  PROVE  IInv' /\ Clean
<1> DEFINE e == [map[i] EXCEPT !.received = @ + n]
<1>1. HttpInv /\ PipeInv /\ WriterInv /\ VerifyInv /\ MarkInv
  BY DEF IInv
<1>2. i \in 1..NumEntries /\ map[i] \in Entry /\ map[i].conn = c
  BY <1>1, CurrentEntry DEF HttpInv
<1>3. /\ e \in Entry /\ e.conn = c /\ e.mode = map[i].mode /\ e.active = map[i].active
      /\ map' = [map EXCEPT ![i] = e]
  <2>1. e \in Entry /\ e.conn = map[i].conn /\ e.mode = map[i].mode /\ e.active = map[i].active
    BY <1>2, EntryGrows
  <2>2. map' = [map EXCEPT ![i] = e]
    OBVIOUS
  <2> QED BY <1>2, <2>1, <2>2
<1> HIDE DEF e
<1>4. HttpInv'
  BY <1>1, <1>3, EntryChanged
<1>5. writer.active /\ map[i].received \in Nat
  BY <1>1, <1>2, ActiveIs DEF Entry
<1>6. WriterInv' /\ writer'.active /\ ~writer'.finalized /\ Clean
  BY <1>1, <1>5, WriteChunkIs
<1>7. PipeInv'
  <2>1. \A j \in 1..NumEntries : map'[j].active =>
          map[j].active /\ map'[j].conn = map[j].conn /\ map'[j].mode = map[j].mode
    BY <1>1, <1>2, <1>3 DEF HttpInv
  <2>2. StatusTellsWriter' /\ upload' \in {"idle", "in_progress", "ready", "error"}
    BY <1>6 DEF StatusTellsWriter
  <2> QED BY <1>1, <1>4, <1>6, <2>1, <2>2, PipesShrink
<1>8. verify' = verify /\ certified' = certified /\ unheeded' \in BOOLEAN
  BY <1>1 DEF loopVars, VerifyInv
<1>9. VerifyInv'
  BY <1>1, <1>5, <1>8, VerifyOff
<1>10. UNCHANGED <<phase, logger, applying, marker, unheeded>>
  BY DEF loopVars
<1>11. MarkInv'
  BY <1>1, <1>10, MarkInCallback
<1> QED BY <1>4, <1>6, <1>7, <1>9, <1>11 DEF IInv

\* Data that the pipeline refuses, or that the flash fails on.
LEMMA PushRefused ==
  ASSUME IInv, NEW c \in Conns, current = c, NEW data \in Seq(Byte),
         NEW i, i = Lookup(c),
         \/ map[i].active /\ WriteChunkRefused(map[i].received, data)
         \/ ~map[i].active /\ UNCHANGED iapVars
         \/ map[i].active /\ WriteChunkFails(map[i].received, data),
         map' = [map EXCEPT ![i].failed = TRUE, ![i].active = FALSE], upload' = "error",
         post' \in [Conns -> Post], finishing' \in Conns \cup {NoConn},
         UNCHANGED <<current, posts, loopVars, certified, unheeded>>, phase = "http"
  PROVE  IInv' /\ Clean
<1> DEFINE e == [map[i] EXCEPT !.failed = TRUE, !.active = FALSE]
<1>1. HttpInv /\ PipeInv /\ WriterInv /\ VerifyInv /\ MarkInv
  BY DEF IInv
<1>2. i \in 1..NumEntries /\ map[i] \in Entry /\ map[i].conn = c
  BY <1>1, CurrentEntry DEF HttpInv
<1>3. /\ e \in Entry /\ e.conn = c /\ ~e.active
      /\ map' = [map EXCEPT ![i] = e]
  BY <1>2 DEF Entry, HttpInv
<1> HIDE DEF e
<1>4. HttpInv'
  BY <1>1, <1>3, EntryChanged
<1>5. \A j \in 1..NumEntries : map'[j].active =>
        map[j].active /\ map'[j].conn = map[j].conn /\ map'[j].mode = map[j].mode /\ j # i
  BY <1>1, <1>2, <1>3 DEF HttpInv
<1>6. StatusTellsWriter' /\ upload' \in {"idle", "in_progress", "ready", "error"}
  BY DEF StatusTellsWriter
<1>7. verify' = verify /\ certified' = certified /\ unheeded' \in BOOLEAN
  BY <1>1 DEF loopVars, VerifyInv
<1>8. UNCHANGED <<phase, logger, applying, marker, unheeded>>
  BY DEF loopVars
<1>9. MarkInv'
  BY <1>1, <1>8, MarkInCallback
<1>10. CASE ~map[i].active
  <2>1. UNCHANGED iapVars
    BY <1>10
  <2>2. WriterInv' /\ Clean /\ slot' = slot /\ writer' = writer
    BY <1>1, <2>1, WriterKept DEF iapVars
  <2>3. (\E j \in 1..NumEntries : map'[j].active) => writer'.active
    BY <1>1, <1>5, <2>2, ActiveIs
  <2>4. PipeInv'
    BY <1>1, <1>4, <1>5, <1>6, <2>3, PipesShrink
  <2>5. VerifyInv'
    BY <1>1, <1>7, <2>2, VerifyKept
  <2> QED BY <1>4, <1>9, <2>2, <2>4, <2>5 DEF IInv
<1>11. CASE map[i].active
  <2>1. writer.active /\ map[i].received \in Nat /\ \A j \in 1..NumEntries : map[j].active => j = i
    BY <1>1, <1>2, <1>11, ActiveIs DEF Entry
  <2>2. WriterInv' /\ Clean
    <3>1. CASE WriteChunkRefused(map[i].received, data)
      <4>1. slot' = slot /\ writer' = IdleWriter /\ pending' = <<>>
        BY <3>1 DEF WriteChunkRefused, Abort
      <4>2. slot' \in [1..SlotSize -> Byte]
        BY <1>1, <4>1 DEF WriterInv, IapTypeOK
      <4> QED BY <4>1, <4>2, IdleIsGood, SlotKept
    <3>2. CASE WriteChunkFails(map[i].received, data)
      BY <1>1, <2>1, <3>2, WriteChunkFailsIs
    <3> QED BY <1>11, <3>1, <3>2
  <2>3. \A j \in 1..NumEntries : ~map'[j].active
    BY <1>5, <2>1
  <2>4. PipeInv'
    BY <1>1, <1>4, <1>5, <1>6, <2>3, PipesShrink
  <2>5. VerifyInv'
    BY <1>1, <1>7, <2>1, VerifyOff
  <2> QED BY <1>4, <1>9, <2>2, <2>4, <2>5 DEF IInv
<1> QED BY <1>10, <1>11

LEMMA DataPushedStep ==
  ASSUME IInv, NEW c \in Conns, NEW k \in 1..SlotSize, DataPushed(c, k)
  PROVE  IInv' /\ Clean
<1> DEFINE i == Lookup(c)
           rest == map[i].len - map[i].received
           n == IF k < rest THEN k ELSE rest
           data == [j \in 1..n |-> <<post[c].id, post[c].sent + j>>]
<1>1. /\ current = c /\ map[i].mode = "upload" /\ rest > 0 /\ phase = "http"
      /\ Received(c, k)
      /\ UNCHANGED <<current, loopVars, certified, unheeded, posts>>
  BY DEF DataPushed, MayReceive, Callback
<1>2. \/ /\ map[i].active
         /\ WriteChunk(map[i].received, data)
         /\ map' = [map EXCEPT ![i].received = @ + n]
         /\ upload' = "in_progress"
      \/ /\ \/ map[i].active /\ WriteChunkRefused(map[i].received, data)
            \/ ~map[i].active /\ UNCHANGED iapVars
            \/ map[i].active /\ WriteChunkFails(map[i].received, data)
         /\ map' = [map EXCEPT ![i].failed = TRUE, ![i].active = FALSE]
         /\ upload' = "error"
  BY DEF DataPushed
<1>3. HttpInv /\ k \in Nat
  BY SlotAssumption DEF IInv
<1>4. i \in 1..NumEntries /\ map[i] \in Entry /\ post[c] \in Post
  BY <1>1, <1>3, CurrentEntry DEF HttpInv
<1>5. n \in Nat
  <2>1. rest \in Int
    BY <1>4 DEF Entry
  <2> HIDE DEF rest
  <2> QED BY <1>1, <1>3, <2>1
<1>6. data \in Seq(Byte)
  <2> HIDE DEF n
  <2>1. \A j \in 1..n : <<post[c].id, post[c].sent + j>> \in Byte
    BY <1>4, <1>5 DEF Post, Byte
  <2> QED BY <1>5, <2>1
<1>7. post' \in [Conns -> Post] /\ finishing' \in Conns \cup {NoConn}
  BY <1>1, <1>3, ReceivedIs
<1> HIDE DEF data, n, rest
<1>8. i = Lookup(c)
  OBVIOUS
<1> HIDE DEF i
<1> QED BY <1>1, <1>2, <1>5, <1>6, <1>7, <1>8, PushTaken, PushRefused

-----------------------------------------------------------------------------
(* httpd_post_finished                                                     *)

LEMMA ConnectionLostStep ==
  ASSUME IInv, NEW c \in Conns, ConnectionLost(c)
  PROVE  IInv' /\ Clean
<1>1. /\ UNCHANGED <<map, current, upload, posts>>
      /\ UNCHANGED <<iapVars, loopVars, certified, unheeded>>
      /\ finishing' \in {c, finishing}
      /\ post' = post \/ post' = [post EXCEPT ![c] = NoPost]
  BY DEF ConnectionLost, histVars
<1>2. NoPost \in Post
  BY DEF NoPost, Post
<1>3. post' \in [Conns -> Post] /\ finishing' \in Conns \cup {NoConn}
  BY <1>1, <1>2, PostChanged DEF IInv, HttpInv
<1> QED BY <1>1, <1>3, PostsOnly

LEMMA FinishedIs ==
  ASSUME HttpInv, NEW c \in Conns, Finished(c)
  PROVE  post' \in [Conns -> Post] /\ finishing' \in Conns \cup {NoConn}
<1>1. NoPost \in Post
  BY DEF NoPost, Post
<1>2. post' = [post EXCEPT ![c] = NoPost] /\ finishing' = NoConn
  BY DEF Finished
<1> QED BY <1>1, <1>2, PostChanged DEF HttpInv

LEMMA FinishIgnoredStep ==
  ASSUME IInv, NEW c \in Conns, FinishIgnored(c)
  PROVE  IInv' /\ Clean
<1>1. /\ UNCHANGED <<map, current, upload, posts>>
      /\ UNCHANGED <<iapVars, loopVars, certified, unheeded>>
  BY DEF FinishIgnored, histVars
<1>2. post' \in [Conns -> Post] /\ finishing' \in Conns \cup {NoConn}
  BY FinishedIs DEF FinishIgnored, IInv
<1> QED BY <1>1, <1>2, PostsOnly

\* The entry of the current connection goes.
LEMMA ClosedIs ==
  ASSUME HttpInv, NEW c \in Conns, Closed(c), posts' = posts
  PROVE  /\ HttpInv' /\ Lookup(c) \in 1..NumEntries
         /\ \A i \in 1..NumEntries : map'[i].active =>
              /\ map[i].active /\ i # Lookup(c)
              /\ map'[i].conn = map[i].conn /\ map'[i].mode = map[i].mode
<1>1. current = c /\ current' = NoConn /\ map' = Freed(map, c)
  BY DEF Closed
<1>2. post' \in [Conns -> Post] /\ finishing' \in Conns \cup {NoConn}
  BY FinishedIs DEF Closed
<1>3. Lookup(c) \in 1..NumEntries /\ EntriesOf(map, c) # {}
  BY <1>1, CurrentEntry
<1>4. map \in [1..NumEntries -> Entry]
  BY DEF HttpInv
<1>5. /\ Freed(map, c) \in [1..NumEntries -> Entry]
      /\ Freed(map, c)[Lookup(c)] = FreeEntry
      /\ \A i \in 1..NumEntries \ {Lookup(c)} : Freed(map, c)[i] = map[i]
  BY <1>3, <1>4, FreedIs DEF Lookup
<1>6. /\ map' \in [1..NumEntries -> Entry]
      /\ map'[Lookup(c)] = FreeEntry
      /\ \A i \in 1..NumEntries \ {Lookup(c)} : map'[i] = map[i]
  BY <1>1, <1>5
<1>7. HttpInv'
  BY <1>1, <1>2, <1>6 DEF HttpInv
<1> QED BY <1>3, <1>6, <1>7, FreeEntryIs

\* What all ways to finish have in common when the writer stays.
LEMMA CloseOnly ==
  ASSUME IInv, NEW c \in Conns, Closed(c), posts' = posts,
         upload' \in {upload, "error"}, UNCHANGED <<iapVars, loopVars, certified, unheeded>>
  PROVE  IInv' /\ Clean
<1>1. HttpInv /\ PipeInv
  BY DEF IInv
<1>2. /\ HttpInv'
      /\ \A i \in 1..NumEntries : map'[i].active =>
           map[i].active /\ map'[i].conn = map[i].conn /\ map'[i].mode = map[i].mode
  BY <1>1, ClosedIs
<1>3. writer' = writer
  BY DEF iapVars
<1>4. (\E i \in 1..NumEntries : map'[i].active) => writer'.active
  BY <1>1, <1>2, <1>3, ActiveIs
<1>5. StatusTellsWriter' /\ upload' \in {"idle", "in_progress", "ready", "error"}
  BY <1>1, <1>3 DEF PipeInv, StatusTellsWriter
<1>6. PipeInv'
  BY <1>1, <1>2, <1>4, <1>5, PipesShrink
<1> QED BY <1>2, <1>6, ServerStep

LEMMA FinishIncompleteStep ==
  ASSUME IInv, NEW c \in Conns, FinishIncomplete(c)
  PROVE  IInv' /\ Clean
<1>1. /\ Closed(c) /\ posts' = posts /\ upload' = "error" /\ slot' = slot
      /\ UNCHANGED <<loopVars, certified, unheeded>>
      /\ IF map[Lookup(c)].active THEN Abort ELSE UNCHANGED <<writer, pending>>
  BY DEF FinishIncomplete, histVars
<1>2. CASE ~map[Lookup(c)].active
  <2>1. UNCHANGED iapVars
    BY <1>1, <1>2 DEF iapVars
  <2> QED BY <1>1, <2>1, CloseOnly
<1>3. CASE map[Lookup(c)].active
  <2>1. HttpInv /\ PipeInv /\ WriterInv /\ VerifyInv /\ MarkInv
    BY DEF IInv
  <2>2. /\ HttpInv' /\ Lookup(c) \in 1..NumEntries
        /\ \A i \in 1..NumEntries : map'[i].active =>
             /\ map[i].active /\ i # Lookup(c)
             /\ map'[i].conn = map[i].conn /\ map'[i].mode = map[i].mode
    BY <1>1, <2>1, ClosedIs
  <2>3. writer.active /\ \A i \in 1..NumEntries : map[i].active => i = Lookup(c)
    BY <1>3, <2>1, <2>2, ActiveIs
  <2>4. \A i \in 1..NumEntries : ~map'[i].active
    BY <2>2, <2>3
  <2>5. WriterInv' /\ Clean
    <3>1. writer' = IdleWriter /\ pending' = <<>> /\ slot' \in [1..SlotSize -> Byte]
      BY <1>1, <1>3, <2>1 DEF Abort, WriterInv, IapTypeOK
    <3> QED BY <1>1, <3>1, IdleIsGood, SlotKept
  <2>6. PipeInv'
    <3>1. StatusTellsWriter' /\ upload' \in {"idle", "in_progress", "ready", "error"}
      BY <1>1 DEF StatusTellsWriter
    <3> QED BY <2>1, <2>2, <2>4, <3>1, PipesShrink
  <2>7. verify' = verify /\ certified' = certified /\ unheeded' \in BOOLEAN
    BY <1>1, <2>1 DEF loopVars, VerifyInv
  <2>8. VerifyInv'
    BY <2>1, <2>3, <2>7, VerifyOff
  <2>9. MarkInv'
    BY <1>1, <2>1, MarkKept DEF loopVars
  <2> QED BY <2>2, <2>5, <2>6, <2>8, <2>9 DEF IInv
<1> QED BY <1>2, <1>3

LEMMA FinishCompleteStep ==
  ASSUME IInv, NEW c \in Conns, FinishComplete(c)
  PROVE  IInv' /\ Clean
<1>1. /\ Closed(c) /\ posts' = posts
      /\ UNCHANGED <<phase, logger, applying, marker, certified, unheeded>>
  BY DEF FinishComplete, histVars
<1>2. HttpInv /\ PipeInv /\ WriterInv /\ VerifyInv /\ MarkInv
  BY DEF IInv
<1>3. CASE map[Lookup(c)].active /\ MayFinalize
  <2>1. Finalize /\ upload' = "ready" /\ verify' = "pending"
    BY <1>3 DEF FinishComplete
  <2>2. /\ HttpInv' /\ Lookup(c) \in 1..NumEntries
        /\ \A i \in 1..NumEntries : map'[i].active =>
             /\ map[i].active /\ i # Lookup(c)
             /\ map'[i].conn = map[i].conn /\ map'[i].mode = map[i].mode
    BY <1>1, <1>2, ClosedIs
  <2>3. \A i \in 1..NumEntries : ~map'[i].active
    <3>1. \A i \in 1..NumEntries : map[i].active => i = Lookup(c)
      BY <1>2, <1>3, <2>2, ActiveIs
    <3> QED BY <2>2, <3>1
  <2>4. /\ WriterInv' /\ writer'.finalized /\ ~writer'.active /\ ~writer'.verifying
        /\ slot' = slot
    BY <1>2, <2>1, FinalizeIs
  <2>5. PipeInv'
    <3>1. StatusTellsWriter' /\ upload' \in {"idle", "in_progress", "ready", "error"}
      BY <2>1, <2>4 DEF StatusTellsWriter
    <3> QED BY <1>2, <2>2, <2>3, <3>1, PipesShrink
  <2>6. VerifyInv'
    BY <1>1, <1>2, <2>1, <2>4 DEF VerifyInv
  <2>7. MarkInv'
    BY <1>1, <1>2, <2>4, MarkKept
  <2>8. Clean
    BY <2>4, SlotKept
  <2> QED BY <2>2, <2>4, <2>5, <2>6, <2>7, <2>8 DEF IInv
<1>4. CASE ~(map[Lookup(c)].active /\ MayFinalize)
  <2>1. upload' = "error" /\ UNCHANGED <<iapVars, verify>>
    BY <1>4 DEF FinishComplete
  <2>2. UNCHANGED loopVars
    BY <1>1, <2>1 DEF loopVars
  <2> QED BY <1>1, <2>1, <2>2, CloseOnly
<1> QED BY <1>3, <1>4

LEMMA FinishStep ==
  ASSUME IInv, NEW c \in Conns, Finish(c)
  PROVE  IInv' /\ Clean
<1>1. CASE FinishIgnored(c)
  BY <1>1, FinishIgnoredStep
<1>2. CASE FinishForm(c)
  BY <1>2, CloseOnly DEF FinishForm, histVars
<1>3. CASE FinishFailed(c)
  BY <1>3, CloseOnly DEF FinishFailed, histVars
<1>4. CASE FinishIncomplete(c)
  BY <1>4, FinishIncompleteStep
<1>5. CASE FinishComplete(c)
  BY <1>5, FinishCompleteStep
<1> QED BY <1>1, <1>2, <1>3, <1>4, <1>5 DEF Finish

-----------------------------------------------------------------------------
(* Prepare and apply                                                       *)

\* The session reset leaves no pipeline, and the current connection its entry.
LEMMA ResetSessionIs ==
  ASSUME HttpInv, PipeInv, ResetSession, UNCHANGED <<post, finishing, posts>>
  PROVE  /\ HttpInv' /\ \A i \in 1..NumEntries : ~map'[i].active
         /\ Abortable => writer.active
<1>1. map \in [1..NumEntries -> Entry] /\ DOMAIN map = 1..NumEntries
  BY DEF HttpInv
<1>2. /\ map' = [i \in 1..NumEntries |-> IF i \in Sessions THEN FreeEntry ELSE map[i]]
      /\ current' = IF \E i \in Sessions : map[i].conn = current THEN NoConn ELSE current
  BY <1>1 DEF ResetSession
<1>3. map' \in [1..NumEntries -> Entry]
  BY <1>1, <1>2, FreeEntryIs
<1>4. \A i \in 1..NumEntries : ~map'[i].active
  <2> SUFFICES ASSUME NEW i \in 1..NumEntries PROVE ~map'[i].active
    OBVIOUS
  <2>1. CASE i \in Sessions
    BY <1>2, <2>1, FreeEntryIs
  <2>2. CASE i \notin Sessions
    <3>1. ~map[i].active
      BY <1>1, <2>2 DEF Sessions, PipeInv
    <3> QED BY <1>2, <2>2, <3>1
  <2> QED BY <2>1, <2>2
<1>5. current' # NoConn => EntriesOf(map', current') # {}
  <2> SUFFICES ASSUME current' # NoConn PROVE EntriesOf(map', current') # {}
    OBVIOUS
  <2>1. current' = current /\ ~\E i \in Sessions : map[i].conn = current
    BY <1>2
  <2>2. PICK j \in EntriesOf(map, current) : TRUE
    BY <2>1 DEF HttpInv
  <2>3. j \in 1..NumEntries /\ map[j].conn = current
    BY <1>1, <2>2 DEF EntriesOf
  <2>4. map'[j] = map[j]
    BY <1>2, <2>1, <2>3
  <2> QED BY <1>3, <2>1, <2>3, <2>4 DEF EntriesOf
<1>6. current' \in Conns \cup {NoConn}
  BY <1>2 DEF HttpInv
<1>7. HttpInv'
  BY <1>3, <1>5, <1>6 DEF HttpInv
<1>8. Abortable => writer.active
  <2> SUFFICES ASSUME Abortable PROVE writer.active
    OBVIOUS
  <2>1. PICK i \in Sessions : map[i].active
    BY DEF Abortable
  <2>2. i \in 1..NumEntries
    BY <1>1 DEF Sessions
  <2> QED BY <2>1, <2>2, ActiveIs
<1> QED BY <1>4, <1>7, <1>8

LEMMA PrepareStep ==
  ASSUME IInv, Prepare
  PROVE  IInv' /\ Clean
<1>1. /\ ResetSession /\ UNCHANGED <<post, finishing, posts>> /\ phase = "http"
      /\ UNCHANGED <<phase, logger, applying, marker, certified>>
      /\ upload' = "idle" /\ pending' \in {pending, <<>>}
  BY DEF Prepare, ResetSession, Callback
<1>2. \/ /\ WriterReset.active
         /\ writer' = WriterReset
         /\ UNCHANGED <<slot, verify, unheeded>>
      \/ /\ ~WriterReset.active
         /\ slot' = ErasedTo(SlotSize)
         /\ writer' = [WriterReset EXCEPT !.prepared = TRUE]
         /\ verify' = "idle"
         /\ UNCHANGED unheeded
      \/ /\ ~WriterReset.active
         /\ EraseStops(SlotSize)
         /\ writer' = WriterReset
         /\ unheeded' = TRUE
         /\ UNCHANGED verify
  BY DEF Prepare
<1>3. HttpInv /\ PipeInv /\ WriterInv /\ VerifyInv /\ MarkInv
  BY DEF IInv
<1>4. /\ HttpInv' /\ \A i \in 1..NumEntries : ~map'[i].active
      /\ Abortable => writer.active
  BY <1>1, <1>3, ResetSessionIs
<1>5. PipeInv'
  <2>1. StatusTellsWriter' /\ upload' \in {"idle", "in_progress", "ready", "error"}
    BY <1>1 DEF StatusTellsWriter
  <2> QED BY <1>3, <1>4, <2>1, PipesShrink
<1>6. slot \in [1..SlotSize -> Byte] /\ pending' \in Seq(Byte) /\ Len(pending') < ProgSize
  BY <1>1, <1>3, EmptyPending DEF WriterInv, IapTypeOK
<1>7. WriterReset = IF Abortable THEN IdleWriter ELSE writer
  BY DEF WriterReset
<1>8. /\ WriterReset \in Writer
      /\ WriterReset.finalized => Len(WriterReset.payload) = WriterReset.expected
      /\ WriterReset.prepared => \A i \in 1..SlotSize : slot[i] = Erased
  BY <1>3, <1>7, IdleWriterIs DEF WriterInv, IapTypeOK
<1>9. CASE WriterReset.active
  <2>1. WriterReset = writer
    BY <1>7, <1>9, IdleWriterIs
  <2>2. writer' = writer /\ UNCHANGED <<slot, verify, unheeded>>
    BY <1>2, <1>9, <2>1
  <2>3. WriterInv'
    BY <1>3, <1>6, <2>2 DEF WriterInv, IapTypeOK
  <2>4. VerifyInv'
    BY <1>1, <1>3, <2>2, VerifyKept
  <2>5. MarkInv'
    BY <1>1, <1>3, <2>2, MarkInCallback
  <2>6. Clean
    BY <2>2, SlotKept
  <2> QED BY <1>4, <1>5, <2>3, <2>4, <2>5, <2>6 DEF IInv
<1>10. CASE ~WriterReset.active /\ slot' = ErasedTo(SlotSize) /\ UNCHANGED unheeded
            /\ writer' = [WriterReset EXCEPT !.prepared = TRUE] /\ verify' = "idle"
  <2>1. /\ slot' \in [1..SlotSize -> Byte] /\ Clean
        /\ \A i \in 1..SlotSize : slot'[i] = Erased
    <3>1. SlotSize \in Int
      BY SlotAssumption
    <3> QED BY <1>6, <1>10, <3>1, ErasedToIs DEF Clean
  <2>2. /\ writer' \in Writer /\ ~writer'.active
        /\ writer'.finalized = WriterReset.finalized
        /\ writer'.payload = WriterReset.payload /\ writer'.expected = WriterReset.expected
    BY <1>8, <1>10 DEF Writer
  <2>3. WriterInv'
    BY <1>6, <1>8, <2>1, <2>2 DEF WriterInv, IapTypeOK
  <2>4. VerifyInv'
    BY <1>1, <1>3, <1>10, VerifyEnds DEF VerifyInv
  <2>5. MarkInv'
    BY <1>1, <1>3, <1>10, MarkInCallback
  <2> QED BY <1>4, <1>5, <2>1, <2>3, <2>4, <2>5 DEF IInv
<1>11. CASE ~WriterReset.active /\ EraseStops(SlotSize) /\ writer' = WriterReset
            /\ unheeded' = TRUE /\ UNCHANGED verify
  <2>1. slot' \in [1..SlotSize -> Byte] /\ \A i \in 1..SlotSize : slot'[i] \in {slot[i], Erased}
    BY <1>6, <1>11, SlotAssumption, EraseStopsIs
  <2>2. Clean
    BY <2>1 DEF Clean
  <2>3. WriterInv'
    BY <1>6, <1>8, <1>11, <2>1 DEF WriterInv, IapTypeOK
  <2>4. VerifyInv'
    <3>1. CASE Abortable
      BY <1>1, <1>3, <1>4, <1>11, <3>1, VerifyOff
    <3>2. CASE ~Abortable
      <4>1. writer' = writer
        BY <1>7, <1>11, <3>2
      <4> QED BY <1>1, <1>3, <1>11, <4>1 DEF VerifyInv
    <3> QED BY <3>1, <3>2
  <2>5. MarkInv'
    BY <1>1, <1>3, <1>11 DEF MarkInv
  <2> QED BY <1>4, <1>5, <2>2, <2>3, <2>4, <2>5 DEF IInv
<1> QED BY <1>2, <1>9, <1>10, <1>11

\* A step that leaves the server and the slot alone and changes what the loop knows.
LEMMA LoopStep ==
  ASSUME IInv, UNCHANGED <<iapVars, post, finishing, map, current, posts, verify>>,
         UNCHANGED <<certified, unheeded>>, upload' \in {upload, "idle"}, MarkInv'
  PROVE  IInv' /\ Clean
<1>1. HttpInv /\ PipeInv /\ WriterInv /\ VerifyInv
  BY DEF IInv
<1>2. HttpInv'
  BY <1>1 DEF HttpInv
<1>3. writer' = writer /\ slot' = slot
  BY DEF iapVars
<1>4. PipeInv'
  <2>1. DOMAIN map = 1..NumEntries
    BY <1>1 DEF HttpInv
  <2> QED BY <1>1, <1>3, <2>1 DEF PipeInv, OnePipeline, StatusTellsWriter
<1>5. WriterInv' /\ Clean
  BY <1>1, WriterKept
<1>6. VerifyInv'
  BY <1>1, <1>3, VerifyKept
<1> QED BY <1>2, <1>4, <1>5, <1>6 DEF IInv

LEMMA RequestApplyStep ==
  ASSUME IInv, RequestApply
  PROVE  IInv' /\ Clean
<1>1. MarkInv'
  BY DEF RequestApply, IInv, MarkInv, histVars, iapVars
<1> QED BY <1>1, LoopStep DEF RequestApply, histVars

-----------------------------------------------------------------------------
(* The loop of Core0Task0, and the boot                                    *)

LEMMA HttpPollEndsStep ==
  ASSUME IInv, HttpPollEnds
  PROVE  IInv' /\ Clean
<1>1. MarkInv'
  BY DEF HttpPollEnds, Callback, IInv, MarkInv, histVars, iapVars
<1> QED BY <1>1, LoopStep DEF HttpPollEnds, httpVars, histVars

LEMMA LoggerFailsStep ==
  ASSUME IInv, LoggerFails
  PROVE  IInv' /\ Clean
<1>1. MarkInv'
  BY DEF LoggerFails, IInv, MarkInv, histVars, iapVars
<1> QED BY <1>1, LoopStep DEF LoggerFails, httpVars, histVars

\* The record is written when the slot is the verified one.
LEMMA ApplyPollStep ==
  ASSUME IInv, ApplyPoll
  PROVE  IInv' /\ Clean
<1>1. /\ phase = "apply" /\ applying' = FALSE
      /\ UNCHANGED <<iapVars, httpVars, verify, logger, certified, unheeded, posts>>
      /\ \/ phase' = "http" /\ UNCHANGED marker
         \/ phase' = "reset" /\ marker' = TRUE /\ verify = "verified"
  BY DEF ApplyPoll
<1>2. VerifyInv /\ MarkInv
  BY DEF IInv
<1>3. MarkInv'
  <2>1. CASE phase' = "http" /\ UNCHANGED marker
    BY <1>1, <1>2, <2>1 DEF MarkInv
  <2>2. CASE phase' = "reset" /\ marker' = TRUE /\ verify = "verified"
    <3>1. ~unheeded => slot = certified
      BY <1>2, <2>2 DEF VerifyInv
    <3> QED BY <1>1, <1>2, <2>2, <3>1 DEF MarkInv, iapVars
  <2> QED BY <1>1, <2>1, <2>2
<1> QED BY <1>1, <1>3, LoopStep DEF httpVars

LEMMA VerifyPollStep ==
  ASSUME IInv, VerifyPoll
  PROVE  IInv' /\ Clean
<1>1. /\ phase = "verify" /\ phase' = "apply"
      /\ UNCHANGED <<post, finishing, map, current, upload, posts>>
      /\ UNCHANGED <<logger, applying, marker, unheeded>>
      /\ certified' = IF verify # "verified" /\ verify' = "verified" THEN slot ELSE certified
  BY DEF VerifyPoll, httpVars
<1>2. HttpInv /\ PipeInv /\ WriterInv /\ VerifyInv /\ MarkInv
  BY DEF IInv
<1>3. HttpInv'
  BY <1>1, <1>2 DEF HttpInv
<1>4. CASE verify \notin {"pending", "verifying"}
  <2>1. UNCHANGED <<iapVars, verify>>
    BY <1>4 DEF VerifyPoll
  <2>2. certified' = certified
    BY <1>1, <2>1
  <2>3. MarkInv'
    BY <1>1, <1>2, <2>1, <2>2 DEF MarkInv, iapVars
  <2> QED BY <1>1, <2>1, <2>2, <2>3, LoopStep
<1>5. CASE verify \in {"pending", "verifying"}
  <2>1. VerifyStep(verify')
    BY <1>5 DEF VerifyPoll
  <2>2. /\ WriterInv' /\ slot' = slot
        /\ writer'.active = writer.active /\ writer'.finalized = writer.finalized
        /\ writer.finalized /\ ~writer.active
        /\ verify' \in {"error", "verified", "verifying"}
        /\ ~unheeded /\ verify' = "verifying" => ReadbackInv'
        /\ ~unheeded /\ verify' = "verified" => HoldsImage'
    BY <1>2, <1>5, <2>1, VerifyStepIs
  <2>3. PipeInv'
    BY <1>1, <1>2, <1>3, <2>2, PipesKept
  <2>4. certified' \in {<<>>} \cup [1..SlotSize -> Byte]
    BY <1>1, <1>2 DEF VerifyInv, WriterInv, IapTypeOK
  <2>5. verify' = "verified" => slot' = certified'
    BY <1>1, <1>5, <2>2
  <2>6. VerifyInv'
    BY <1>1, <1>2, <2>2, <2>4, <2>5 DEF VerifyInv
  <2>7. MarkInv'
    BY <1>1, <1>2 DEF MarkInv
  <2>8. Clean
    BY <2>2, SlotKept
  <2> QED BY <1>3, <2>2, <2>3, <2>6, <2>7, <2>8 DEF IInv
<1> QED BY <1>4, <1>5

LEMMA OldImageIs == OldImage \in [1..SlotSize -> Byte]
BY SlotAssumption DEF OldImage, Byte

LEMMA NoEntriesIs ==
  /\ NoEntries \in [1..NumEntries -> Entry] /\ DOMAIN NoEntries = 1..NumEntries
  /\ \A i \in 1..NumEntries : ~NoEntries[i].active
BY FreeEntryIs DEF NoEntries

LEMMA NoPostsIs == NoPosts \in [Conns -> Post]
BY DEF NoPosts, NoPost, Post

\* What a boot, and the first one, begin with.
LEMMA BootedIs ==
  ASSUME posts' \in Nat, slot' \in [1..SlotSize -> Byte],
         writer' = IdleWriter, pending' = <<>>,
         post' = NoPosts, finishing' = NoConn, map' = NoEntries, current' = NoConn,
         upload' = "idle", verify' = "idle", phase' = "http", logger' = FALSE,
         applying' = FALSE, marker' \in BOOLEAN, unheeded' \in BOOLEAN,
         certified' \in {<<>>} \cup [1..SlotSize -> Byte], ~marker' \/ unheeded'
  PROVE  IInv'
<1>1. HttpInv'
  BY NoEntriesIs, NoPostsIs DEF HttpInv
<1>2. PipeInv'
  BY NoEntriesIs DEF PipeInv, OnePipeline, StatusTellsWriter
<1>3. WriterInv'
  BY IdleIsGood
<1>4. VerifyInv'
  BY DEF VerifyInv
<1>5. MarkInv'
  BY DEF MarkInv
<1> QED BY <1>1, <1>2, <1>3, <1>4, <1>5 DEF IInv

LEMMA ResetStep ==
  ASSUME IInv, Reset
  PROVE  IInv' /\ (slot' # OldImage => Clean)
<1>1. /\ writer' = IdleWriter /\ pending' = <<>>
      /\ post' = NoPosts /\ finishing' = NoConn /\ map' = NoEntries /\ current' = NoConn
      /\ upload' = "idle" /\ verify' = "idle"
      /\ phase' = "http" /\ logger' = FALSE /\ applying' = FALSE
      /\ certified' = certified /\ posts' = posts
      /\ \/ ~marker /\ UNCHANGED <<slot, marker, unheeded>>
         \/ /\ marker /\ slot' \in {slot, OldImage}
            /\ \/ marker' = FALSE /\ UNCHANGED unheeded
               \/ unheeded' = TRUE /\ UNCHANGED marker
  BY DEF Reset
<1>2. /\ posts \in Nat /\ slot \in [1..SlotSize -> Byte] /\ marker \in BOOLEAN
      /\ unheeded \in BOOLEAN /\ certified \in {<<>>} \cup [1..SlotSize -> Byte]
  BY DEF IInv, HttpInv, WriterInv, IapTypeOK, MarkInv, VerifyInv
<1>3. slot' \in {slot, OldImage}
  BY <1>1
<1>4. slot' \in [1..SlotSize -> Byte] /\ (slot' # OldImage => Clean)
  BY <1>2, <1>3, OldImageIs, SlotKept
<1>5. marker' \in BOOLEAN /\ unheeded' \in BOOLEAN /\ (~marker' \/ unheeded')
  <2>1. CASE ~marker /\ UNCHANGED <<slot, marker, unheeded>>
    BY <1>2, <2>1
  <2>2. CASE marker' = FALSE /\ UNCHANGED unheeded
    BY <1>2, <2>2
  <2>3. CASE unheeded' = TRUE /\ UNCHANGED marker
    BY <1>2, <2>3
  <2> QED BY <1>1, <2>1, <2>2, <2>3
<1> QED BY <1>1, <1>2, <1>4, <1>5, BootedIs

-----------------------------------------------------------------------------
(* Theorems                                                                *)

LEMMA InitInv == Init => IInv
<1> SUFFICES ASSUME Init PROVE IInv
  OBVIOUS
<1>1. HttpInv
  BY NoEntriesIs, NoPostsIs DEF Init, HttpInv
<1>2. PipeInv
  BY NoEntriesIs DEF Init, PipeInv, OnePipeline, StatusTellsWriter
<1>3. WriterInv
  BY IdleWriterIs, EmptyPending, OldImageIs DEF Init, WriterInv, IapTypeOK
<1>4. VerifyInv
  BY DEF Init, VerifyInv
<1>5. MarkInv
  BY DEF Init, MarkInv
<1> QED BY <1>1, <1>2, <1>3, <1>4, <1>5 DEF IInv

LEMMA StepInv ==
  ASSUME IInv, [Next]_vars
  PROVE  IInv' /\ (slot' # OldImage => Clean)
<1>1. CASE \E c \in Conns : PostRepeats(c) \/ PostFindsNoEntry(c)
  BY <1>1, PostRepeatsStep, PostFindsNoEntryStep
<1>2. CASE \E c \in Conns, len \in BodySizes :
             PostForm(c, len) \/ PostUpload(c, len) \/ PostUploadRefused(c, len)
  BY <1>2, PostFormStep, PostUploadStep, PostUploadRefusedStep
<1>3. CASE \E c \in Conns, k \in 1..SlotSize :
             DataRefused(c, k) \/ DataElsewhere(c, k) \/ DataPushed(c, k)
  BY <1>3, DataRefusedStep, DataElsewhereStep, DataPushedStep
<1>4. CASE \E c \in Conns : ConnectionLost(c) \/ Finish(c)
  BY <1>4, ConnectionLostStep, FinishStep
<1>5. CASE Prepare \/ RequestApply
  BY <1>5, PrepareStep, RequestApplyStep
<1>6. CASE HttpPollEnds \/ LoggerFails \/ VerifyPoll \/ ApplyPoll
  BY <1>6, HttpPollEndsStep, LoggerFailsStep, VerifyPollStep, ApplyPollStep
<1>7. CASE Reset
  BY <1>7, ResetStep
<1>8. CASE UNCHANGED vars
  <2>1. /\ UNCHANGED <<iapVars, post, finishing, map, current, posts, verify, upload>>
        /\ UNCHANGED <<certified, unheeded, phase, logger, applying, marker>>
    BY <1>8 DEF vars, httpVars, loopVars, histVars
  <2>2. MarkInv'
    BY <2>1, MarkKept DEF IInv, iapVars
  <2> QED BY <2>1, <2>2, LoopStep
<1> QED BY <1>1, <1>2, <1>3, <1>4, <1>5, <1>6, <1>7, <1>8 DEF Next

\* The invariant of server, writer, verification and hand-over.
THEOREM Invariance == FairSpec => []IInv
<1>1. Spec => []IInv
  BY InitInv, StepInv, PTL DEF Spec
<1> QED BY <1>1, PTL DEF FairSpec

\* Types of the server's side, the map, the writer and the loop.
THEOREM TypeCorrect == FairSpec => []TypeOK
<1>1. IInv => TypeOK
  BY DEF IInv, HttpInv, PipeInv, WriterInv, VerifyInv, MarkInv, TypeOK
<1> QED BY <1>1, Invariance, PTL

\* What the verification certified is, byte for byte, what was received: no
\* request, failure or loss of a connection comes between.
THEOREM VerifiedImageStays == FairSpec => []VerifiedSlotHoldsImage
<1>1. IInv => VerifiedSlotHoldsImage
  BY DEF IInv, WriterInv, VerifyInv, VerifiedSlotHoldsImage
<1> QED BY <1>1, Invariance, PTL

\* The bootloader is asked to act on nothing but the contents that were verified.
THEOREM MarkerIsBacked == FairSpec => []MarkerStandsForVerifiedSlot
<1>1. IInv => MarkerStandsForVerifiedSlot
  BY DEF IInv, MarkInv, MarkerStandsForVerifiedSlot
<1> QED BY <1>1, Invariance, PTL

\* However many connections upload, one pipeline feeds the writer.
THEOREM PipelineIsAlone == FairSpec => []OnePipeline
<1>1. IInv => OnePipeline
  BY DEF IInv, PipeInv
<1> QED BY <1>1, Invariance, PTL

\* The status of the upload tells what the writer does.
THEOREM StatusIsTrue == FairSpec => []StatusTellsWriter
<1>1. IInv => StatusTellsWriter
  BY DEF IInv, PipeInv
<1> QED BY <1>1, Invariance, PTL

\* Nothing is programmed onto flash that is not erased, whatever was prepared
\* before and whatever failed.
THEOREM FlashIsErasedFirst == FairSpec => ProgramsErasedFlash
<1>1. IInv /\ [Next]_vars =>
        [slot' # OldImage =>
           \A i \in 1..SlotSize : slot'[i] \in {slot[i], Erased} \/ slot[i] = Erased]_vars
  BY StepInv DEF Clean
<1>2. Spec => ProgramsErasedFlash
  BY <1>1, InitInv, StepInv, PTL DEF Spec, ProgramsErasedFlash
<1> QED BY <1>2, PTL DEF FairSpec

-----------------------------------------------------------------------------
(* The stages of an image                                                  *)

StageStep == [Staging!Next]_<<Stage, Image>>

\* While a request is to be finished the loop stays where the callbacks are.
ServingInv == finishing # NoConn => phase = "http"

LEMMA ServingStep ==
  ASSUME ServingInv, [Next]_vars
  PROVE  ServingInv'
<1>1. ASSUME NEW c \in Conns, PostRepeats(c) \/ PostFindsNoEntry(c)
      PROVE  ServingInv'
  BY <1>1 DEF ServingInv, PostRepeats, PostFindsNoEntry, Posted, Callback, httpVars, loopVars
<1>2. ASSUME NEW c \in Conns, NEW len \in BodySizes,
             PostForm(c, len) \/ PostUpload(c, len) \/ PostUploadRefused(c, len)
      PROVE  ServingInv'
  <2>1. phase = "http" /\ phase' = phase
    BY <1>2 DEF PostForm, PostUpload, PostUploadRefused, Posted, Callback, loopVars
  <2> QED BY <2>1 DEF ServingInv
<1>3. ASSUME NEW c \in Conns, NEW k \in 1..SlotSize,
             DataRefused(c, k) \/ DataElsewhere(c, k) \/ DataPushed(c, k)
      PROVE  ServingInv'
  <2>1. phase = "http" /\ phase' = phase
    BY <1>3 DEF DataRefused, DataElsewhere, DataPushed, MayReceive, Callback, loopVars
  <2> QED BY <2>1 DEF ServingInv
<1>4. ASSUME NEW c \in Conns, ConnectionLost(c)
      PROVE  ServingInv'
  BY <1>4 DEF ServingInv, ConnectionLost, Callback, loopVars
<1>5. ASSUME NEW c \in Conns, Finish(c)
      PROVE  ServingInv'
  <2>1. finishing' = NoConn
    BY <1>5 DEF Finish, FinishIgnored, FinishForm, FinishFailed, FinishIncomplete,
                FinishComplete, Closed, Finished
  <2> QED BY <2>1 DEF ServingInv
<1>6. CASE Prepare \/ RequestApply \/ HttpPollEnds
  <2>1. finishing = NoConn /\ finishing' = finishing
    BY <1>6 DEF Prepare, RequestApply, HttpPollEnds, Callback, httpVars
  <2> QED BY <2>1 DEF ServingInv
<1>7. CASE LoggerFails \/ UNCHANGED vars
  <2>1. UNCHANGED <<finishing, phase>>
    BY <1>7 DEF LoggerFails, httpVars, vars, loopVars
  <2> QED BY <2>1 DEF ServingInv
<1>8. CASE VerifyPoll \/ ApplyPoll
  <2>1. finishing = NoConn /\ finishing' = finishing
    BY <1>8 DEF ServingInv, VerifyPoll, ApplyPoll, httpVars
  <2> QED BY <2>1 DEF ServingInv
<1>9. CASE Reset
  BY <1>9 DEF ServingInv, Reset
<1> QED BY <1>1, <1>2, <1>3, <1>4, <1>5, <1>6, <1>7, <1>8, <1>9 DEF Next

\* Before and behind a step.
LEMMA StageIs ==
  /\ unheeded => Stage = "unknown"
  /\ ~unheeded /\ marker => Stage = "requested"
  /\ ~unheeded /\ ~marker =>
       /\ verify = "verified" => Stage = "verified"
       /\ verify \in {"pending", "verifying"} => Stage = "received"
       /\ verify \notin {"pending", "verifying", "verified"} => Stage = "empty"
BY DEF Stage

LEMMA StageWillBe ==
  /\ unheeded' => Stage' = "unknown"
  /\ ~unheeded' /\ marker' => Stage' = "requested"
  /\ ~unheeded' /\ ~marker' =>
       /\ verify' = "verified" => Stage' = "verified"
       /\ verify' \in {"pending", "verifying"} => Stage' = "received"
       /\ verify' \notin {"pending", "verifying", "verified"} => Stage' = "empty"
BY DEF Stage

LEMMA ImageIs ==
  /\ Stage = "received" => Image = writer.payload
  /\ Stage \in {"verified", "requested"} => Image = SubSeq(slot, 1, writer.expected)
  /\ Stage \in {"empty", "unknown"} => Image = <<>>
BY DEF Image

LEMMA ImageWillBe ==
  /\ Stage' = "received" => Image' = writer'.payload
  /\ Stage' \in {"verified", "requested"} => Image' = SubSeq(slot', 1, writer'.expected)
  /\ Stage' \in {"empty", "unknown"} => Image' = <<>>
BY DEF Image

\* Behind an erase that failed unheeded nothing is promised.
LEMMA TrustLost ==
  ASSUME unheeded'
  PROVE  StageStep
<1>1. Stage' = "unknown" /\ Image' = <<>>
  BY StageWillBe, ImageWillBe
<1> QED BY <1>1 DEF StageStep, Staging!Next, Staging!LoseTrust, Staging!NoImage

\* An image is dropped when it is no longer verified or waiting to be.
LEMMA ImageDropped ==
  ASSUME unheeded' = unheeded, ~marker',
         verify' \notin {"pending", "verifying", "verified"}
  PROVE  StageStep
<1>1. CASE unheeded
  BY <1>1, TrustLost
<1>2. CASE ~unheeded
  <2>1. Stage' = "empty" /\ Image' = <<>>
    BY <1>2, StageWillBe, ImageWillBe
  <2>2. Stage \in {"empty", "received", "verified", "requested"}
    BY <1>2, StageIs
  <2>3. CASE Stage = "empty"
    BY <2>1, <2>3, ImageIs DEF StageStep
  <2>4. CASE Stage # "empty"
    BY <2>1, <2>2, <2>4 DEF StageStep, Staging!Next, Staging!Drop, Staging!NoImage
  <2> QED BY <2>3, <2>4
<1> QED BY <1>1, <1>2

LEMMA StageUnchanged ==
  ASSUME UNCHANGED <<slot, writer, verify, marker, unheeded>>
  PROVE  StageStep
<1>1. Stage' = Stage
  BY DEF Stage
<1>2. Image' = Image
  BY <1>1 DEF Image
<1> QED BY <1>1, <1>2 DEF StageStep

\* A writer that is active has nothing that was received whole.
LEMMA WriterAtWork ==
  ASSUME IInv, phase = "http", writer.active, UNCHANGED <<verify, marker, unheeded>>
  PROVE  StageStep
<1>1. CASE unheeded
  BY <1>1, TrustLost
<1>2. CASE ~unheeded
  <2>1. ~marker /\ verify \notin {"pending", "verifying", "verified"}
    BY <1>2 DEF IInv, MarkInv, VerifyInv
  <2> QED BY <2>1, ImageDropped
<1> QED BY <1>1, <1>2

-----------------------------------------------------------------------------
(* Its steps                                                               *)

\* Another upload takes the slot.
LEMMA PostStaging ==
  ASSUME IInv, NEW c \in Conns, NEW len \in BodySizes,
         PostUpload(c, len) \/ PostUploadRefused(c, len)
  PROVE  StageStep
<1>1. phase = "http" /\ verify' = "idle" /\ UNCHANGED <<marker, unheeded>>
  BY DEF PostUpload, PostUploadRefused, Posted, Callback
<1>2. CASE unheeded
  BY <1>1, <1>2, TrustLost
<1>3. CASE ~unheeded
  <2>1. ~marker'
    BY <1>1, <1>3 DEF IInv, MarkInv
  <2> QED BY <1>1, <2>1, ImageDropped
<1> QED BY <1>2, <1>3

LEMMA PushStaging ==
  ASSUME IInv, NEW c \in Conns, NEW k \in 1..SlotSize, DataPushed(c, k)
  PROVE  StageStep
<1> DEFINE i == Lookup(c)
<1>1. phase = "http" /\ UNCHANGED <<verify, marker, unheeded>>
  BY DEF DataPushed, MayReceive, Callback, loopVars
<1>2. CASE map[i].active
  <2>1. i \in 1..NumEntries
    <3>1. c # NoConn /\ current = c
      BY UpdateAssumption DEF DataPushed
    <3> QED BY <3>1, FirstEntry DEF Lookup, IInv, HttpInv
  <2>2. writer.active
    BY <1>2, <2>1 DEF IInv, HttpInv, PipeInv, OnePipeline
  <2> QED BY <1>1, <2>2, WriterAtWork
<1>3. CASE ~map[i].active
  <2>1. UNCHANGED iapVars
    BY <1>3 DEF DataPushed
  <2> QED BY <1>1, <2>1, StageUnchanged DEF iapVars
<1> QED BY <1>2, <1>3

\* The one step that makes an image out of what was received.
LEMMA FinishCompleteStaging ==
  ASSUME IInv, ServingInv, NEW c \in Conns, FinishComplete(c), MayFinalize,
         verify' = "pending", Finalize
  PROVE  StageStep
<1>1. UNCHANGED <<marker, unheeded>> /\ phase = "http"
  BY UpdateAssumption DEF FinishComplete, histVars, Closed, Finished, ServingInv
<1>2. CASE unheeded
  BY <1>1, <1>2, TrustLost
<1>3. CASE ~unheeded
  <2>1. ~marker /\ verify \notin {"pending", "verifying", "verified"}
    BY <1>1, <1>3 DEF IInv, MarkInv, VerifyInv, MayFinalize
  <2>2. Stage = "empty"
    BY <1>3, <2>1, StageIs
  <2>3. Stage' = "received" /\ Image' = writer'.payload
    BY <1>1, <1>3, <2>1, StageWillBe, ImageWillBe
  <2>4. writer'.payload = writer.payload /\ writer.payload \in Seq(Byte)
    BY DEF Finalize, IInv, WriterInv, IapTypeOK, Writer
  <2> QED BY <2>2, <2>3, <2>4 DEF StageStep, Staging!Next, Staging!Receive
<1> QED BY <1>2, <1>3

LEMMA FinishStaging ==
  ASSUME IInv, ServingInv, NEW c \in Conns, Finish(c)
  PROVE  StageStep
<1> DEFINE entry == map[Lookup(c)]
<1>1. CASE FinishIgnored(c) \/ FinishForm(c) \/ FinishFailed(c)
  <2>1. UNCHANGED <<slot, writer, verify, marker, unheeded>>
    BY <1>1 DEF FinishIgnored, FinishForm, FinishFailed, iapVars, loopVars, histVars
  <2> QED BY <2>1, StageUnchanged
<1>2. CASE FinishIncomplete(c)
  <2>1. /\ UNCHANGED <<slot, verify, marker, unheeded>> /\ phase = "http"
        /\ current = c /\ c # NoConn
    BY <1>2, UpdateAssumption
    DEF FinishIncomplete, loopVars, histVars, Closed, Finished, ServingInv
  <2>2. CASE entry.active
    <3>1. Lookup(c) \in 1..NumEntries
      BY <2>1, FirstEntry DEF Lookup, IInv, HttpInv
    <3>2. writer.active
      BY <2>2, <3>1 DEF IInv, HttpInv, PipeInv, OnePipeline
    <3> QED BY <2>1, <3>2, WriterAtWork
  <2>3. CASE ~entry.active
    <3>1. writer' = writer
      BY <1>2, <2>3 DEF FinishIncomplete
    <3> QED BY <2>1, <3>1, StageUnchanged
  <2> QED BY <2>2, <2>3
<1>3. CASE FinishComplete(c)
  <2>1. UNCHANGED <<marker, unheeded>>
    BY <1>3 DEF FinishComplete, histVars
  <2>2. CASE entry.active /\ MayFinalize
    <3>1. Finalize /\ verify' = "pending"
      BY <1>3, <2>2 DEF FinishComplete
    <3> QED BY <1>3, <2>2, <3>1, FinishCompleteStaging
  <2>3. CASE ~(entry.active /\ MayFinalize)
    <3>1. UNCHANGED <<slot, writer, verify>>
      BY <1>3, <2>3 DEF FinishComplete, iapVars
    <3> QED BY <2>1, <3>1, StageUnchanged
  <2> QED BY <2>2, <2>3
<1> QED BY <1>1, <1>2, <1>3 DEF Finish

\* A preparation drops the image, unless an upload is at work and refuses it.
LEMMA PrepareStaging ==
  ASSUME IInv, Prepare
  PROVE  StageStep
<1>1. phase = "http" /\ UNCHANGED marker
  BY DEF Prepare, Callback
<1>2. CASE unheeded'
  BY <1>2, TrustLost
<1>3. CASE ~unheeded' /\ WriterReset.active
  <2>1. unheeded' = unheeded /\ verify' = verify
    BY <1>3 DEF Prepare
  <2>2. writer.active
    BY <1>3 DEF WriterReset, IdleWriter
  <2> QED BY <1>1, <2>1, <2>2, WriterAtWork
<1>4. CASE ~unheeded' /\ ~WriterReset.active
  <2>1. unheeded' = unheeded /\ verify' = "idle"
    BY <1>4 DEF Prepare
  <2>2. ~marker'
    BY <1>1, <1>4, <2>1 DEF IInv, MarkInv
  <2> QED BY <2>1, <2>2, ImageDropped
<1> QED BY <1>2, <1>3, <1>4

\* The image that was read back is the one that was received.
LEMMA VerifyStaging ==
  ASSUME IInv, IInv', VerifyPoll
  PROVE  StageStep
<1>1. phase = "verify" /\ UNCHANGED <<marker, unheeded>>
  BY DEF VerifyPoll
<1>2. CASE unheeded
  BY <1>1, <1>2, TrustLost
<1>3. CASE verify \notin {"pending", "verifying"}
  BY <1>1, <1>3, StageUnchanged DEF VerifyPoll, iapVars
<1>4. CASE ~unheeded /\ verify \in {"pending", "verifying"}
  <2>1. ~marker
    BY <1>1, <1>4 DEF IInv, MarkInv
  <2>2. writer.finalized /\ ~writer.active /\ writer \in Writer
    BY <1>4 DEF IInv, VerifyInv, WriterInv, IapTypeOK
  <2>3. verify' \in {"error", "verified", "verifying"} /\ writer'.payload = writer.payload
    BY <1>4, <2>2 DEF VerifyPoll, VerifyStep, Writer
  <2>4. Stage = "received" /\ Image = writer.payload
    BY <1>4, <2>1, StageIs, ImageIs
  <2>5. CASE verify' = "error"
    BY <1>1, <2>1, <2>5, ImageDropped
  <2>6. CASE verify' = "verifying"
    <3>1. Stage' = "received" /\ Image' = writer'.payload
      BY <1>1, <1>4, <2>1, <2>6, StageWillBe, ImageWillBe
    <3> QED BY <2>3, <2>4, <3>1 DEF StageStep
  <2>7. CASE verify' = "verified"
    <3>1. Stage' = "verified" /\ Image' = SubSeq(slot', 1, writer'.expected)
      BY <1>1, <1>4, <2>1, <2>7, StageWillBe, ImageWillBe
    <3>2. SubSeq(slot', 1, writer'.expected) = writer'.payload
      BY <1>1, <1>4, <2>7 DEF IInv, VerifyInv, HoldsImage
    <3> QED BY <2>3, <2>4, <3>1, <3>2 DEF StageStep, Staging!Next, Staging!Verify
  <2> QED BY <2>3, <2>5, <2>6, <2>7
<1> QED BY <1>2, <1>3, <1>4

\* Only a verified image is handed over.
LEMMA ApplyStaging ==
  ASSUME IInv, ApplyPoll
  PROVE  StageStep
<1>1. /\ phase = "apply" /\ UNCHANGED <<slot, writer, verify, unheeded>>
      /\ marker' = marker \/ (verify = "verified" /\ marker')
  BY DEF ApplyPoll, iapVars
<1>2. CASE unheeded
  BY <1>1, <1>2, TrustLost
<1>3. CASE marker' = marker
  BY <1>1, <1>3, StageUnchanged
<1>4. CASE ~unheeded /\ verify = "verified" /\ marker'
  <2>1. ~marker
    BY <1>1, <1>4 DEF IInv, MarkInv
  <2>2. Stage = "verified" /\ Stage' = "requested"
    BY <1>1, <1>4, <2>1, StageIs, StageWillBe
  <2>3. Image' = Image
    BY <1>1, <2>2, ImageIs, ImageWillBe
  <2> QED BY <2>2, <2>3 DEF StageStep, Staging!Next, Staging!HandOver
<1> QED BY <1>1, <1>2, <1>3, <1>4

LEMMA ResetStaging ==
  ASSUME Reset
  PROVE  StageStep
<1>1. CASE unheeded'
  BY <1>1, TrustLost
<1>2. CASE ~unheeded'
  <2>1. unheeded' = unheeded /\ ~marker' /\ verify' = "idle"
    BY <1>2 DEF Reset
  <2> QED BY <2>1, ImageDropped
<1> QED BY <1>1, <1>2

LEMMA StagingStep ==
  ASSUME IInv, IInv', ServingInv, [Next]_vars
  PROVE  StageStep
<1>1. ASSUME NEW c \in Conns,
             \/ PostRepeats(c) \/ PostFindsNoEntry(c) \/ ConnectionLost(c)
             \/ \E len \in BodySizes : PostForm(c, len)
             \/ \E k \in 1..SlotSize : DataRefused(c, k) \/ DataElsewhere(c, k)
      PROVE  StageStep
  <2>1. UNCHANGED <<slot, writer, verify, marker, unheeded>>
    BY <1>1 DEF PostRepeats, PostFindsNoEntry, PostForm, DataRefused, DataElsewhere,
                ConnectionLost, iapVars, loopVars, histVars
  <2> QED BY <2>1, StageUnchanged
<1>2. CASE RequestApply \/ HttpPollEnds \/ LoggerFails \/ UNCHANGED vars
  <2>1. UNCHANGED <<slot, writer, verify, marker, unheeded>>
    BY <1>2 DEF RequestApply, HttpPollEnds, LoggerFails, vars, iapVars, loopVars, histVars
  <2> QED BY <2>1, StageUnchanged
<1> QED BY <1>1, <1>2, PostStaging, PushStaging, FinishStaging, PrepareStaging,
          VerifyStaging, ApplyStaging, ResetStaging DEF Next

\* The update implements the stages of an image: received whole, read back, handed over,
\* and the same in all of them, however requests, failures and power cuts fall.
THEOREM Refinement == FairSpec => ImplementsImageStaging
<1>1. Init => Staging!Init
  BY StageIs, ImageIs DEF Init, Staging!Init, Staging!NoImage
<1>2. IInv /\ IInv' /\ ServingInv /\ [Next]_vars => [Staging!Next]_<<Stage, Image>>
  BY StagingStep DEF StageStep
<1>3. Spec => []ServingInv
  <2>1. Init => ServingInv
    BY DEF Init, ServingInv
  <2> QED BY <2>1, ServingStep, PTL DEF Spec
<1>4. Spec => []IInv
  BY InitInv, StepInv, PTL DEF Spec
<1>5. Spec => ImplementsImageStaging
  BY <1>1, <1>2, <1>3, <1>4, PTL DEF Spec, ImplementsImageStaging, Staging!Spec
<1> QED BY <1>5, PTL DEF FairSpec
=============================================================================
