------------------------------ MODULE IapWriter ------------------------------
(***************************************************************************)
(* The staging of an update image in the secondary slot: IapWriter.c with  *)
(* IapIngestAdapter.c in front of it, which hands bodies on in multiples   *)
(* of the program size, and the flash driver behind it.                    *)
(*                                                                         *)
(* A byte is a pair: the request whose body it comes from and its place in *)
(* it.  A hash is the sequence of the bytes that went into it, so that     *)
(* different contents have different hashes; received_size and             *)
(* verify_offset are the lengths of these sequences.                       *)
(***************************************************************************)
EXTENDS Naturals, Sequences

CONSTANTS
  SlotSize,    \* APPLICATION_SECONDARY_SIZE
  EraseSize,   \* a sector
  ProgSize,    \* a flash word: 32
  VerifySize   \* IAP_WRITER_VERIFY_BUF_SIZE: 256

ASSUME SlotAssumption ==
  /\ {SlotSize, EraseSize, ProgSize, VerifySize} \subseteq Nat \ {0}
  /\ SlotSize % EraseSize = 0 /\ EraseSize % ProgSize = 0

VARIABLES
  slot,     \* the secondary slot's bytes
  writer,   \* IapWriterContext
  pending   \* IapIngestAdapterContext.pending

iapVars == <<slot, writer, pending>>

Erased == <<0, 0>>
Byte == Nat \X Nat

Writer == [active : BOOLEAN, finalized : BOOLEAN, prepared : BOOLEAN,
           expected : 0..SlotSize, payload : Seq(Byte), verifying : BOOLEAN,
           readback : Seq(Byte)]

IapTypeOK ==
  /\ slot \in [1..SlotSize -> Byte]
  /\ writer \in Writer
  /\ pending \in Seq(Byte) /\ Len(pending) < ProgSize

IdleWriter ==
  [active |-> FALSE, finalized |-> FALSE, prepared |-> FALSE, expected |-> 0,
   payload |-> <<>>, verifying |-> FALSE, readback |-> <<>>]

-----------------------------------------------------------------------------
(* Flash                                                                   *)

\* Flash_Erase of the first n bytes
ErasedTo(n) == [i \in 1..SlotSize |-> IF i <= n THEN Erased ELSE slot[i]]

\* Flash_Erase of n bytes gives up at a sector
EraseStops(n) ==
  \E sectors \in 0..((n \div EraseSize) - 1) : slot' = ErasedTo(sectors * EraseSize)

\* Flash_Write of data behind the first `offset' bytes
Programmed(offset, data) ==
  [i \in 1..SlotSize |->
     IF offset < i /\ i <= offset + Len(data) THEN data[i - offset] ELSE slot[i]]

-----------------------------------------------------------------------------
(* The writer                                                              *)

RoundUp(n) == ((n + EraseSize - 1) \div EraseSize) * EraseSize

\* (a slip: a writer that is active is taken over)
MayBeginActive(size) == size \in 1..SlotSize /\ size % ProgSize = 0

MayBegin(size) == ~writer.active /\ size \in 1..SlotSize /\ size % ProgSize = 0

\* (a slip: slot_prepared stays set)
BeginKeepsPrepared(size) ==
  /\ MayBegin(size)
  /\ slot' = IF writer.prepared THEN slot ELSE ErasedTo(RoundUp(size))
  /\ writer' = [IdleWriter EXCEPT !.active = TRUE, !.expected = size,
                                  !.prepared = writer.prepared]

\* IapWriter_Begin: a slot that was prepared is not erased again
Begin(size) ==
  /\ MayBegin(size)
  /\ slot' = IF writer.prepared THEN slot ELSE ErasedTo(RoundUp(size))
  /\ writer' = [IdleWriter EXCEPT !.active = TRUE, !.expected = size]

BeginRefused(size) == ~MayBegin(size) /\ UNCHANGED <<slot, writer>>

BeginFails(size) ==
  /\ MayBegin(size) /\ ~writer.prepared
  /\ EraseStops(RoundUp(size))
  /\ UNCHANGED writer

\* (a slip: a flash word that is just full waits)
AlignedTooLate(bytes) ==
  SubSeq(bytes, 1, ((Len(bytes) + ProgSize - 1) \div ProgSize - 1) * ProgSize)

\* of the bytes in hand, those that fill flash words
Aligned(bytes) == SubSeq(bytes, 1, Len(bytes) - (Len(bytes) % ProgSize))

MayWrite(bytes) ==
  /\ writer.active /\ ~writer.finalized
  /\ Len(writer.payload) + Len(bytes) <= writer.expected

MayIngest(offset, data) ==
  LET bytes == Aligned(pending \o data)
  IN /\ offset = Len(writer.payload) + Len(pending)
     /\ bytes = <<>> \/ MayWrite(bytes)

\* WriteChunk of the adapter with IapWriter_WriteChunk: less than a flash word waits
WriteChunk(offset, data) ==
  LET bytes == pending \o data
  IN /\ MayIngest(offset, data)
     /\ slot' = Programmed(Len(writer.payload), Aligned(bytes))
     /\ writer' = [writer EXCEPT !.payload = @ \o Aligned(bytes)]
     /\ pending' = SubSeq(bytes, Len(Aligned(bytes)) + 1, Len(bytes))

Abort == writer' = IdleWriter /\ pending' = <<>>

\* the ingest refuses data, and its caller aborts
WriteChunkRefused(offset, data) ==
  /\ ~MayIngest(offset, data)
  /\ Abort
  /\ UNCHANGED slot

\* the flash fails behind some of the words, and the caller aborts
WriteChunkFails(offset, data) ==
  LET bytes == Aligned(pending \o data)
  IN /\ MayIngest(offset, data)
     /\ \E words \in 0..((Len(bytes) \div ProgSize) - 1) :
          slot' = Programmed(Len(writer.payload), SubSeq(bytes, 1, words * ProgSize))
     /\ Abort

MayFinalize ==
  /\ pending = <<>> /\ writer.active /\ ~writer.finalized
  /\ Len(writer.payload) = writer.expected

Finalize ==
  /\ MayFinalize
  /\ writer' = [writer EXCEPT !.active = FALSE, !.finalized = TRUE,
                              !.verifying = FALSE, !.readback = <<>>]
  /\ UNCHANGED <<slot, pending>>

-----------------------------------------------------------------------------
(* Verification                                                            *)

\* what is read back once another buffer is full
Readback ==
  LET start == IF writer.verifying THEN Len(writer.readback) ELSE 0
      end   == IF start + VerifySize < writer.expected THEN start + VerifySize
                                                       ELSE writer.expected
  IN SubSeq(writer.readback, 1, start) \o SubSeq(slot, start + 1, end)

\* (a slip: verify_active is not set, and each step begins again)
VerifyStepRestarting(state) ==
  LET done == Len(Readback) = writer.expected
      good == ~done \/ Readback = writer.payload
  IN /\ state = IF ~good THEN "error" ELSE IF done THEN "verified" ELSE "verifying"
     /\ writer' = [writer EXCEPT !.readback = Readback]
     /\ UNCHANGED <<slot, pending>>

\* IapWriter_VerifyStep, and the verification state that Iap_VerifyPoll makes of it
VerifyStep(state) ==
  LET done == Len(Readback) = writer.expected
      good == ~done \/ Readback = writer.payload
  IN IF writer.active \/ ~writer.finalized
       THEN state = "error" /\ UNCHANGED iapVars
       ELSE /\ state = IF ~good THEN "error" ELSE IF done THEN "verified" ELSE "verifying"
            /\ writer' = [writer EXCEPT !.readback = Readback, !.verifying = ~(done /\ good)]
            /\ UNCHANGED <<slot, pending>>

\* the slot holds, from its start, what the writer was given
HoldsImage == SubSeq(slot, 1, writer.expected) = writer.payload
=============================================================================
