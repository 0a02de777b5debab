---------------------------- MODULE CanLogBuffer ----------------------------
(***************************************************************************)
(* The RAM staging buffer of the logger (app/services/logging/             *)
(* CanLogBuffer.c): variable-length entries are laid into blocks of        *)
(* BlockSize bytes, each block opened by a header, and an entry that would *)
(* cross a block boundary is preceded by padding up to that boundary.  The *)
(* bytes live in an lwrb ring of NumBlocks blocks, one byte of which stays *)
(* unused.                                                                 *)
(*                                                                         *)
(* wPtr and rPtr are stream positions: they count every byte ever written  *)
(* and consumed, so the code's w_ptr and r_ptr are their values modulo     *)
(* Capacity.  The bytes between them are the items of `ring', each placed  *)
(* at the stream position where it was written.                            *)
(***************************************************************************)
EXTENDS Naturals, FiniteSets

CONSTANTS
  BlockSize,    \* BLOCK_SIZE (64 KiB in the firmware)
  NumBlocks,    \* LOG_BUFFER_SIZE / BLOCK_SIZE (8 in the firmware)
  HeaderSize,   \* sizeof(CanLogBlockHeaderType)
  FrameLens,    \* total_len of the frame entries (header plus 0..8 data bytes)
  SyncLen,      \* sizeof(CanLogSyncType)
  CntModulus    \* the block sequence counter is a uint8_t: 256 in the firmware

EntryLens == FrameLens \cup {SyncLen}

ASSUME LayoutAssumption ==
  /\ BlockSize \in Nat /\ NumBlocks \in Nat /\ HeaderSize \in Nat \ {0}
  /\ NumBlocks >= 2
  /\ EntryLens \subseteq Nat \ {0}
  /\ \A n \in EntryLens : HeaderSize + n < BlockSize
  /\ CntModulus \in Nat \ {0}

VARIABLES
  ring,        \* the items (entries and padding) between rPtr and wPtr
  wPtr, rPtr,  \* Rb1.w_ptr and Rb1.r_ptr as stream positions
  blockCount   \* BlockCount, the next block's sequence number

bufferVars == <<ring, wPtr, rPtr, blockCount>>

Capacity == NumBlocks * BlockSize

Item == [kind : {"frame", "sync", "pad"}, id : Nat, at : Nat, len : Nat \ {0}]

BufferTypeOK ==
  /\ ring \in SUBSET Item
  /\ wPtr \in Nat /\ rPtr \in Nat
  /\ blockCount \in 0..(CntModulus - 1)

BufferInit ==
  /\ ring = {}
  /\ wPtr = 0 /\ rPtr = 0
  /\ blockCount = 0

-----------------------------------------------------------------------------
(* What the code asks lwrb.                                                *)

Full == wPtr - rPtr

\* lwrb_get_free once `w' is the write position
FreeAt(w) == (Capacity - 1) - (w - rPtr)

\* lwrb_get_linear_block_read_length
LinearRead ==
  LET toEnd == Capacity - (rPtr % Capacity)
  IN  IF Full < toEnd THEN Full ELSE toEnd

\* lwrb_get_linear_block_write_length
LinearWrite ==
  LET toEnd == Capacity - (wPtr % Capacity)
  IN  IF FreeAt(wPtr) < toEnd THEN FreeAt(wPtr) ELSE toEnd

Offset(p) == p % BlockSize

\* space_in_block, pad_len, to_boundary
ToBoundary(p) == BlockSize - Offset(p)

\* skip_to_align: what separates a misaligned read pointer from its next block
SkipToAlign == IF Offset(rPtr) = 0 THEN 0 ELSE ToBoundary(rPtr)

-----------------------------------------------------------------------------
(* CanLogBuffer_AddEntry: at most one turn of its loop pads, at most one   *)
(* opens a block, and either of them may run out of space before the entry *)
(* is written; what an earlier turn wrote stays.                           *)

\* (a slip: the entry may stick out of its block by one byte)
MustPadOffByOne(len) == Offset(wPtr) # 0 /\ len > ToBoundary(wPtr) + 1

MustPad(len) == Offset(wPtr) # 0 /\ len > ToBoundary(wPtr)

\* (a slip: padding is refused unless a whole block is free behind it)
PadFitsWithBlock(len) == MustPad(len) => ToBoundary(wPtr) + BlockSize <= FreeAt(wPtr)

PadFits(len) == MustPad(len) => ToBoundary(wPtr) <= FreeAt(wPtr)

PaddedPtr(len) ==
  IF MustPad(len) /\ PadFits(len) THEN wPtr + ToBoundary(wPtr) ELSE wPtr

HeaderDue(len) == PadFits(len) /\ Offset(PaddedPtr(len)) = 0

HeaderFits(len) == HeaderDue(len) => FreeAt(PaddedPtr(len)) >= HeaderSize

\* where the entry goes, or where the loop gives up
EntryPtr(len) ==
  IF HeaderDue(len) /\ HeaderFits(len)
    THEN PaddedPtr(len) + HeaderSize
    ELSE PaddedPtr(len)

\* the loop reaches the entry and returns CLB_E_OK, not CLB_E_BUFFER_FULL
EntryFits(len) ==
  PadFits(len) /\ HeaderFits(len) /\ len <= FreeAt(EntryPtr(len))

Padding(len) ==
  IF MustPad(len) /\ PadFits(len)
    THEN {[kind |-> "pad", id |-> 0, at |-> wPtr, len |-> ToBoundary(wPtr)]}
    ELSE {}

AddEntryOk(kind, id, len) ==
  /\ EntryFits(len)
  /\ ring' = ring \cup Padding(len)
                  \cup {[kind |-> kind, id |-> id, at |-> EntryPtr(len), len |-> len]}
  /\ wPtr' = EntryPtr(len) + len
  /\ UNCHANGED <<rPtr, blockCount>>

AddEntryFull(len) ==
  /\ ~EntryFits(len)
  /\ ring' = ring \cup Padding(len)
  /\ wPtr' = EntryPtr(len)
  /\ UNCHANGED <<rPtr, blockCount>>

-----------------------------------------------------------------------------
(* CanLogBuffer_FillBlockWithPadding                                       *)

FillPossible ==
  Offset(wPtr) = 0 \/ (/\ ToBoundary(wPtr) <= FreeAt(wPtr)
                       /\ ToBoundary(wPtr) <= LinearWrite)

\* (a slip: an aligned write pointer is padded too, by a whole block)
FillBlockAlways ==
  /\ IF ToBoundary(wPtr) <= FreeAt(wPtr)
       THEN /\ ring' = ring \cup {[kind |-> "pad", id |-> 0, at |-> wPtr,
                                   len |-> ToBoundary(wPtr)]}
            /\ wPtr' = wPtr + ToBoundary(wPtr)
       ELSE UNCHANGED <<ring, wPtr>>
  /\ UNCHANGED <<rPtr, blockCount>>

FillBlockWithPadding ==
  /\ IF Offset(wPtr) # 0 /\ FillPossible
       THEN /\ ring' = ring \cup {[kind |-> "pad", id |-> 0, at |-> wPtr,
                                   len |-> ToBoundary(wPtr)]}
            /\ wPtr' = wPtr + ToBoundary(wPtr)
       ELSE UNCHANGED <<ring, wPtr>>
  /\ UNCHANGED <<rPtr, blockCount>>

-----------------------------------------------------------------------------
(* CanLogBuffer_IsBlockReady, ReadNextBlock and Consume                    *)

IsBlockReady ==
  /\ Full >= BlockSize + SkipToAlign
  /\ LinearRead >= BlockSize + SkipToAlign

BlockItems(p) == {x \in ring : p <= x.at /\ x.at < p + BlockSize}

\* the walk over entry headers stops at the first byte of padding
BlockEntries(p) ==
  {x \in BlockItems(p) :
     /\ x.kind # "pad"
     /\ \A y \in BlockItems(p) : y.kind = "pad" => x.at < y.at}

\* (a slip: sync entries are not counted)
EntriesCountOfFrames(p) == Cardinality({x \in BlockEntries(p) : x.kind = "frame"})

\* the header's entries_count
EntriesCount(p) == Cardinality(BlockEntries(p))

\* CanLogBuffer_UsedSlots # 0: the walk counts entries from the read pointer
HasUsedSlots == BlockEntries(rPtr + SkipToAlign) # {}

\* ReadNextBlock returns CLB_E_OK: the block is contiguous, and its walk finds
\* an entry.  (Without a whole contiguous block it fails, so the branch that
\* would pad a partial block never runs.)
NextBlockReadable ==
  /\ Full >= SkipToAlign
  /\ LinearRead >= SkipToAlign + BlockSize
  /\ BlockEntries(rPtr + SkipToAlign) # {}

\* a read pointer left inside a block first skips to the next one
AlignReadPtr ==
  /\ rPtr' = rPtr + SkipToAlign
  /\ ring' = {x \in ring : x.at >= rPtr + SkipToAlign}

\* (a slip: the sequence number is wider than the header's field)
ReadNextBlockUnwrapped ==
  /\ NextBlockReadable
  /\ AlignReadPtr
  /\ blockCount' = blockCount + 1
  /\ UNCHANGED wPtr

\* the block's header is written in place and takes the next sequence number
ReadNextBlock ==
  /\ NextBlockReadable
  /\ AlignReadPtr
  /\ blockCount' = (blockCount + 1) % CntModulus
  /\ UNCHANGED wPtr

ReadNextBlockFails ==
  /\ ~NextBlockReadable
  /\ IF Full < SkipToAlign THEN UNCHANGED <<ring, rPtr>> ELSE AlignReadPtr
  /\ UNCHANGED <<wPtr, blockCount>>

\* lwrb_skip of one block; an emptied but misaligned ring is reset
Consume ==
  LET n == IF Full < BlockSize THEN Full ELSE BlockSize
      misalignedEmpty == n = Full /\ Offset(rPtr + n) # 0
  IN /\ ring' = {x \in ring : x.at >= rPtr + n}
     /\ rPtr' = IF misalignedEmpty THEN 0 ELSE rPtr + n
     /\ wPtr' = IF misalignedEmpty THEN 0 ELSE wPtr
     /\ UNCHANGED blockCount
=============================================================================
