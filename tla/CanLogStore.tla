---------------------------- MODULE CanLogStore -----------------------------
(***************************************************************************)
(* The staging buffer between its two tasks.  Core0Task1 adds entries      *)
(* (CanLogManager.c, appCanLogHandlerPoll) and has the higher priority:    *)
(* a whole AddEntry happens between two steps of SdBridgeTask, which waits *)
(* for a notification, writes every ready block to the card and consumes   *)
(* it only when the write and the sync behind it succeeded.  The card (a   *)
(* FatFS file) fails at most MaxFaults times.                              *)
(***************************************************************************)
EXTENDS CanLogBuffer, Sequences

CONSTANTS
  MaxEntries,   \* bound: entries Core0Task1 manages to store
  MaxFaults     \* bound: failing writes and syncs

VARIABLES
  pc,        \* where SdBridgeTask is in SdBridgeTask_ActionHook
  notified,  \* its task notification is pending
  block,     \* DataPtr of the block it writes, and its header's cnt and entries_count
  card,      \* the blocks found on the card, in file order
  accepted,  \* history: how many entries CanLogBuffer_AddEntry took
  aborted,   \* the file object is marked: every later write fails
  faults     \* history: how many writes or syncs failed

storeVars == <<pc, notified, block, card, accepted, aborted, faults>>
vars == <<bufferVars, storeVars>>

NoBlock == [at |-> 0, cnt |-> 0, entries |-> 0]

Block == [at : Nat, cnt : Nat, entries : Nat]

StoredBlock == [cnt : Nat, entries : Nat, ids : SUBSET Nat]

TypeOK ==
  /\ BufferTypeOK
  /\ pc \in {"wait", "check", "read", "write", "consume"}
  /\ notified \in BOOLEAN
  /\ block \in Block
  /\ card \in Seq(StoredBlock)
  /\ accepted \in Nat
  /\ aborted \in BOOLEAN
  /\ faults \in Nat

Init ==
  /\ BufferInit
  /\ pc = "wait" /\ notified = FALSE
  /\ block = NoBlock
  /\ card = <<>>
  /\ accepted = 0
  /\ aborted = FALSE
  /\ faults = 0

-----------------------------------------------------------------------------
(* Core0Task1                                                              *)

\* (a slip: the poll looks for a ready block before it stores the frame)
IngestFrameStaleCheck(len) ==
  /\ accepted < MaxEntries
  /\ AddEntryOk("frame", accepted + 1, len)
  /\ accepted' = accepted + 1
  /\ notified' = (notified \/ IsBlockReady)
  /\ UNCHANGED <<pc, block, card, aborted, faults>>

\* appCanLogStoreToFrameBuffer of a frame; the poll notifies the writer when
\* the frame left a block ready
IngestFrame(len) ==
  /\ accepted < MaxEntries
  /\ AddEntryOk("frame", accepted + 1, len)
  /\ accepted' = accepted + 1
  /\ notified' = (notified \/ IsBlockReady')
  /\ UNCHANGED <<pc, block, card, aborted, faults>>

\* CanLogManager_EmitSyncEntry: the writer is not notified
IngestSync ==
  /\ accepted < MaxEntries
  /\ AddEntryOk("sync", accepted + 1, SyncLen)
  /\ accepted' = accepted + 1
  /\ UNCHANGED <<pc, notified, block, card, aborted, faults>>

\* a frame or a sync entry is dropped: CLB_E_BUFFER_FULL
IngestDrop ==
  /\ \E len \in EntryLens : AddEntryFull(len)
  /\ UNCHANGED storeVars

\* the commit branch of the poll
Commit ==
  /\ HasUsedSlots
  /\ FillBlockWithPadding
  /\ notified' = TRUE
  /\ UNCHANGED <<pc, block, card, accepted, aborted, faults>>

Producer ==
  \/ \E len \in FrameLens : IngestFrame(len)
  \/ IngestSync
  \/ IngestDrop
  \/ Commit

-----------------------------------------------------------------------------
(* SdBridgeTask                                                            *)

\* ulTaskNotifyTake(pdTRUE, portMAX_DELAY)
Wake ==
  /\ pc = "wait" /\ notified
  /\ notified' = FALSE
  /\ pc' = "check"
  /\ UNCHANGED <<bufferVars, block, card, accepted, aborted, faults>>

CheckReady ==
  /\ pc = "check"
  /\ pc' = IF IsBlockReady THEN "read" ELSE "wait"
  /\ UNCHANGED <<bufferVars, notified, block, card, accepted, aborted, faults>>

\* appCanLogStoreBlock takes the block in place, or gives up
ReadBlock ==
  /\ pc = "read"
  /\ IF NextBlockReadable
       THEN /\ ReadNextBlock
            /\ block' = [at |-> rPtr', cnt |-> blockCount,
                         entries |-> EntriesCount(rPtr')]
            /\ pc' = "write"
       ELSE /\ ReadNextBlockFails
            /\ pc' = "wait"
            /\ UNCHANGED block
  /\ UNCHANGED <<notified, card, accepted, aborted, faults>>

\* what the card receives: the bytes the block holds when the write runs
Stored ==
  [cnt |-> block.cnt, entries |-> block.entries,
   ids |-> {x.id : x \in BlockEntries(block.at)}]

WriteOk ==
  /\ pc = "write" /\ ~aborted
  /\ card' = Append(card, Stored)
  /\ pc' = "consume"
  /\ UNCHANGED <<bufferVars, notified, block, accepted, aborted, faults>>

\* (a slip: the block is consumed although it was not written)
WriteTimesOutConsuming ==
  /\ pc = "write" /\ faults < MaxFaults
  /\ faults' = faults + 1
  /\ pc' = "consume"
  /\ UNCHANGED <<bufferVars, notified, block, card, accepted, aborted>>

\* FatFS_SD_WriteFile fails before a byte is written (the volume lock times
\* out) or for good (a disk error marks the file object); the block stays in
\* the ring and ErrorHandler ends the loop
WriteTimesOut ==
  /\ pc = "write" /\ faults < MaxFaults
  /\ faults' = faults + 1
  /\ pc' = "wait"
  /\ UNCHANGED <<bufferVars, notified, block, card, accepted, aborted>>

\* (a slip: the same, for an error that stays)
WriteAbortsConsuming ==
  /\ pc = "write"
  /\ aborted \/ faults < MaxFaults
  /\ faults' = IF aborted THEN faults ELSE faults + 1
  /\ aborted' = TRUE
  /\ pc' = "consume"
  /\ UNCHANGED <<bufferVars, notified, block, card, accepted>>

WriteAborts ==
  /\ pc = "write"
  /\ aborted \/ faults < MaxFaults
  /\ faults' = IF aborted THEN faults ELSE faults + 1
  /\ aborted' = TRUE
  /\ pc' = "wait"
  /\ UNCHANGED <<bufferVars, notified, block, card, accepted>>

\* the write succeeds and the f_sync that follows it fails
SyncFails ==
  /\ pc = "write" /\ ~aborted /\ faults < MaxFaults
  /\ faults' = faults + 1
  /\ card' = Append(card, Stored)
  /\ pc' = "wait"
  /\ UNCHANGED <<bufferVars, notified, block, accepted, aborted>>

\* (a slip: the written block stays in the ring)
ConsumeForgotten ==
  /\ pc = "consume"
  /\ pc' = "check"
  /\ UNCHANGED <<bufferVars, notified, block, card, accepted, aborted, faults>>

ConsumeBlock ==
  /\ pc = "consume"
  /\ Consume
  /\ pc' = "check"
  /\ UNCHANGED <<notified, block, card, accepted, aborted, faults>>

SdBridge ==
  \/ Wake \/ CheckReady
  \/ ReadBlock
  \/ WriteOk \/ WriteTimesOut \/ WriteAborts \/ SyncFails
  \/ ConsumeBlock

Next == Producer \/ SdBridge

Spec == Init /\ [][Next]_vars

\* SdBridgeTask runs whenever the tasks above it block, and they do every few
\* milliseconds; an operation of the card ends
FairSpec == Spec /\ WF_vars(Wake \/ CheckReady \/ ReadBlock \/ WriteOk \/ ConsumeBlock)

-----------------------------------------------------------------------------
Entries == {x \in ring : x.kind # "pad"}
RingIds == {x.id : x \in Entries}
CardIds == UNION {card[i].ids : i \in DOMAIN card}

\* Every entry AddEntry accepted is on the card or still in the ring, and the
\* card holds a prefix of them: nothing is lost or overtaken between the
\* ingest task and the writer, whatever the card does.
NothingLost ==
  /\ CardIds \cup RingIds = 1..accepted
  /\ \A x \in CardIds, y \in RingIds \ CardIds : x < y

\* The staging buffer, its two tasks and the card together behave like the
\* ordered, append-only log of accepted entries.
Log == INSTANCE FrameLog WITH stored <- CardIds
ImplementsFrameLog == Log!Spec

\* The blocks on the card are in the order of their entries; a block appears
\* twice only if a sync failed after its write, and then back to back.
CardInOrder ==
  \A i, j \in DOMAIN card : i < j =>
    \/ \A x \in card[i].ids, y \in card[j].ids : x < y
    \/ faults > 0 /\ card[i].ids = card[j].ids /\ \A k \in i..j : card[k].ids = card[i].ids

\* AddEntry and FillBlockWithPadding keep every entry inside one block, behind
\* the block's header, and entries never overlap.
EntriesWithinBlocks ==
  /\ \A x \in Entries : /\ Offset(x.at) >= HeaderSize
                        /\ Offset(x.at) + x.len <= BlockSize
                        /\ rPtr <= x.at /\ x.at + x.len <= wPtr
  /\ \A x, y \in Entries : x.id < y.id => x.at + x.len <= y.at

\* A block IsBlockReady announces is one ReadNextBlock accepts.  A ready block
\* without an entry would be refused for ever: never consumed, it would hold
\* the writer and, once the ring is full, the ingest.
ReadyBlockIsReadable == IsBlockReady => NextBlockReadable

\* CLB_E_BUFFER_FULL is returned only when less than a block is free.
FullMeansFull == \A len \in EntryLens : ~EntryFits(len) => FreeAt(wPtr) < BlockSize

\* The header that ReadNextBlock wrote ahead of the card's write still says how
\* many entries the block has when its bytes reach the card: no entry joins or
\* leaves the block in between.
HeaderMatchesBlock ==
  \A i \in DOMAIN card : card[i].entries = Cardinality(card[i].ids)

\* A block followed by a frame is written, even if the bus then falls silent:
\* the poll looked for a ready block after storing that frame, and a
\* notification given while the writer is busy is not lost.  (A block completed
\* by a sync entry alone waits for the next frame or commit; a write that fails
\* ends the writer's loop, and only a further notification retries it.)
BlockBehindFrameIsWritten ==
  [](faults = 0) => \A n \in 0..MaxEntries :
    (/\ rPtr = n * BlockSize /\ IsBlockReady
     /\ \E x \in ring : x.kind = "frame" /\ x.at >= rPtr + BlockSize)
      ~> rPtr > n * BlockSize
=============================================================================
