------------------------------ MODULE LogFiles ------------------------------
(***************************************************************************)
(* The log files CAN.LOG0 .. CAN.LOG<NumFiles-1> on the card: their         *)
(* preallocation at boot, the writing of blocks with the rotation behind    *)
(* it (CanLogManager.c, FileHandler.c), the epoch that tells the blocks of  *)
(* one boot from those that earlier boots left in the same files, and what  *)
(* the web page makes of head, tail and the files when it exports the log.  *)
(* Cards fail, locks time out and the power goes at any time.               *)
(*                                                                          *)
(* A file is the sequence of blocks that its directory entry covers; the    *)
(* file size is a multiple of the block size.  SdBridgeTask is the only     *)
(* writer and holds the file mutex for a whole step.                        *)
(***************************************************************************)
EXTENDS Naturals, Sequences, FiniteSets

CONSTANTS
    NumFiles,    \* appCanLogGetLogFileCount()
    FileBlocks,  \* appCanLogGetLogFileSize() in blocks
    EpochRange,  \* the epoch in a block header is a byte: 256
    MaxBlocks,   \* bound: blocks stored per boot
    MaxBoots,    \* bound: boots
    MaxFaults    \* bound: failing operations of the card or the file system

ASSUME LogFilesAssumption ==
    /\ {NumFiles, FileBlocks, EpochRange, MaxBoots} \subseteq Nat \ {0}
    /\ {MaxBlocks, MaxFaults} \subseteq Nat

VARIABLES
    card,        \* the files that exist, with the blocks that their directory entries cover
    epochOnCard, \* the epoch in the metadata file; 0: there is no file
    stage,       \* where appCanLogHandlerInit is: "meta", "preallocate", "open", "running"
    next,        \* m_preallocate_log_files: index of the file to look at
    epoch,       \* LogMetaData.epoch
    fil,         \* CanLog.writeFileDevice and CanLog.openRes
    head, tail, wrapped,  \* fileHeadIndex, fileTailIndex, fileIndexWrapped
    boots,       \* ghost: number of the boot
    stored,      \* ghost: blocks stored since the boot
    epochKept,   \* ghost: no load or store of the metadata has failed
    creationFailed, \* ghost: the creation of a file failed
    faults       \* ghost: failing operations so far

cardVars == <<card, epochOnCard>>
logVars == <<fil, head, tail, wrapped, stored>>
bootVars == <<stage, next, epoch>>
ghostVars == <<boots, epochKept, creationFailed, faults>>
vars == <<cardVars, logVars, bootVars, ghostVars>>

Indices == 0 .. NumFiles - 1

Blank == [boot |-> 0, n |-> 0, epoch |-> EpochRange]   \* a block that was never written

\* Block n of this boot; n = 0: a block that was only partly written.
Block(n) == [boot |-> boots, n |-> n, epoch |-> epoch % EpochRange]

ClosedFile == [file |-> 0, pos |-> 0, behind |-> <<>>, open |-> FALSE, error |-> FALSE]

\* The file as f_open leaves it, positioned at its start.
Opened(f) == [ClosedFile EXCEPT !.file = f, !.open = TRUE]

Exists(f) == f \in DOMAIN card

\* The files of c with contents s for file f.
WithFile(c, f, s) == [g \in DOMAIN c \cup {f} |-> IF g = f THEN s ELSE c[g]]

Preallocated == [b \in 1 .. FileBlocks |-> Blank]

MayFail == faults < MaxFaults
Failed == MayFail /\ faults' = faults + 1

\* Power-up: a card without logs.
Init ==
    /\ card = <<>>
    /\ epochOnCard = 0
    /\ stage = "meta"
    /\ next = 0
    /\ epoch = 0
    /\ fil = ClosedFile
    /\ head = 0 /\ tail = 0 /\ wrapped = FALSE
    /\ boots = 1
    /\ stored = 0
    /\ epochKept = TRUE
    /\ creationFailed = FALSE
    /\ faults = 0

-----------------------------------------------------------------------------
(* Boot *)

\* (a slip: the incremented epoch is not stored)
MetaDataNotStored ==
    /\ stage = "meta"
    /\ stage' = "preallocate"
    /\ next' = 0
    /\ epoch' = epochOnCard + 1
    /\ UNCHANGED <<cardVars, logVars, ghostVars>>

\* The epoch is loaded, incremented and stored.  A load that fails leaves it
\* at zero; the result of the store is not looked at.
MetaData ==
    /\ stage = "meta"
    /\ stage' = "preallocate"
    /\ next' = 0
    /\ \/ /\ epoch' = epochOnCard + 1
          /\ epochOnCard' = epoch'
          /\ UNCHANGED <<faults, epochKept>>
       \/ /\ Failed
          /\ epochKept' = FALSE
          /\ epoch' \in {1, epochOnCard + 1}
          /\ epochOnCard' \in {epochOnCard, epoch'}
    /\ UNCHANGED <<card, logVars, boots, creationFailed>>

\* m_verify_preallocation seeks to the end of the file in read mode, where
\* FatFs stops at the file's end and reports success: every file passes.
Verified(f) == Exists(f)

\* The last file is taken for the proof of all others.
PreallocationComplete ==
    /\ stage = "preallocate"
    /\ next = 0 /\ Verified(NumFiles - 1)
    /\ stage' = "open"
    /\ UNCHANGED <<cardVars, next, epoch, logVars, ghostVars>>

\* (a slip: the loop ends before the file with the highest index)
PreallocateFileButLast ==
    /\ stage = "preallocate"
    /\ next # 0 \/ ~Verified(NumFiles - 1)
    /\ next' = next + 1
    /\ stage' = IF next' = NumFiles - 1 THEN "open" ELSE stage
    /\ card' = IF Verified(next) THEN card ELSE WithFile(card, next, Preallocated)
    /\ UNCHANGED <<epochOnCard, epoch, logVars, ghostVars>>

\* One round of m_preallocate_log_files.  A file that cannot be created,
\* extended or closed is missing or empty.
PreallocateFile ==
    /\ stage = "preallocate"
    /\ next # 0 \/ ~Verified(NumFiles - 1)
    /\ next' = next + 1
    /\ stage' = IF next = NumFiles - 1 THEN "open" ELSE stage
    /\ \/ /\ Verified(next)
          /\ UNCHANGED <<card, creationFailed, faults>>
       \/ /\ ~Verified(next)
          /\ card' = WithFile(card, next, Preallocated)
          /\ UNCHANGED <<creationFailed, faults>>
       \/ /\ ~Verified(next)
          /\ Failed
          /\ creationFailed' = TRUE
          /\ card' \in {card, WithFile(card, next, <<>>)}
    /\ UNCHANGED <<epochOnCard, epoch, logVars, boots, epochKept>>

\* appCanLogOpenMostRecentFile: every boot starts with the first file at its
\* first byte; the file is created if it is missing.
OpenMostRecentFile ==
    /\ stage = "open"
    /\ stage' = "running"
    /\ head' = 0 /\ tail' = 0 /\ wrapped' = FALSE
    /\ \/ /\ fil' = Opened(0)
          /\ card' = IF Exists(0) THEN card ELSE WithFile(card, 0, <<>>)
          /\ UNCHANGED faults
       \/ /\ Failed
          /\ fil' = ClosedFile
          /\ UNCHANGED card
    /\ UNCHANGED <<epochOnCard, next, epoch, stored, boots, epochKept, creationFailed>>

-----------------------------------------------------------------------------
(* Writing *)

\* A write inside the directory entry's size is on the card at once; one
\* behind it is within reach only when the directory entry is synchronised.
InPlace == fil.pos < Len(card[fil.file])

\* appCanLogCheckNewFileOpenLocked behind a stored block: f is the file
\* object, c the card and n the number of faults as the write has left them.
FileFull(f) == f.pos >= FileBlocks

NewHead == (head + 1) % NumFiles

\* (a slip: the tail is put on the file that is being written)
AdvanceTailToHead ==
    /\ head' = NewHead
    /\ wrapped' = (wrapped \/ head >= NumFiles - 1)
    /\ tail' = IF wrapped' THEN NewHead ELSE tail

\* (a slip: the tail moves before the indices have wrapped)
AdvanceTailAlways ==
    /\ head' = NewHead
    /\ wrapped' = (wrapped \/ head >= NumFiles - 1)
    /\ tail' = (NewHead + 1) % NumFiles

Advance ==
    /\ head' = NewHead
    /\ wrapped' = (wrapped \/ head >= NumFiles - 1)
    /\ tail' = IF wrapped' THEN (NewHead + 1) % NumFiles ELSE tail

\* The next file is opened for overwriting, its contents stay.  An open that
\* fails is repeated as f_open(FA_CREATE_ALWAYS), which creates a missing file
\* and empties any other.
OpenNextFile(c, n) ==
    \/ /\ NewHead \in DOMAIN c
       /\ fil' = Opened(NewHead)
       /\ card' = c
       /\ faults' = n
    \/ /\ NewHead \notin DOMAIN c
       /\ fil' = Opened(NewHead)
       /\ card' = WithFile(c, NewHead, <<>>)
       /\ faults' = n
    \/ /\ n < MaxFaults
       /\ fil' \in {Opened(NewHead), ClosedFile}
       /\ card' = IF fil'.open THEN WithFile(c, NewHead, <<>>) ELSE c
       /\ faults' = n + 1

\* A close that fails leaves the file open and the indices alone: the next
\* block goes behind the file's nominal end, and the close is tried again.
Rotate(f, c, n) ==
    \/ /\ ~FileFull(f)
       /\ fil' = f /\ card' = c /\ faults' = n
       /\ UNCHANGED <<head, tail, wrapped>>
    \/ /\ FileFull(f)
       /\ Advance
       /\ OpenNextFile(c, n)
    \/ /\ FileFull(f)
       /\ n < MaxFaults
       /\ fil' = f /\ card' = c /\ faults' = n + 1
       /\ UNCHANGED <<head, tail, wrapped>>

MayStore == stage = "running" /\ fil.open /\ ~fil.error /\ stored < MaxBlocks

\* Behind a successful write, with c the card and n the faults until then.
BlockStored(c, n) ==
    /\ stored' = stored + 1
    /\ Rotate([fil EXCEPT !.pos = @ + 1, !.behind = <<>>], c, n)
    /\ UNCHANGED <<epochOnCard, bootVars, boots, epochKept, creationFailed>>

\* appCanLogStoreBlock: the block is written, a file that has grown is
\* synchronised, and the file is changed when it is full.
StoreBlock ==
    /\ MayStore
    /\ BlockStored(IF InPlace
                     THEN [card EXCEPT ![fil.file][fil.pos + 1] = Block(stored + 1)]
                     ELSE [card EXCEPT ![fil.file] = @ \o Append(fil.behind, Block(stored + 1))],
                   faults)

\* The seek in front of the write times out at the volume's lock.  It is taken
\* for a corrupt file: f_truncate cuts the file at the write position.
StoreBlockTruncating ==
    /\ MayStore /\ MayFail
    /\ InPlace
    /\ BlockStored([card EXCEPT ![fil.file] = Append(SubSeq(@, 1, fil.pos), Block(stored + 1))],
                   faults + 1)

\* The write behind the end succeeds, its synchronisation fails: the block is
\* not consumed and will be written once more, behind this one.
SyncFails ==
    /\ MayStore /\ Failed
    /\ ~InPlace
    /\ fil' = [fil EXCEPT !.pos = @ + 1, !.behind = Append(@, Block(stored + 1))]
    /\ UNCHANGED <<cardVars, head, tail, wrapped, stored, bootVars, boots, epochKept, creationFailed>>

\* A block in whose place the old and the new contents are mixed.
PartlyWritten ==
    IF InPlace THEN {[card EXCEPT ![fil.file][fil.pos + 1] = Block(0)]} ELSE {}

\* A write that the card refuses half-way: FatFs marks the file object, and
\* every later operation on it fails.
WriteAborts ==
    /\ MayStore /\ Failed
    /\ fil' = [fil EXCEPT !.error = TRUE]
    /\ card' \in {card} \cup PartlyWritten
    /\ UNCHANGED <<epochOnCard, head, tail, wrapped, stored, bootVars, boots, epochKept, creationFailed>>

-----------------------------------------------------------------------------
(* Power *)

\* What a power cut leaves of an operation that is under way: a block that is
\* partly written, or a file that is created and not yet closed.
CutShort ==
    {card}
    \cup (IF MayStore THEN PartlyWritten ELSE {})
    \cup (IF stage = "preallocate" /\ ~Exists(next)
            THEN {WithFile(card, next, <<>>)} ELSE {})

PowerCut ==
    /\ boots < MaxBoots
    /\ boots' = boots + 1
    /\ card' \in CutShort
    /\ stage' = "meta"
    /\ next' = 0
    /\ epoch' = 0
    /\ fil' = ClosedFile
    /\ head' = 0 /\ tail' = 0 /\ wrapped' = FALSE
    /\ stored' = 0
    /\ UNCHANGED <<epochOnCard, epochKept, creationFailed, faults>>

Next ==
    \/ MetaData
    \/ PreallocationComplete
    \/ PreallocateFile
    \/ OpenMostRecentFile
    \/ StoreBlock
    \/ StoreBlockTruncating
    \/ SyncFails
    \/ WriteAborts
    \/ PowerCut

Spec == Init /\ [][Next]_vars
=============================================================================
