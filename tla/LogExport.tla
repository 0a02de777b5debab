------------------------------ MODULE LogExport ------------------------------
(***************************************************************************)
(* The log as the user gets it: the web page reads head and tail, fetches   *)
(* the files from tail to head, joins them, and decodes blocks until the    *)
(* epoch changes (can_trace.html, fs_custom_logs.c).  Rotation, epoch and   *)
(* page together make the recording; no part knows the others.              *)
(***************************************************************************)
EXTENDS LogFiles

\* The page walks from tail to head, both included, modulo the capacity.
LastOfWalk == (head + NumFiles - tail) % NumFiles
Walk(i) == (tail + i) % NumFiles

\* The places of the joined files; a file that cannot be fetched is skipped.
Exported ==
    UNION {{<<i, p>> : p \in DOMAIN card[Walk(i)]} : i \in {j \in 0 .. LastOfWalk : Exists(Walk(j))}}

BlockAt(q) == card[Walk(q[1])][q[2]]

UpTo(q) == {r \in Exported : r[1] < q[1] \/ (r[1] = q[1] /\ r[2] <= q[2])}

\* parseCanLog: everything in front of the first block of another epoch.
Decoded ==
    {BlockAt(q) : q \in {r \in Exported : \A s \in UpTo(r) : BlockAt(s).epoch = BlockAt(r).epoch}}

DecodedNumbers == {b.n : b \in Decoded} \ {0}

-----------------------------------------------------------------------------

\* The epoch byte can only tell as many boots apart as it has values, and only
\* when the metadata file could be read and written.
EpochsTellBoots == epochKept /\ boots <= EpochRange

\* A close that fails makes the writer append to a full file.  In later boots
\* the block behind the file's nominal end is never overwritten, and the page
\* stops at its epoch: everything behind that file is lost to the export.
NoFileOverlong == \A f \in DOMAIN card : Len(card[f]) <= FileBlocks

\* What the page decodes are blocks of this boot without a gap, up to the
\* newest: the remainder of the file that is being overwritten continues the
\* oldest complete file, in front of it, and the leftovers of earlier boots are
\* cut off by their epoch - whatever failed in between, short, truncated and
\* emptied files included, overlong ones excepted.  With a single file there is
\* nothing else to export when the rotation has to empty it.
ExportIsContiguous ==
    stage = "running" /\ stored > 0 /\ EpochsTellBoots /\ NoFileOverlong /\ NumFiles > 1 =>
        /\ \A b \in Decoded : b.boot = boots
        /\ \E k \in 1 .. stored : DecodedNumbers = k .. stored

\* Without failures all complete files are in the export: the oldest blocks
\* are overwritten first, and not before the other files are full.
ExportHoldsCompleteFiles ==
    stage = "running" /\ faults = 0 /\ EpochsTellBoots =>
        \A n \in 1 .. stored :
            n + (NumFiles - 1) * FileBlocks > stored => n \in DecodedNumbers

\* Blocks of two boots have the same epoch only if the boots are an epoch range
\* or more apart, as long as the metadata could be kept: a boot that the power
\* cut short before its epoch was stored has no blocks either.
EpochTellsBoots ==
    epochKept =>
        \A f, g \in DOMAIN card : \A i \in DOMAIN card[f], j \in DOMAIN card[g] :
            LET b == card[f][i]  c == card[g][j]
            IN  b.epoch = c.epoch /\ b.boot < c.boot => b.boot + EpochRange <= c.boot

\* When no creation of a file has failed, every file is there once the boot is
\* through, whatever power cuts interrupted the preallocation; the rotation
\* then keeps their number constant.
AllFilesExist ==
    stage = "running" /\ ~creationFailed => DOMAIN card = Indices
=============================================================================
