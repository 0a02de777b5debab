# A formal model of the CAN logger

The firmware in `src/` records the frames of two CAN buses on an SD card. An
STM32H7 core runs FreeRTOS; frames come in by interrupt, pass through three
buffers and two tasks, are packed into 64 KiB blocks and written to a FATFS file,
while a web interface starts and stops recordings, serves the log files and
updates the firmware. The modules beside this file model the path of a frame, from the
controller's FIFO to the card and from there to the page that exports it, with the time
stamps it gets on the way; the configuration and how it is saved; the SPI stack under the
card; and the firmware update, from the HTTP request to the boot. TLC checks them on
small instances, and TLAPS proves their safety properties for every value of the
parameters.

`PROJECT.json` lists the components, the runs, the source lines behind every
definition, the hazards and the theorems.

## 1. The system

| Component | State | Operations | Talks to |
|---|---|---|---|
| FDCAN driver, `CanAbs` | controllers' FIFOs and flags, driver state, receive rings, sequence numbers | receive interrupt, start, stop, drain | notifies `CanBridgeTask` through a software interrupt |
| Receive rings, `buffers.h` | slots, head, tail, `elementCount`, `isFull` | put (interrupt), pop (task) | shared without a lock |
| `CanBridgeTask`, `fdcan_msg_port` | the page being filled, the message buffer, the page being read | receive, flush, read | message buffer of 150 pages of 10 frames to `Core0Task1` |
| `Core0Task1`, `appCanLogHandlerPoll` | `runCanTracer` and its old value, `commitLog`, sequence checkers | start branch, stop branch, ingest loop, commit, checks | adds entries to `CanLogBuffer`, notifies `SdBridgeTask` |
| `CanLogBuffer` | byte ring of 8 blocks, block counter | AddEntry, FillBlockWithPadding, IsBlockReady, UsedSlots, ReadNextBlock, Consume | called by two tasks without a lock |
| `SdBridgeTask`, `appCanLogStoreBlock` | notification, block in hand | wait, read, write, sync, consume, rotate | FATFS file on the card |
| `RuntimeChecks`, `SequenceChecker` | drop counters, frame counts | reset at a start, check at each poll | set `framesLost` for the web interface |
| Log files and metadata | the files, head and tail index, epoch, write position | preallocate, write, rotate, store metadata | FATFS; head and tail are read by the web page |
| Firmware update (`Iap*`, `httpd_post`) | writer context, pending bytes, verification | prepare, begin, chunks, finalise, verify, apply | flash, hand-over marker |
| Hand-over and boot | marker sector, image slots | request, clear, swap | reset |
| Configuration | `CONF.TXT`, `AppConfig` (baud rates and modes), what the controllers and the log manager have been given | set a parameter, save, apply, load | FATFS, `CanAbs` |
| Time base, time stamps | TIM3's counter and update flag, `Time`; each controller's last sample and last stamp | timer interrupt with its poll, sample, reconstruct | the receive interrupts, which may preempt the timer's and which it may set pending |
| SPI stack | transmit and receive ring, notification counter, DMA, the clients' contexts | place a request, transfer, call back, time out | DMA interrupts; `SD` above it |
| SD protocol | card state | commands | SPI stack, FATFS |
| Web interface | connections, uploads | GET, POST | sets flags that the main task polls |

Priorities, which decide what can preempt what: interrupts, then `CanBridgeTask`,
`SpiTask`, `Core0Task1`, `SdBridgeTask`, `CanSendTask` and last `Core0Task0`
(network and web interface). There is one core, so that an operation of a task
that does not block is one step for every task below it, and its accesses are
interleaved only with those above it. The models use exactly this.

What is hard here:

- *interleaving*: the rings' counters are written by an interrupt and a task with
  no protection; the block ring has two tasks on it; notifications are taken
  before the work they announce is looked at.
- *failure*: a write may fail and be retried, succeed while its sync fails, or
  fail for good because FATFS marks the file object; a controller may refuse to
  start or to stop.
- *crashes*: the power goes at any time, between the sectors of a save, between the
  files of a preallocation, between the metadata and the blocks they stand for.
- *stale state*: a frame may be stamped with a sample of its controller that is periods
  old; a change of the configuration may be saved and not applied, or applied and refused.
- *late answers*: a client of the SPI stack gives up while its transfer goes on.
- *limits*: every buffer on the way can be full, and each reacts differently.
- *ordering*: a stop must push the last frames of the recording through all of
  it before the commit.
- *reporting*: whatever is lost must end in `framesLost`.
- *requests that overlap*: several connections upload, prepare and apply while the
  verification advances one buffer per poll, and a connection may vanish or come back
  under the address of another one.

The properties that make each part correct: the block ring loses nothing, never
reorders and never shows its reader a layout that it cannot walk; the rings
deliver every frame once and in order as long as no race happens, and a race
never invents a frame; the receive path logs a channel in order, reports every
loss and commits behind the last frame; the card has the entries once, in order,
except for the block whose sync failed; the export shows a gapless end of this boot's
recording, with nothing of earlier boots; a save that the power cuts leaves the old or
the new configuration; a request to the SPI stack is answered with its own response; a
frame's stamp is the time it came, if the sample for its controller is recent; what the update verifies and hands over to the
bootloader is the image that was received, byte for byte.

## 2. Modules

| Module | Models | Source |
|---|---|---|
| `CanLogBuffer` | the block ring: layout, padding, header, readiness, hand-out and consumption | `CanLogBuffer.c` |
| `CanLogStore` | the ring between `Core0Task1` and `SdBridgeTask`, the card and its failures; EXTENDS `CanLogBuffer` | `CanLogManager.c`, `SdBridgeTask.c`, `FileHandler.c` |
| `FrameLog` | abstract: an ordered append-only log of accepted entries | what the logger promises |
| `MCCanLogStore` | the small instance of `CanLogStore` | - |
| `CanLogStore_proofs` | theorems about `CanLogStore`: ring, refinement and card | - |
| `RxRing` | the receive rings, access by access, and the bridge's wake-up | `buffers.h`, `CanBridgeTask.c` |
| `CanRx` | FIFO, interrupt, ring, page, message buffer, ingest loop, start and stop | `CanAbs.c`, `fdcan.c`, `fdcan_msg_port.c`, `CanLogManager.c`, `RuntimeChecks.c` |
| `RxRing_proofs` | theorems about `RxRing` | - |
| `CanRx_proofs` | theorems about `CanRx` | - |
| `TimeStamps` | the timer and its poll, the two receive interrupts' samples and the reconstruction of a frame's time | `CanCtrl.c`, `timer.c`, `CanAbs.c`, `fdcan.c` |
| `TimeStamps_proofs` | theorems about `TimeStamps` | - |
| `LogFiles` | the log files: preallocation, writing, rotation, metadata, boots | `CanLogManager.c`, `FileHandler.c` |
| `LogExport` | what the web page makes of them; EXTENDS `LogFiles` | `parseCanLog` of `can_trace.html` |
| `LogExport_proofs` | theorems about `LogFiles` and `LogExport` | - |
| `Settings` | changing, saving, applying and loading baud rates and modes | `SettingsHandler.c`, `ConfigManager.c`, `FileHandler.c`, `Core0Task0.c`, `fdcan.c` |
| `Settings_proofs` | theorems about `Settings` | - |
| `SpiStack` | clients, `SpiTask`, rings, notification and DMA | `SpiAbs.c`, `spi.c`, `Spi_Cmds.c`, `SpiTask.c`, `spi_port_freertos.c`, `buffers.h` |
| `SpiStack_proofs` | theorems about `SpiStack` | - |
| `IapWriter` | flash, writer and alignment of the staged image, as parts of actions | `IapWriter.c`, `IapIngestAdapter.c`, `flash.c` |
| `FirmwareUpdate` | uploads, preparation, verification, hand-over, reset and boot; EXTENDS `IapWriter` | `httpd_post.c`, `fs_custom_iap.c`, `Iap.c`, `Core0Task0.c`, `FwUpdateHandoff.c`, `mcuboot_port.c` |
| `ImageStaging` | abstract: an image is received, verified and handed over, unchanged | what the update promises |
| `FirmwareUpdate_proofs` | theorems about `FirmwareUpdate` | - |

**CanLogBuffer.** `wPtr` and `rPtr` are stream positions, the code's pointers
before the modulo; `ring` is the set of items between them (frame, sync entry or
padding), each with its position and length. An entry is laid by one step: the
code's loop pads at most once and opens a block at most once, and what it wrote
before it found no room stays (`AddEntryFull`). Bytes of headers are the places
no item covers. `ReadNextBlock`'s branch for a partial block cannot run, because
the block must be contiguous first; it has no action. Left out are the counters
`CanLogBuffer_FrameCount1/2`, the high-water marks and the timings, which only
the diagnostics pages show.

**CanLogStore.** A whole `AddEntry`, with the readiness check and the notification
behind it, is one step of the ingest task; `SdBridgeTask` has a step per access
that the ingest task could fall between: wait, check, read, write, consume.
`card` is the file: a block's sequence number, the entry count of its header and
the entries its bytes hold when the write runs (not when the header was made).
The card may fail in three ways: `WriteTimesOut` (FR_TIMEOUT before a byte is
written; the block can be retried), `WriteAborts` (FATFS marks the file object and
every later write fails), and `SyncFails` (written, but reported as failed). A torn
block behind an aborted write is not entered in `card`.

**RxRing.** `ring_buffer_put` runs in the interrupt and is one step;
`ring_buffer_pop` is six: the test for empty, the copy with the tail's step, the load
and the store of `elementCount--`, `isFull = 0`. The compiler must load the count
again behind the `memcpy`, which may alias it. A frame is the number of its
acceptance, so that order, loss and duplication are visible. `raced` records that
an interrupt fell into one of the two places that the code does not bear: between the
load and the store of the decrement, and behind it when the put fills the ring.

**CanRx.** The rings are plain sequences here (their races are `RxRing`'s
subject). `FrameArrives` is the controller: it stores or loses a frame and sets the
watermark and lost flags. `RxInterrupt` reads up to the watermark from all the
controllers, as `CANABS_CONSUME_ALL_FRAMES_ON_ANY_IRQ` makes it. Guards carry the
priorities: the bridge runs when no interrupt is raised, `Core0Task1` when the
bridge waits, and the main task's `Request` and the writer's `Rotation` only while
`Core0Task1` is blocked. `StopChannel` lets `HAL_FDCAN_Stop` keep or reset the FIFO,
both of which the hardware's documentation admits; a refused sync entry, which is
counted as a drop and nothing more, is a choice of `Ingest` and `PollEnds`. `left`
names the frames that no interrupt was going to fetch any more.

**TimeStamps.** Time passes tick by tick, and TIM3's interrupt is two steps: it clears the
update flag, and it adds the period to `Time`. FDCAN's interrupts have the higher priority
(`nvic_irg_config.h`) and may sample in between. Each of the two samples for its own
controller only (`Sample`), and then reads the FIFOs of both, as
`CANABS_CONSUME_ALL_FRAMES_ON_ANY_IRQ` makes it; a frame is completed with the last
sample for the frame's controller (`ReadFrame`), which may be periods old when the other
controller's interrupt reads it: its own then finds the flags cleared and does not come
(`Leave`). How long a frame waits in its FIFO is not limited: the interrupt comes for the
watermark or a lost message, or when `CANABS_CheckIsrPollPeriod` sets controller 1's
interrupt pending. The poll is three steps, between which either interrupt may come. The
flags that `HAL_FDCAN_IRQHandler` finds decide whether the callback runs, so that an
interrupt set pending by software reads nothing (`CallBack`); the HAL is not under `src/`,
and this is modelled from how `fdcan.c` calls it. `Tick` assumes that an interrupt which
reads at most twice the watermark takes less than half a period, and that TIM3's comes
before the next period ends.

`StampFollowsSample` states what follows: a frame within half a period of the last sample
for its controller has the right stamp, but for the one window of `SampleExact`; a frame
that came later is stamped early, one that had waited longer is stamped late, and only the
other controller's interrupt stamps early. `CorrectionNeverActs` says that the
monotonic correction changes no stamp at all. Left out: that a time is two words
of 32 bits and a frame keeps one, a period of zero, the bus load computed from the stamps,
and controllers that are started and stopped.

**LogFiles, LogExport.** A file is the sequence of blocks its directory entry covers; a
block is known by the boot that wrote it, its number in that boot and its epoch byte.
`appCanLogHandlerInit` is the stages "meta", "preallocate", "open"; each file of the
preallocation is a step, so that a power cut may leave some of them. After that every
step is `appCanLogStoreBlock` of one block with its branches: a write that fails, one that
is torn, a seek that fails (taken for corruption, `f_truncate`), a close that fails (the
block goes behind the nominal end), a reopen that fails (the file is emptied), and the
rotation with head, tail and wrap. A boot loads the metadata or, failing that, starts
again with epoch 1, and always begins at the first byte of the first file, whatever
blocks are the oldest ("oldest data overwritten first", `doc/arc42-template-EN.md:782`,
is true within a boot). `f_lseek` does not extend a file opened for reading, so that
`m_verify_preallocation` accepts every file that exists. FatFs is modelled as far as its
callers tell its outcomes apart, from `libs/ff15a/source/ff.c`. `LogExport` is the page: it joins the
files from tail to head and stops at the first block of another epoch. A place in the joined
files is a pair, the step of the walk and the place in its file; what the page decodes are the
places up to which all blocks have one epoch. `ExportIsContiguous` is about more than one
file: a configuration of one file is accepted (`WebInterface.c:73`), but its rotation empties or
overwrites the only file that the page could fetch. Left out: a card
that is full, a power cut between a truncation and the write behind it, a mount that
fails, and several exports at a time, which share `reqState`.

**Settings.** Of the text in `CONF.TXT` only the end matters, because only a baud rate
of 1000000 changes its length: two digits' worth of places, the closing brace and the
newline. A save overwrites the text in place (`Overwritten`) and writes the directory entry
behind it (`Closed`); `PowerCutInSave` stops before, between or after the two. `Loop` is the
round of `Core0Task0` that saves and then applies; callbacks of the web forms run in
between, from `http_poll`. A mode goes the same way as a baud rate and does not
change the length of the text. What the controllers run with is set at three places: by
`appFdcanInit` at boot, which knows the default baud rates but not the modes and leaves the
build's `FDCAN_MODE_DEFAULT`, normal; by the load of a configuration; and by `Apply`.
`FDCAN_SetMode` refuses the mode "off", and nobody looks at its result (`Configured`).
`untold` marks a boot that found no configuration, behind which the controllers keep
the build's mode until the first application. `jumped` marks a save whose closing brace comes to lie
behind the old end of the file, or moves back by two places; two cut saves in a row can
add up to that (the proof found it), and so the condition looks at the file as it is, not
at the last configuration saved.

**SpiStack.** The clients take turns, as the lock of the volume makes them, and come
below `SpiTask`; `ring_buffer_reserve` in the client is four steps: the head and the load of
`elementCount++`, its store, the comparison with the ring's length, and `isFull = 1`;
`SpiTask` may run between any of them. `SPI_Poll` looks at `elementCount` and then at the
slot, and `ring_buffer_peek_at` counts by head, tail and `isFull` (`PeekFails`): with a count
that a race left too high, or before a full ring is marked, it finds nothing and returns with
the notification spent. A request that is refused notifies `SpiTask` all the same, unless it
was to poll for a byte (`Refused`). A time-out
comes at any moment of a wait. `RightAnswer` speaks of the data a request returned, a number
here; `notified` is the one counter for new requests and for the end of a DMA transfer.
The transmit ring of the second priority, which nothing uses, is left out.

**IapWriter.** The slot is a sequence of bytes, and a byte is named by the request it
came in and its place in the body. The FNV hash of the code is the sequence of the
bytes that went into it: two contents with one hash are left out, everything else
about the incremental hash (where it starts, that it goes on at `verify_offset`) is
kept. The adapter's loop over a body (fill the pending word, write it, write the
aligned rest, keep the remainder) is one definition, because between its two writes
nothing else runs; `WriteChunkFails` stops behind any of the words.

**FirmwareUpdate.** The callbacks of lwIP's server, the verification and the apply
request all run in `Core0Task0`, one behind the other; `phase` is the place in its
loop. The server's side of a request (`post`, `finishing`) is modelled from how
`httpd_post.c` is called, its source not being in the repository: begin, any number of
data callbacks with one buffer each, finished. A connection is an address, which
another one may have after it; a server that drops a connection without
`httpd_post_finished` is the constant `SilentLoss`. `map` is `conn_map` with each
entry's pipeline, whose counter is always the entry's `received`. `valid_connection`
equals `current_connection` between callbacks. Requests to other paths are refused
before they touch any state and are left out.
`marker` says whether the hand-over sector has a valid record. `Reset` is
`NVIC_SystemReset` or a power cut at any point of the loop, with the boot behind it:
the record is cleared and MCUboot swaps the slots or not. `unheeded` remembers that
one of the two erases failed whose failure the code does not act upon
(`Iap_PrepareUploadSlot` and the boot's clearing); the safety properties say what
holds as long as that has not happened. After a failing erase in the preparation the state
stays "verified" over a slot that is partly erased, and an apply request is accepted;
MCUboot's own check of the image remains. The model also reaches a second weakness:
`map_free` frees the first entry with an address, so that an older entry at the same
address can stay behind with its pipeline, which no session reset finds any more. The code
has no document that promises otherwise, and no property here says it recovers.

## 3. Runs

Every run says `CHECK_DEADLOCK FALSE`: the bounds on entries, frames, requests and
faults stop the environment, and then the system rightly waits for ever.

| Run | Question | Bounds |
|---|---|---|
| `CanLogStore` | safety of block ring, writer and card; refinement of `FrameLog`; a complete block that a frame follows is written | 3 blocks of 5 bytes, entries of 1, 2 and 3, 5 entries, 2 faults |
| `RxRing` | what races can and cannot do; no wake-up is lost | 2 channels, 2 slots, 5 frames each |
| `RxRingLossless` | *violated*: the transfer is lossless | 2 channels, 3 slots, 2 frames each |
| `CanRx` | order, report of losses, commit, counters | 2 channels, FIFO 2, ring 2, pages of 2, 1 page, 3 frames each, 3 requests, 1 fault |
| `CanRxDrain` | *violated*: the drain takes pending frames | 1 channel, FIFO 3, watermark 2 |
| `CanRxFlush` | *violated*: a flush ends | 1 channel, 6 frames |
| `FirmwareUpdate` | implements `ImageStaging`: what is verified and handed over is what was received; the verification ends | slot of 4 bytes, sectors and words of 2, 2 addresses, 2 map entries, bodies of 0, 1 and 4, 3 uploads or forms, 1 preparation, 1 fault, 1 power cut |
| `LogFiles` | the export is a gapless end of this boot's recording; epochs tell boots apart; all files exist | 3 files of 2 blocks, 2 epochs, 13 blocks per boot, 3 boots, 3 faults |
| `Settings` | what a boot loads after a cut save; what is saved; what the controllers run with | 250, 500 and 1000 kbit/s, modes listen only and off, 4 changes, 3 boots, 1 fault |
| `SettingsSurvive` | *violated*: the last saved configuration is loaded | as `Settings`, one mode |
| `SpiStack` | answers, callbacks, receive slots; who waits is answered | 3 slots, 5 requests, 3 faults |
| `TimeStamps` | when a sample is right; which frames are stamped right, early or late | period of 5 ticks, 3 periods, 3 frames, 2 controllers with FIFOs of 2, watermark 2 |

Why the bounds are enough. *Blocks*: entries of three lengths in a block with four
bytes behind its header reach each boundary case (exact fit, one byte short,
padding of one byte and of more); five entries fill the ring of three blocks, wrap its
physical end, and leave one entry to be refused; two faults let a retry fail again or
a sync fail before an abort. *Rings*: two slots are the smallest ring with a
difference between empty, partly filled and full, and five frames overrun it twice.
*Receive path*: each buffer overflows within three frames per channel, a start, a stop
and a second start fit into three requests, and a batch of two is shorter than a
recording. The values are smaller than the firmware's, the guards that compare
against them are the same. Larger instances of `CanRx` (four frames, FIFO and ring of
three) were checked by hand with the same result. *Update*: an image of two words in
two sectors is interrupted in its transfer, its programming, its erase and its
verification (a buffer of two bytes); a body of one byte is not aligned, but its data
can reach an upload's pipeline; three requests over two addresses let one displace,
lose and reuse another one, and two map entries fill up. Four requests with bodies of 0
and 4, without fault and power cut, were checked by hand with the same result. *Files*:
13 blocks go twice around three files of two, a power cut or a fault may come in each
round, and the third boot reuses the first one's epoch; five boots of nine blocks, and three
epochs with four boots, were checked by hand with the same result. *Configuration*: four
changes take both channels to the longest baud rate and back, with two cut saves in
between; the third mode, normal, is the one the controllers are initialised with, and runs
with all three in the configuration were made by hand with two boots. *SPI*: five requests wrap rings of three slots, and three transfers that do not
start fill the receive ring; seven requests were checked by hand with the same result.
*Time*: a period of five ticks has every distance between sample, arrival and
wrap-around; three frames raise one controller's interrupt with the other's frame
waiting, over two wrap-arounds, so that every case of `StampFollowsSample` happens; and the
theorems hold for every period, watermark and FIFO.

Fairness. `FairSpec` of `CanLogStore`: the writer's task runs whenever the tasks above
it block, which they do in each poll (`fdcan_msg_port_read` waits up to two
milliseconds), and an operation of the card ends. `FairSpec` of `RxRing`: the bridge
has the highest priority of all tasks. `FairSpec` of `CanRx` adds the interrupt and
`Core0Task1`, which has nothing above it that would run for ever. `FairSpec` of
`FirmwareUpdate`: the loop of `Core0Task0` goes on, since `http_poll` returns. `FairSpec`
of `SpiStack`: the client and `SpiTask` run when they can, and the hardware ends a
transfer; `Answered` holds as long as every transfer starts and no request timed out before,
and the model reaches what happens otherwise: receive slots that never come back, and a
new request whose notification ends the wait of the old one and is gone. No step
of the environment, and no failure, is fair.

### What the violated runs show

- `RxRingLossless`: an interrupt inside `elementCount--` loses an increment. The frame
  stays in the ring, and from then on every frame is handed over one pop late.
  `NoGhostFrames` and `RefusalEnds` say how bad it can get: never a frame that was
  not received, never a ring that refuses for ever.
- `CanRxDrain`: `CanAbs_Drain` passes no interrupt flag, and `FDCAN_Read` then reports
  success without reading; frames below the watermark at a stop are not logged, and
  unset frame variables are.
- `CanRxFlush`: a stop that finds the message buffer full waits for a reader that is
  itself.
- `SettingsSurvive`: nothing cuts `CONF.TXT` to its new length. When both channels leave
  1000000 for a shorter baud rate in one save, two characters of the old text stay behind
  the new one, the parser refuses the file, and the next boot starts with the defaults.

More that the models show without a property that contradicts a document:

- `ReadNextBlock` takes a sequence number each time a block is prepared. A retried write
  spends one, so that a gap in the numbers on the card does not mean that entries are missing.
- The notes of `ReconstructFullTimestamp` ask for less than half a period between arrival
  and interrupt and less than a period between interrupts, the latter "as enforced by
  CANABS_CheckIsrPollPeriod" (`CanAbs.c:645`, `CanAbs.c:646`), and
  `doc/arc42-template-EN.md:1096` promises "Accurate timestamps across hours-long captures".
  Neither condition is enforced: the poll sets controller 1's interrupt pending, which reads
  nothing as long as no flag is set, and never controller 2's; a frame below the watermark
  waits without limit; and a frame of one controller that the other's interrupt reads gets
  a stamp from its own controller's last sample, off by as many periods as that is old. The
  later cases of `StampFollowsSample` say so, and the runs reach them.
- A request may set the mode "off" (`SettingsHandler.c:96`; the page's form does not offer
  it), and `FDCAN_Ioctl` has a branch for it (`fdcan.c:1283`) that cannot run, for
  `FDCAN_SetMode` refuses the mode: the controller stays in the one it had, while RAM, file
  and page say "off".
- Behind a boot without a usable `CONF.TXT` ("Missing file->defaults applied",
  `doc/arc42-template-EN.md:792`) RAM has the default mode listen only, and the controllers
  run in mode normal: the defaults are not applied to them. `HardwareFollows` says so.

## 4. Proofs

All safety properties and action properties of the passing runs are proved with TLAPS, for
every value of the constants that satisfies the module's assumption. TLC checked every
inductive invariant on the instances above before it was proved.

| Module | Assumption | Proved |
|---|---|---|
| `CanLogStore_proofs` | `LayoutAssumption` | `TypeOK`, `NothingLost`, `EntriesWithinBlocks`, `ReadyBlockIsReadable`, `FullMeansFull`, `ImplementsFrameLog`, `CardInOrder`, `HeaderMatchesBlock` |
| `RxRing_proofs` | `RingAssumption` | `TypeOK`, `NoGhostFrames`, `ExactUnlessRaced`, `RefusalEnds` |
| `CanRx_proofs` | `RxAssumption` | `TypeOK`, `LoggedInOrder`, `CommitCoversSession`, `DeltaDoesNotWrap`, `LossIsReported` |
| `TimeStamps_proofs` | `TimeAssumption` | `SampleExact`, `StampFollowsSample`; also that the correction never acts |
| `LogExport_proofs` | `LogFilesAssumption` | `AllFilesExist`, `EpochTellsBoots`, `ExportIsContiguous`, `ExportHoldsCompleteFiles` |
| `Settings_proofs` | `SettingsAssumption` | `SavedConfigLoads`, `NoChangeForgotten`, `HardwareFollows` |
| `SpiStack_proofs` | `SpiAssumption` | `TypeOK`, `RxSlotsAccounted`, `CallbacksInOrder`, `RightAnswer` |
| `FirmwareUpdate_proofs` | `UpdateAssumption`, `SlotAssumption` | `TypeOK`, `VerifiedSlotHoldsImage`, `ImplementsImageStaging`, `OnePipeline`, `StatusTellsWriter`, `ProgramsErasedFlash`; also `MarkerStandsForVerifiedSlot` |

None of the properties is inductive. What each `IInv` adds is what the code relies on
silently.

- **CanLogStore.** The read pointer stays at a block boundary, so that nothing is ever
  skipped; the write pointer is at a boundary or behind a header; every block below the
  write pointer opens with an entry right behind its header (a block is opened only by an
  entry that goes into it), which is what makes a ready block readable; entries are numbered
  in the order of their places; and the writer's block is the one at the read pointer,
  complete while it is written, and on the card when it is consumed. The layout part is stated
  for an arbitrary set of items and write pointer (`Placed`), so that one lemma covers
  padding, one the entry and one the consumption. The refinement needs only that a step
  changes `accepted` by one or adds to the card the first block of what is missing. The
  card's part adds that blocks below the writer's are on the card, and in which order.
- **RxRing.** Between the pop's test and its store the count only grows (`PopInv`); head
  and tail follow from the numbers of frames stored and delivered, races or not
  (`PlaceInv`), which is why a race never invents a frame; and as long as a channel has not
  been raced, its undelivered frames are in their slots (`SlotInv`), its count and its mark
  are exact (`CountInv`, `FullInv`) and its frames come in order (`OrderInv`).
- **CanRx.** Every buffer on the way (ring, page, message buffer, page being read, log) is in
  order, and each is in front of those it is filled from (`OrderInv`); the FIFO's frames come
  behind all of them (`FifoInv`). Rings of two channels are unordered to each other, which
  is why order is a relation of frames of one channel, and a frame that was read from
  nowhere (`Drain`) is outside of it. That the commit comes behind the last frame
  (`CommitInv`) rests on what each stage of a stop leaves behind: frames in a ring are
  announced, or the bridge still comes to that ring; the controllers are silenced one after
  the other; behind the flush only the buffer and its page are left, and behind the loop
  nothing; and a start is requested meanwhile only when nothing is left, or while the flush
  waits for ever. The frame counters (`DeltaDoesNotWrap`) need two things more. While nothing
  is recorded, nothing is on the way (`RestInv`), so that the start which sets both counters
  to zero finds no frame that one side has counted and the other has not. And the frames in
  the message buffer lie between the counters: instead of a sum over its pages, which is a
  recursive definition, the invariant says that some function has the sums of the pages in
  front of each page as its values (`DeltaInv`). For `LossIsReported` every frame of the recording
  is kept somewhere, or its loss is in `drops` or `framesLost`, or the interrupt that will
  record it is raised (`LossesNoticed`); a poll that ends over silent controllers has turned
  `drops` into `framesLost` (`NoticeReported`).
- **TimeStamps.** `Time` lacks the period whose end its interrupt has not come to yet
  (`TimeInv`); the controller whose interrupt runs has a fresh sample, the other one any,
  and no frame is of the future (`LatencyInv`). The rest is a matter of quotients and
  remainders: the reconstruction returns the time nearest to the sample that has the captured
  remainder (`NearestToSample`), which is the arrival when that is within half a period
  (`NearestIsArrival`), and a period short of it when the sample is (`NearestOfEarlySample`);
  and since it is at most half a period before the sample, no last stamp makes the
  correction act (`CorrectionNeverActs`, for all values, reachable or not).
- **LogFiles, LogExport.** Which files exist follows from the order of their creation
  (`ExistInv`). Epochs are told apart by a function from boots to epochs that never falls and
  grows by one at most (`EpochInv`): a boot that was cut short may not have raised it, but then it
  has no blocks. The ring of this boot's files (`RingInv`) says, of the files that are full, that
  each is a run of consecutive numbers (`FullInv`), that a file's numbers go on in the file behind
  it (`LinkInv`) and grow along the walk (`OrderInv`); of the head's file, what was written last
  and that its remainder either goes on to the tail's first number or is an earlier boot's
  (`HeadInv`, `RestInv`); and that no block of this boot is missing between the tail and the
  newest, nor lies anywhere else (`CoverInv`, `FreshInv`). A failure may leave a block without a
  number, a file that is short, empty or overlong; each part says what it tolerates. Without
  failures, the number of a file's first block follows from its place (`NumberInv`).
- **Settings.** The shape of the file (`WellFormed`): which characters can stand behind the
  text, and that what a boot would load has been promised. What the controllers run with
  (`HardwareFollows`) is inductive together with the types: an application keeps the old
  mode only for "off" (`ConfiguredIs`), and a boot without a configuration is marked `untold`.
- **SpiStack.** `elementCount` and `isFull` stay consistent in every place of a client that
  reserves, although `SpiTask` may decrement in between (`CountInv`); each request that is
  through has one answer (`AnswerInv`); receive slots in use are accounted for (`RxInv`). The
  order of callbacks rests on the contents of the rings from the tail on: requests wait in
  their order, and the receive slots belong to older requests than those that wait, but for
  the one being served, as long as no increment raced with a decrement (`OrderInv`). Without
  time-outs and errors one request at a time is under way, and the eight places where it can
  be are listed (`QuietInv`); that the one notification counter is set for the right reason
  in each of them is what `RightAnswer` comes down to.
- **FirmwareUpdate.** Entries of the map and connections (`HttpInv`), the one pipeline and its
  entry (`PipeInv`), the slot in front of the writer is erased and behind it holds what was
  received (`WriterInv`), what was read back is what the slot holds (`VerifyInv`), and the
  record in the marker sector (`MarkInv`). `map_lookup`'s "first entry" needs a least element,
  which the library's well-foundedness of the naturals provides. The refinement maps the
  state of the verification and the record to a stage, and the writer's payload, later the
  slot's contents, to the image. Each step either leaves both alone, drops the image, or is
  the one that the abstract specification has for the stage; that the loop does not go on while a
  request is to be finished (`ServingInv`) keeps uploads out of the stage "requested".
  `MarkerStandsForVerifiedSlot` says in one state what the refinement says of the steps; it is
  proved and no longer in a run.

Model-checked only: all liveness (`BlockBehindFrameIsWritten`, `StoredIsDelivered`,
`VerificationEnds`, `Answered`), which is out of the prover's reach. The violated runs have
nothing to prove. One notation is worth knowing: TLAPS and TLC disagree about how far a
`UNION` without parentheses reaches, and so the modules put them.

## 5. Not modelled, and the plan

Not modelled:

- the transmit path (`CanSendTask`) and the replay build option: a queue between one
  task and the controllers, with no state that a property here depends on;
- the SD card's command protocol and disk I/O (`Sd`, `MmcAdapter`, `DiskIoFacade`): a
  sequence of commands under the volume's lock, whose failures are faults of the models above;
- formatting the card on request and `log_config.json`;
- the web interface's GET callbacks and its formatting, the diagnostics pages, the error
  recorder, bus load;
- board support, the second core, and vendored libraries beyond the results their callers
  tell apart. They are most of the lines of the repository.

What would come next, in this order:

1. The SD protocol between `SpiStack` and the card, to derive the faults that `CanLogStore`
   and `LogFiles` assume from those of the bus.
2. The transmit path.
