------------------------------- MODULE CanRx --------------------------------
(***************************************************************************)
(* A frame's way from the FDCAN receive FIFOs to the ingest loop: the      *)
(* receive interrupt (CanAbs.c), CanBridgeTask, the paged message buffer   *)
(* (fdcan_msg_port.c) and appCanLogHandlerPoll (CanLogManager.c), with the *)
(* start and the stop of a recording.                                      *)
(*                                                                         *)
(* Interrupts come before CanBridgeTask, CanBridgeTask before Core0Task1,  *)
(* and Core0Task0, which requests starts and stops, runs only while        *)
(* Core0Task1 is blocked.  The receive rings are sequences here: what an   *)
(* interrupt does to a pop it falls into is the subject of RxRing.         *)
(***************************************************************************)
EXTENDS Integers, FiniteSets, Sequences, SequencesExt

CONSTANTS
  NumChannels,  \* 2, those in mode OFF left out
  FifoDepth,    \* FDCAN_RX_FIFO0 elements: 64
  Watermark,    \* FDCAN_IRQ_RX_WATERMARK: 54
  RingLength,   \* SW_RX_FRAME_BUFFER_SIZE
  PageFrames,   \* CAN_FRAME_PAGE_MAX_ENTRIES: 10
  MaxPages,     \* CAN_FRAME_BUFFER_ELEMENTS_COUNT: 150
  BatchMax,     \* CANLOG_INGEST_BATCH_MAX: 256
  DeltaMax,     \* the backlog CheckDropCounts tolerates: 1024
  MaxFrames,    \* bound: frames on the bus, per channel
  MaxRequests,  \* bound: starts and stops requested
  MaxFaults     \* bound: failing HAL_FDCAN_Start and HAL_FDCAN_Stop

ASSUME RxAssumption ==
  /\ NumChannels \in Nat \ {0} /\ Watermark \in 1..FifoDepth
  /\ {FifoDepth, RingLength, PageFrames, MaxPages, BatchMax, DeltaMax} \subseteq Nat \ {0}

Channels == 1..NumChannels

VARIABLES
  \* the controllers and their drivers
  fifo,        \* numbers of the frames in each receive FIFO
  watermarked, \* IR.RF0W of each controller
  overflowed,  \* IR.RF0L of each controller
  receiving,   \* the controller takes part in the bus
  irqOn,       \* FDCAN_IRQ_NOTIFICATION is active
  driverState, \* dev->state
  seqIndex,    \* CanX_SequenceIndex
  \* between interrupt and ingest
  ring, notified, draining, page, mbuf, reading,
  \* appCanLogHandlerPoll
  pc, chan, run, runOld, commitLog, batch, prevSeq, gap,
  openFailed,  \* CanLog.openRes is not 0
  \* RuntimeChecks
  drops,       \* the drop counters that are not zero
  bridgeCount, managerCount, framesLost,
  \* history
  arrived,     \* frames each channel has seen on the bus
  left,        \* those that came while nobody listened, or that a stop left behind
  session,     \* arrived, at the last start
  logged,      \* what CanLogBuffer_AddEntry took, in order
  requests, faults

hwVars == <<fifo, watermarked, overflowed, receiving, irqOn, driverState>>
pathVars == <<ring, notified, draining, page, mbuf, reading>>
pollVars == <<pc, chan, run, runOld, commitLog, batch, prevSeq, gap, openFailed>>
checkVars == <<drops, bridgeCount, managerCount, framesLost>>
histVars == <<arrived, left, session, logged, requests, faults>>
vars == <<hwVars, seqIndex, pathVars, pollVars, checkVars, histVars>>

\* n = 0: a frame variable nothing was read into
Frame == [ch : Channels, n : Nat, seq : Nat]

TypeOK ==
  /\ \A c \in Channels : fifo[c] \in Seq(Nat) /\ Len(fifo[c]) <= FifoDepth
  /\ watermarked \in [Channels -> BOOLEAN] /\ overflowed \in [Channels -> BOOLEAN]
  /\ receiving \in [Channels -> BOOLEAN] /\ irqOn \in [Channels -> BOOLEAN]
  /\ driverState \in [Channels -> {"initialized", "started", "stopped"}]
  /\ seqIndex \in [Channels -> Nat] /\ prevSeq \in [Channels -> Nat]
  /\ \A c \in Channels : ring[c] \in Seq(Frame) /\ Len(ring[c]) <= RingLength
  /\ notified \in BOOLEAN /\ draining \in 0..NumChannels
  /\ page \in Seq(Frame) /\ Len(page) <= PageFrames
  /\ mbuf \in Seq(Seq(Frame)) /\ Len(mbuf) <= MaxPages
  /\ reading \in Seq(Frame)
  /\ pc \in {"poll", "start", "stop", "drain", "flush", "read", "end"}
  /\ chan \in Channels
  /\ run \in BOOLEAN /\ runOld \in BOOLEAN /\ commitLog \in BOOLEAN
  /\ batch \in Nat /\ gap \in [Channels -> BOOLEAN] /\ openFailed \in BOOLEAN
  /\ drops \subseteq {"abs", "rx", "port", "store", "missing"}
  /\ bridgeCount \in Nat /\ managerCount \in Nat /\ framesLost \in BOOLEAN
  /\ logged \in Seq(Frame)

Init ==
  /\ fifo = [c \in Channels |-> <<>>] /\ ring = [c \in Channels |-> <<>>]
  /\ watermarked = [c \in Channels |-> FALSE] /\ overflowed = [c \in Channels |-> FALSE]
  /\ receiving = [c \in Channels |-> FALSE] /\ irqOn = [c \in Channels |-> FALSE]
  /\ driverState = [c \in Channels |-> "initialized"]
  /\ seqIndex = [c \in Channels |-> 0] /\ prevSeq = [c \in Channels |-> 0]
  /\ notified = FALSE /\ draining = 0
  /\ page = <<>> /\ mbuf = <<>> /\ reading = <<>>
  /\ pc = "poll" /\ chan = 1 /\ run = FALSE /\ runOld = FALSE /\ commitLog = FALSE
  /\ batch = 0 /\ gap = [c \in Channels |-> FALSE] /\ openFailed \in BOOLEAN
  /\ drops = {} /\ bridgeCount = 0 /\ managerCount = 0 /\ framesLost = FALSE
  /\ arrived = [c \in Channels |-> 0] /\ session = [c \in Channels |-> 0]
  /\ left = [c \in Channels |-> {}]
  /\ logged = <<>> /\ requests = 0 /\ faults = 0

AtMost(a, b) == IF a <= b THEN a ELSE b

-----------------------------------------------------------------------------
(* The bus and the receive interrupt                                       *)

\* the controller stores a frame, or loses it when its FIFO is full
FrameArrives(c) ==
  /\ receiving[c] /\ arrived[c] < MaxFrames
  /\ arrived' = [arrived EXCEPT ![c] = @ + 1]
  /\ left' = IF irqOn[c] THEN left ELSE [left EXCEPT ![c] = @ \cup {arrived[c] + 1}]
  /\ IF Len(fifo[c]) < FifoDepth
       THEN /\ fifo' = [fifo EXCEPT ![c] = Append(@, arrived[c] + 1)]
            /\ watermarked' = [watermarked EXCEPT ![c] = @ \/ Len(fifo'[c]) = Watermark]
            /\ UNCHANGED overflowed
       ELSE /\ overflowed' = [overflowed EXCEPT ![c] = TRUE]
            /\ UNCHANGED <<fifo, watermarked>>
  /\ UNCHANGED <<receiving, irqOn, driverState, seqIndex, pathVars, pollVars,
                 checkVars, session, logged, requests, faults>>

Raised(c) == irqOn[c] /\ (watermarked[c] \/ overflowed[c])

\* how often CanAbs_ReadAllAvailableFrames reads in one call
Reads(c) == AtMost(Watermark, Len(fifo[c]))

\* the frames an interrupt takes; HAL_FDCAN_GetRxMessage refuses a controller that
\* is stopped
Taken(c) == IF receiving[c] THEN Reads(c) ELSE 0

\* ring_buffer_put of frames with the arrival numbers num: a sequence number is
\* spent whether or not the ring has room
PutAll(c, num) ==
  ring[c] \o [i \in 1..AtMost(Len(num), RingLength - Len(ring[c])) |->
                [ch |-> c, n |-> num[i], seq |-> seqIndex[c] + i]]

\* (a slip: ring_buffer_put's refusal is not counted)
RingOverflowsUnseen(k) == FALSE

RingOverflows(k) == \E c \in Channels : k[c] > RingLength - Len(ring[c])

ReadRefused(c) == ~receiving[c] /\ fifo[c] # <<>>

\* CanAbs_CANx_Rx_FrameDropCount
OverflowSeen == IF \E c \in Channels : overflowed[c] THEN {"rx"} ELSE {}

\* HAL_FDCAN_RxFifo0Callback, called for controller c with its flags cleared: it
\* reads the frames of all the controllers; FDCAN_Read activates the notification
\* of the controller it read from
RxInterrupt(c) ==
  /\ Raised(c)
  /\ fifo' = [d \in Channels |-> SubSeq(fifo[d], Taken(d) + 1, Len(fifo[d]))]
  /\ ring' = [d \in Channels |-> PutAll(d, SubSeq(fifo[d], 1, Taken(d)))]
  /\ seqIndex' = [d \in Channels |-> seqIndex[d] + Taken(d)]
  /\ drops' = drops \cup OverflowSeen \cup
                (IF \/ RingOverflows([d \in Channels |-> Taken(d)])
                    \/ \E d \in Channels : ReadRefused(d) THEN {"abs"} ELSE {})
  /\ overflowed' = [d \in Channels |-> FALSE]
  /\ irqOn' = [d \in Channels |-> irqOn[d] \/ Taken(d) > 0]
  /\ watermarked' = [d \in Channels |->
                      d # c /\ watermarked[d] /\ (fifo'[d] # <<>> \/ ~irqOn'[d])]
  /\ notified' = (notified \/ \E d \in Channels : Taken(d) > 0)
  /\ UNCHANGED <<receiving, driverState, draining, page, mbuf, reading, pollVars,
                 bridgeCount, managerCount, framesLost, histVars>>

-----------------------------------------------------------------------------
(* CanBridgeTask                                                           *)

NoInterrupt == \A c \in Channels : ~Raised(c)

BridgeWakes ==
  /\ NoInterrupt /\ draining = 0 /\ notified
  /\ notified' = FALSE /\ draining' = 1
  /\ UNCHANGED <<hwVars, seqIndex, ring, page, mbuf, reading, pollVars,
                 checkVars, histVars>>

\* (a slip: a page takes one frame more than it holds)
BridgeMovesFrameOnFullPage ==
  /\ NoInterrupt /\ draining # 0 /\ ring[draining] # <<>>
  /\ ring' = [ring EXCEPT ![draining] = Tail(@)]
  /\ bridgeCount' = bridgeCount + 1
  /\ page' = Append(page, Head(ring[draining]))
  /\ UNCHANGED <<hwVars, seqIndex, notified, draining, mbuf, reading, pollVars,
                 drops, managerCount, framesLost, histVars>>

\* a frame is popped and goes through fdcan_msg_port_receive
BridgeMovesFrame ==
  /\ NoInterrupt /\ draining # 0 /\ ring[draining] # <<>>
  /\ ring' = [ring EXCEPT ![draining] = Tail(@)]
  /\ bridgeCount' = bridgeCount + 1
  /\ LET frame == Head(ring[draining])
     IN \/ /\ Len(page) < PageFrames
           /\ page' = Append(page, frame)
           /\ UNCHANGED <<mbuf, drops>>
        \/ /\ Len(page) = PageFrames /\ Len(mbuf) < MaxPages
           /\ mbuf' = Append(mbuf, page)
           /\ page' = <<frame>>
           /\ UNCHANGED drops
        \/ /\ Len(page) = PageFrames /\ Len(mbuf) = MaxPages
           /\ drops' = drops \cup {"port"}
           /\ UNCHANGED <<mbuf, page>>
  /\ UNCHANGED <<hwVars, seqIndex, notified, draining, reading, pollVars,
                 managerCount, framesLost, histVars>>

BridgeNextRing ==
  /\ NoInterrupt /\ draining # 0 /\ ring[draining] = <<>>
  /\ draining' = IF draining < NumChannels THEN draining + 1 ELSE 0
  /\ UNCHANGED <<hwVars, seqIndex, ring, notified, page, mbuf, reading,
                 pollVars, checkVars, histVars>>

Bridge == BridgeWakes \/ BridgeMovesFrame \/ BridgeNextRing

-----------------------------------------------------------------------------
(* Core0Task1: appCanLogHandlerPoll                                        *)

TaskMayRun == NoInterrupt /\ draining = 0 /\ ~notified

PollBegins ==
  /\ TaskMayRun /\ pc = "poll" /\ run = runOld
  /\ pc' = "read" /\ batch' = 0
  /\ UNCHANGED <<hwVars, seqIndex, pathVars, chan, run, runOld, commitLog,
                 prevSeq, gap, openFailed, checkVars, histVars>>

\* (a slip: RuntimeChecks_Init forgets CanLogManager_FrameCount)
StartKeepsManagerCount ==
  /\ TaskMayRun /\ pc = "poll" /\ run /\ ~runOld
  /\ pc' = "start" /\ chan' = 1
  /\ drops' = {} /\ bridgeCount' = 0 /\ framesLost' = FALSE
  /\ session' = arrived
  /\ UNCHANGED <<hwVars, seqIndex, pathVars, run, runOld, commitLog, batch,
                 prevSeq, gap, openFailed, managerCount, arrived, left, logged,
                 requests, faults>>

\* the start branch, up to RuntimeChecks_Init
StartBegins ==
  /\ TaskMayRun /\ pc = "poll" /\ run /\ ~runOld
  /\ pc' = "start" /\ chan' = 1
  /\ drops' = {} /\ bridgeCount' = 0 /\ managerCount' = 0 /\ framesLost' = FALSE
  /\ session' = arrived
  /\ UNCHANGED <<hwVars, seqIndex, pathVars, run, runOld, commitLog, batch,
                 prevSeq, gap, openFailed, arrived, left, logged, requests,
                 faults>>

\* FDCAN_Ioctl, CANABS_IOCTL_CMD_START: a driver that believes it is started is
\* left as it is
StartChannel ==
  /\ TaskMayRun /\ pc = "start"
  /\ \/ /\ driverState[chan] = "started"
        /\ UNCHANGED <<receiving, irqOn, driverState, run, faults>>
     \/ /\ driverState[chan] # "started"
        /\ receiving' = [receiving EXCEPT ![chan] = TRUE]
        /\ irqOn' = [irqOn EXCEPT ![chan] = TRUE]
        /\ driverState' = [driverState EXCEPT ![chan] = "started"]
        /\ UNCHANGED <<run, faults>>
     \/ /\ driverState[chan] # "started" /\ faults < MaxFaults
        /\ faults' = faults + 1
        /\ run' = FALSE
        /\ UNCHANGED <<receiving, irqOn, driverState>>
  /\ IF chan < NumChannels
       THEN chan' = chan + 1 /\ UNCHANGED <<pc, runOld, batch>>
       ELSE chan' = 1 /\ pc' = "read" /\ runOld' = run' /\ batch' = 0
  /\ UNCHANGED <<fifo, watermarked, overflowed, seqIndex, pathVars, commitLog,
                 prevSeq, gap, openFailed, checkVars, arrived, left, session,
                 logged, requests>>

StopBegins ==
  /\ TaskMayRun /\ pc = "poll" /\ ~run /\ runOld
  /\ pc' = "stop" /\ chan' = 1
  /\ UNCHANGED <<hwVars, seqIndex, pathVars, run, runOld, commitLog, batch,
                 prevSeq, gap, openFailed, checkVars, histVars>>

\* FDCAN_Ioctl, CANABS_IOCTL_CMD_STOP: HAL_FDCAN_Stop may keep what the FIFO holds
\* or reset it with the controller; when it fails the notification is already off
StopChannel ==
  /\ TaskMayRun /\ pc = "stop"
  /\ \/ /\ driverState[chan] # "started"
        /\ UNCHANGED <<hwVars, left, faults>>
     \/ /\ driverState[chan] = "started"
        /\ irqOn' = [irqOn EXCEPT ![chan] = FALSE]
        /\ receiving' = [receiving EXCEPT ![chan] = FALSE]
        /\ driverState' = [driverState EXCEPT ![chan] = "stopped"]
        /\ watermarked' = [watermarked EXCEPT ![chan] = FALSE]
        /\ overflowed' = [overflowed EXCEPT ![chan] = FALSE]
        /\ left' = [left EXCEPT ![chan] = @ \cup Range(fifo[chan])]
        /\ \E kept \in {fifo[chan], <<>>} : fifo' = [fifo EXCEPT ![chan] = kept]
        /\ UNCHANGED faults
     \/ /\ driverState[chan] = "started" /\ faults < MaxFaults
        /\ faults' = faults + 1
        /\ irqOn' = [irqOn EXCEPT ![chan] = FALSE]
        /\ left' = [left EXCEPT ![chan] = @ \cup Range(fifo[chan])]
        /\ UNCHANGED <<fifo, watermarked, overflowed, receiving, driverState>>
  /\ IF chan < NumChannels
       THEN chan' = chan + 1 /\ UNCHANGED <<pc, runOld, commitLog>>
       ELSE chan' = 1 /\ pc' = "drain" /\ runOld' = run /\ commitLog' = TRUE
  /\ UNCHANGED <<seqIndex, pathVars, run, batch, prevSeq, gap, openFailed,
                 checkVars, arrived, session, logged, requests>>

\* CanAbs_Drain: without an interrupt flag FDCAN_Read succeeds and reads nothing,
\* so that the FIFO keeps its frames and the ring receives the unset variable
Drain ==
  /\ TaskMayRun /\ pc = "drain"
  /\ ring' = [c \in Channels |-> PutAll(c, [i \in 1..Reads(c) |-> 0])]
  /\ seqIndex' = [c \in Channels |-> seqIndex[c] + Reads(c)]
  /\ drops' = drops \cup OverflowSeen \cup
                (IF RingOverflows([c \in Channels |-> Reads(c)]) THEN {"abs"} ELSE {})
  /\ overflowed' = [c \in Channels |-> FALSE]
  /\ notified' = \E c \in Channels : Reads(c) > 0
  /\ pc' = "flush"
  /\ UNCHANGED <<fifo, watermarked, receiving, irqOn, driverState, draining,
                 page, mbuf, reading, chan, run, runOld, commitLog, batch,
                 prevSeq, gap, openFailed, bridgeCount, managerCount,
                 framesLost, histVars>>

\* (a slip: the last page, not full yet, is not sent)
FlushForgotten ==
  /\ TaskMayRun /\ pc = "flush"
  /\ pc' = "read" /\ batch' = 0
  /\ UNCHANGED <<hwVars, seqIndex, pathVars, chan, run, runOld, commitLog, prevSeq,
                 gap, openFailed, checkVars, histVars>>

\* fdcan_msg_port_flush: it waits for room as long as it takes
Flush ==
  /\ TaskMayRun /\ pc = "flush"
  /\ IF page = <<>>
       THEN UNCHANGED <<mbuf, page>>
       ELSE Len(mbuf) < MaxPages /\ mbuf' = Append(mbuf, page) /\ page' = <<>>
  /\ pc' = "read" /\ batch' = 0
  /\ UNCHANGED <<hwVars, seqIndex, ring, notified, draining, reading, chan, run,
                 runOld, commitLog, prevSeq, gap, openFailed, checkVars,
                 histVars>>

MayRead == TaskMayRun /\ pc = "read" /\ (batch < BatchMax \/ ~run)

\* fdcan_msg_port_read has nothing to return
Blocked == MayRead /\ reading = <<>> /\ mbuf = <<>>

\* (a slip: the page is read from its end)
NextOfPageReversed(current) == [frame |-> Last(current), rest |-> Front(current)]

\* fdcan_msg_port_read: the page's frames in turn, IndexRead of them still to come
NextOfPage(current) == [frame |-> Head(current), rest |-> Tail(current)]

\* a sync entry that CanLogBuffer refuses is counted and nothing more
SyncEntryDropped == {drops, drops \cup {"store"}}

\* one turn of the ingest loop.  The store may find CanLogBuffer full; a card that
\* cannot be opened is noticed behind a store that succeeded.
Ingest ==
  /\ MayRead /\ ~Blocked
  /\ LET current == IF reading # <<>> THEN reading ELSE Head(mbuf)
         frame == NextOfPage(current).frame
     IN /\ reading' = NextOfPage(current).rest
        /\ mbuf' = IF reading # <<>> THEN mbuf ELSE Tail(mbuf)
        /\ gap' = [gap EXCEPT ![frame.ch] = @ \/ frame.seq # prevSeq[frame.ch] + 1]
        /\ prevSeq' = [prevSeq EXCEPT ![frame.ch] = frame.seq]
        /\ managerCount' = managerCount + 1
        /\ batch' = batch + 1
        /\ \/ /\ logged' = Append(logged, frame)
              /\ drops' \in SyncEntryDropped
              /\ IF openFailed
                   THEN run' = FALSE /\ pc' = "end"
                   ELSE UNCHANGED <<run, pc>>
           \/ /\ drops' = drops \cup {"store"}
              /\ run' = FALSE /\ pc' = "end"
              /\ UNCHANGED logged
  /\ UNCHANGED <<hwVars, seqIndex, ring, notified, draining, page, chan, runOld,
                 commitLog, openFailed, bridgeCount, framesLost, arrived, left,
                 session, requests, faults>>

LoopEnds ==
  /\ TaskMayRun /\ pc = "read"
  /\ Blocked \/ ~MayRead
  /\ pc' = "end"
  /\ UNCHANGED <<hwVars, seqIndex, pathVars, chan, run, runOld, commitLog,
                 batch, prevSeq, gap, openFailed, checkVars, histVars>>

\* the difference is unsigned
DeltaTooLarge(delta) == delta < 0 \/ delta > DeltaMax

\* what follows the loop, up to RuntimeChecks_CheckFrameCounts
PollEnds ==
  /\ TaskMayRun /\ pc = "end"
  /\ \E counted \in SyncEntryDropped :
       drops' = counted \cup (IF \E c \in Channels : gap[c] THEN {"missing"} ELSE {})
  /\ gap' = [c \in Channels |-> FALSE]
  /\ framesLost' = (framesLost \/ drops' # {} \/ DeltaTooLarge(bridgeCount - managerCount))
  /\ commitLog' = FALSE
  /\ pc' = "poll"
  /\ UNCHANGED <<hwVars, seqIndex, pathVars, chan, run, runOld, batch, prevSeq,
                 openFailed, bridgeCount, managerCount, histVars>>

Core0Task1 ==
  \/ PollBegins
  \/ StartBegins \/ StartChannel
  \/ StopBegins \/ StopChannel \/ Drain \/ Flush
  \/ Ingest \/ LoopEnds \/ PollEnds

\* Core0Task0 passes on what the web interface asks for
Request ==
  /\ Blocked \/ (TaskMayRun /\ pc = "flush" /\ page # <<>> /\ Len(mbuf) = MaxPages)
  /\ requests < MaxRequests
  /\ requests' = requests + 1
  /\ run' = ~run
  /\ UNCHANGED <<hwVars, seqIndex, pathVars, pc, chan, runOld, commitLog, batch,
                 prevSeq, gap, openFailed, checkVars, arrived, left, session,
                 logged, faults>>

\* SdBridgeTask, which runs below Core0Task1 too, opens the next log file
Rotation ==
  /\ Blocked
  /\ openFailed' = ~openFailed
  /\ UNCHANGED <<hwVars, seqIndex, pathVars, pc, chan, run, runOld, commitLog,
                 batch, prevSeq, gap, checkVars, histVars>>

Next ==
  \/ \E c \in Channels : FrameArrives(c) \/ RxInterrupt(c)
  \/ Bridge
  \/ Core0Task1
  \/ Request \/ Rotation

Spec == Init /\ [][Next]_vars

\* the tasks run when nothing more urgent does
FairSpec ==
  /\ Spec
  /\ WF_vars(\E c \in Channels : RxInterrupt(c)) /\ WF_vars(Bridge) /\ WF_vars(Core0Task1)

-----------------------------------------------------------------------------
\* frames taken from the receive FIFOs and not yet through the ingest loop
InTransit ==
  (UNION {Range(ring[c]) : c \in Channels}) \cup Range(page)
    \cup (UNION {Range(mbuf[i]) : i \in DOMAIN mbuf}) \cup Range(reading)

Numbers(frames, c) == {f.n : f \in {x \in frames : x.ch = c}}

\* the frames of this recording that were taken and will not be logged
Lost(c) ==
  ((session[c] + 1)..arrived[c]) \
    (Range(fifo[c]) \cup Numbers(InTransit \cup Range(logged), c) \cup left[c])

\* (a start that failed half-way leaves the other controller receiving)
Stopped == pc = "poll" /\ ~run /\ ~runOld /\ \A c \in Channels : ~irqOn[c]

\* The frames of a channel are logged in the order in which they came, although
\* two tasks and an interrupt hand them on and both tasks complete pages.
LoggedInOrder ==
  \A i, j \in DOMAIN logged :
    i < j /\ logged[i].ch = logged[j].ch /\ logged[i].n > 0 /\ logged[j].n > 0
      => logged[i].n < logged[j].n

\* When a recording has been stopped and its last poll has run the checks,
\* framesLost says of every frame that was lost on the way that there was one.
\* (Frames a stop leaves in the controller are not lost on the way: see
\* DrainTakesPendingFrames.)
LossIsReported ==
  Stopped /\ InTransit = {} /\ (\E c \in Channels : Lost(c) # {}) => framesLost

\* The poll that commits a recording does so behind its last frame: nothing of it
\* is left between interrupt and ingest, unless the store or the card failed, and no
\* controller that stopped as told interrupts any more.
CommitCoversSession ==
  pc = "end" /\ commitLog /\ "store" \notin drops /\ ~openFailed /\ faults = 0 =>
    InTransit = {} /\ \A c \in Channels : ~irqOn[c]

\* CanLogManager_FrameCount never passes CanBridgeTask_FrameCount: their unsigned
\* difference does not wrap: a stop leaves no frame behind that the bridge counted
\* before RuntimeChecks_Init reset both and the ingest would count behind it.
DeltaDoesNotWrap == faults = 0 => managerCount <= bridgeCount

\* platform/drivers/CanAbs/CanAbs.h:59: "Drain pending Rx frames from all CAN
\* peripherals and notify consumer": behind CanAbs_Drain no frame that a
\* peripheral had received is missing on the way to the ingest.
DrainTakesPendingFrames ==
  pc = "flush" => \A c \in Channels :
    left[c] \subseteq Numbers(InTransit \cup Range(logged), c)

\* platform/ports/fdcan_msg_port.h:20: "Sends buffered frames to CanFrameBuffer.
\* Call after disabling interrupts to avoid losing frames when stopping
\* reception": a flush that was begun gets its page into the buffer.
FlushEnds == (pc = "flush") ~> (pc # "flush")
=============================================================================
