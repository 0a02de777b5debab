----------------------------- MODULE TimeStamps -----------------------------
(***************************************************************************)
(* The time stamps of received frames.  TIM3 counts one period and its      *)
(* interrupt adds the period to Time and polls the controllers (CanCtrl.c,  *)
(* CanAbs.c).  The interrupts of the two FDCAN controllers, which come      *)
(* before it, sample both for their own controller (fdcan.c), then read the *)
(* FIFOs of both controllers and complete the counter value a frame carries *)
(* to an absolute time with the sample of the frame's controller, however   *)
(* old that is (CanAbs.c, ReconstructFullTimestamp).                        *)
(*                                                                          *)
(* Times are in ticks of TIM3.  That a time is two words of 32 bits is not  *)
(* modelled, nor that the frame keeps one of them; a time below 0 stands    *)
(* for the 2^64 more that the code computes.                                *)
(***************************************************************************)
EXTENDS Integers, Sequences

CONSTANTS
    Period,         \* FDCAN_GetTimerPeriodHook
    Watermark,      \* FDCAN_IRQ_RX_WATERMARK: 54
    FifoDepth,      \* FDCAN_RX_FIFO0 elements: 64
    MaxPeriods,     \* bound on the periods that pass
    MaxFrames       \* bound on the frames of both buses

ASSUME TimeAssumption ==
    /\ Period \in Nat /\ Period > 1
    /\ Watermark \in 1 .. FifoDepth /\ FifoDepth \in Nat

\* Fdcan1Driver and Fdcan2Driver
Channels == {1, 2}

\* Half a period, rounded up.
HalfPeriod == (Period + 1) \div 2

VARIABLES
    epoch,      \* ghost: the periods that have passed
    cnt,        \* TIM3's counter
    uif,        \* its update flag, a copy of which is read with the counter
    timer,      \* where TIM3's interrupt is
    Time,       \* the software's part of the time
    pended,     \* FDCAN_1_IRQn has been set pending by CANABS_CheckIsrPollPeriod
    fifo,       \* the arrivals of the frames in each receive FIFO
    flags,      \* the watermark and message lost flags of each controller
    arrived,    \* history: how many frames have come
    irq,        \* the controller whose interrupt runs; 0: none
    reading,    \* the controller whose frames it reads; 0: none yet
    taken,      \* how many it has read
    global,     \* mostRecentInterrupTimestamp of each controller
    sampledAt,  \* ghost: when it was sampled
    raced,      \* ghost: ... while TIM3's interrupt had cleared the flag only
    last        \* LastHardwareTimestampCan1/2, the stamp of the last frame

timerVars == <<epoch, cnt, uif, timer, Time>>
hwVars == <<fifo, flags, arrived>>
irqVars == <<irq, reading, taken>>
sampleVars == <<global, sampledAt, raced>>
vars == <<timerVars, pended, hwVars, irqVars, sampleVars, last>>

Now == epoch * Period + cnt

-----------------------------------------------------------------------------
(* CanAbs.c *)

\* (a slip: the frame is taken to be of the sample's period)
NearestSamePeriod(hw, g) == hw + Period * (g \div Period)

\* The part of ReconstructFullTimestamp before the correction.
Nearest(hw, g) ==
    LET diff == hw - (g % Period)
    IN  hw + Period * (IF diff > Period \div 2 THEN g \div Period - 1
                       ELSE IF diff < -(Period \div 2) THEN g \div Period + 1
                       ELSE g \div Period)

\* The correction moves a stamp forward by the periods that it lies behind the
\* last one by more than half a period, if that is recent (a stamp below 0 is,
\* to the code, one far after g).
Corrected(r, g, previous) ==
    LET behind == previous - (r + Period \div 2)
    IN  IF 0 < previous /\ previous <= g /\ g - previous <= 2 * Period /\ behind > 0
        THEN r + ((behind + Period - 1) \div Period) * Period
        ELSE r

ReconstructFullTimestamp(hw, g, previous) == Corrected(Nearest(hw, g), g, previous)

-----------------------------------------------------------------------------
(* The hardware *)

\* TIM3's interrupt adds a period before the next has passed, and an interrupt
\* that reads at most twice Watermark frames takes less than half a period.
\* How long a frame waits in its FIFO is not limited.
Tick ==
    /\ irq # 0 => Now + 1 - sampledAt[irq] < HalfPeriod
    /\ IF cnt + 1 < Period
       THEN cnt' = cnt + 1 /\ UNCHANGED <<epoch, uif>>
       ELSE /\ ~uif /\ timer # "cleared" /\ epoch < MaxPeriods
            /\ cnt' = 0 /\ epoch' = epoch + 1 /\ uif' = TRUE
    /\ UNCHANGED <<timer, Time, pended, hwVars, irqVars, sampleVars, last>>

\* The controller stores the counter with the frame; the interrupt is for a FIFO
\* that reaches the watermark and for a frame that finds it full.
Arrive(c) ==
    /\ arrived < MaxFrames
    /\ arrived' = arrived + 1
    /\ \/ /\ Len(fifo[c]) < FifoDepth
          /\ fifo' = [fifo EXCEPT ![c] = Append(@, Now)]
          /\ flags' = [flags EXCEPT ![c] =
                         IF Len(fifo'[c]) = Watermark THEN @ \cup {"watermark"} ELSE @]
       \/ /\ Len(fifo[c]) = FifoDepth
          /\ flags' = [flags EXCEPT ![c] = @ \cup {"lost"}]
          /\ UNCHANGED fifo
    /\ UNCHANGED <<timerVars, pended, irqVars, sampleVars, last>>

-----------------------------------------------------------------------------
(* TIM3's interrupt: HAL_TIM_IRQHandler clears the flag, then calls
   TIM_InterruptCallback.  The FDCAN interrupts preempt it, not it them. *)

TimerClears ==
    /\ timer = "idle" /\ uif /\ irq = 0
    /\ uif' = FALSE /\ timer' = "cleared"
    /\ UNCHANGED <<epoch, cnt, Time, pended, hwVars, irqVars, sampleVars, last>>

TimerAdds ==
    /\ timer = "cleared" /\ irq = 0
    /\ Time' = Time + Period
    /\ timer' = "added"
    /\ UNCHANGED <<epoch, cnt, uif, pended, hwVars, irqVars, sampleVars, last>>

\* CANABS_CheckIsrPollPeriod: is a controller's sample a period old?  (Unsigned: a
\* sample taken since counts as old.)
SampleIsOld(c) == Time - global[c] >= Period \/ global[c] > Time

PollLooks ==
    /\ timer = "added" /\ irq = 0
    /\ timer' = IF \E c \in Channels : SampleIsOld(c) THEN "old" ELSE "idle"
    /\ UNCHANGED <<epoch, cnt, uif, Time, pended, hwVars, irqVars, sampleVars, last>>

PollFindsFrames ==
    /\ timer = "old" /\ irq = 0
    /\ timer' = IF \E c \in Channels : fifo[c] # <<>> THEN "frames" ELSE "idle"
    /\ UNCHANGED <<epoch, cnt, uif, Time, pended, hwVars, irqVars, sampleVars, last>>

\* It is controller 1's interrupt that is set pending, for frames of either.
PollPends ==
    /\ timer = "frames" /\ irq = 0
    /\ timer' = "idle"
    /\ pended' = (pended \/ \A c \in Channels : flags[c] = {})
    /\ UNCHANGED <<epoch, cnt, uif, Time, hwVars, irqVars, sampleVars, last>>

-----------------------------------------------------------------------------
(* The FDCAN interrupts *)

Pending(c) == flags[c] # {} \/ (c = 1 /\ pended)

\* (a slip: the pending update is not looked at)
SampleWithoutFlag(c) ==
    /\ irq = 0 /\ Pending(c)
    /\ irq' = c
    /\ pended' = (pended /\ c # 1)
    /\ global' = [global EXCEPT ![c] = Time + cnt]
    /\ sampledAt' = [sampledAt EXCEPT ![c] = Now]
    /\ raced' = [raced EXCEPT ![c] = timer = "cleared"]
    /\ UNCHANGED <<timerVars, hwVars, reading, taken, last>>

\* FDCAN_x_IRQHandler samples for its own controller only.  FDCAN_GetTimestampHook:
\* a pending update not yet in Time is added; Time is the same before and after
\* the counter is read, for nothing preempts this.
Sample(c) ==
    /\ irq = 0 /\ Pending(c)
    /\ irq' = c
    /\ pended' = (pended /\ c # 1)
    /\ global' = [global EXCEPT ![c] = Time + cnt + (IF uif THEN Period ELSE 0)]
    /\ sampledAt' = [sampledAt EXCEPT ![c] = Now]
    /\ raced' = [raced EXCEPT ![c] = timer = "cleared"]
    /\ UNCHANGED <<timerVars, hwVars, reading, taken, last>>

\* HAL_FDCAN_IRQHandler clears the controller's flags and calls the callback, which
\* starts with controller 1; an interrupt that was set pending by software finds
\* no flag and reads nothing.  CanAbs_ReadAllAvailableFrames clears message lost.
CallBack ==
    /\ irq # 0 /\ reading = 0
    /\ IF flags[irq] = {}
       THEN irq' = 0 /\ UNCHANGED <<reading, flags>>
       ELSE /\ reading' = 1
            /\ flags' = [c \in Channels |-> IF c = irq THEN {}
                                            ELSE IF c = 1 THEN flags[c] \ {"lost"}
                                            ELSE flags[c]]
            /\ UNCHANGED irq
    /\ UNCHANGED <<timerVars, pended, fifo, arrived, taken, sampleVars, last>>

\* CanAbs_ReadAllAvailableFrames stamps a frame with the last sample for the
\* frame's own controller, whichever interrupt this is.
ReadFrame ==
    /\ reading # 0 /\ taken < Watermark /\ fifo[reading] # <<>>
    /\ last' = [last EXCEPT ![reading] =
                  ReconstructFullTimestamp(Head(fifo[reading]) % Period, global[reading], @)]
    /\ fifo' = [fifo EXCEPT ![reading] = Tail(@)]
    /\ taken' = taken + 1
    /\ UNCHANGED <<timerVars, pended, flags, arrived, irq, reading, sampleVars>>

ReadingEnds == reading # 0 /\ (taken = Watermark \/ fifo[reading] = <<>>)

NextController ==
    /\ reading = 1 /\ ReadingEnds
    /\ reading' = 2 /\ taken' = 0
    /\ flags' = [flags EXCEPT ![2] = @ \ {"lost"}]
    /\ UNCHANGED <<timerVars, pended, fifo, arrived, irq, sampleVars, last>>

\* CanAbs_ClearRxFifo0IrqIfEmpty: no interrupt, and no sample, for a controller
\* whose frames this one has read.
Leave ==
    /\ reading = 2 /\ ReadingEnds
    /\ irq' = 0 /\ reading' = 0 /\ taken' = 0
    /\ flags' = [c \in Channels |-> IF fifo[c] = <<>> THEN {} ELSE flags[c]]
    /\ UNCHANGED <<timerVars, pended, fifo, arrived, sampleVars, last>>

-----------------------------------------------------------------------------

Init ==
    /\ epoch = 0 /\ cnt = 0 /\ uif = FALSE /\ timer = "idle" /\ Time = 0
    /\ pended = FALSE /\ arrived = 0
    /\ fifo = [c \in Channels |-> <<>>] /\ flags = [c \in Channels |-> {}]
    /\ irq = 0 /\ reading = 0 /\ taken = 0
    /\ global = [c \in Channels |-> 0] /\ sampledAt = [c \in Channels |-> 0]
    /\ raced = [c \in Channels |-> FALSE] /\ last = [c \in Channels |-> 0]

Next ==
    \/ Tick \/ \E c \in Channels : Arrive(c)
    \/ TimerClears \/ TimerAdds \/ PollLooks \/ PollFindsFrames \/ PollPends
    \/ \E c \in Channels : Sample(c)
    \/ CallBack \/ ReadFrame \/ NextController \/ Leave

Spec == Init /\ [][Next]_vars

-----------------------------------------------------------------------------

\* What a sample falls short of the time.
Shortfall(c) == IF raced[c] THEN Period ELSE 0

\* A controller's sample is the time, unless it fell between TIM3's interrupt
\* clearing the flag and adding the period: then it is one period early
\* (FDCAN_GetTimestampHook, called from FDCAN_x_IRQHandler).
SampleExact ==
    \A c \in Channels : sampledAt[c] = global[c] + Shortfall(c)

\* A stamp is right, or short by what the sample is short, if the frame came within
\* half a period of the last sample for its controller.  A frame that came later,
\* read in the other controller's interrupt, is stamped early; one that had waited
\* longer is stamped late; and a controller's own interrupt never stamps early
\* (CanAbs_ReadAllAvailableFrames, ReconstructFullTimestamp).
StampFollowsSample ==
    [][\A c \in Channels : fifo[c] # <<>> /\ fifo'[c] = Tail(fifo[c]) =>
         LET after == Head(fifo[c]) - sampledAt[c]
             right == Head(fifo[c]) - Shortfall(c)
         IN  /\ after < HalfPeriod /\ -after < HalfPeriod => last'[c] = right
             /\ after > Period \div 2 => last'[c] < right
             /\ -after > Period \div 2 => last'[c] > right
             /\ irq = c => last'[c] >= right]_vars
=============================================================================
