------------------------------ MODULE SpiStack ------------------------------
(***************************************************************************)
(* The SPI stack under the SD card: a client places its request in the     *)
(* transmit ring, notifies SpiTask and waits for its context to be marked  *)
(* done (SpiAbs.c); SpiTask serves the oldest request by DMA or by polling *)
(* and calls back with the oldest receive slot (spi.c, Spi_Cmds.c).  One   *)
(* notification counter serves for new requests and for finished DMA       *)
(* transfers (SpiTask.c, spi_port_freertos.c).                             *)
(*                                                                         *)
(* Clients are one at a time, as the lock of the volume makes them.        *)
(* SpiTask has the higher priority: it runs to its next wait in one step,  *)
(* and a client only runs while SpiTask has no notification.  A request is *)
(* its number, its response the same number; 0 stands for octets that are  *)
(* no response.                                                            *)
(***************************************************************************)
EXTENDS Naturals, Sequences

CONSTANTS
    SlotCount,   \* SW_TX_SLOT_COUNT and SW_RX_SLOT_COUNT
    MaxRequests, \* bound: requests of the clients
    MaxFaults    \* bound: DMA transfers that fail to start, or end in an error

ASSUME SpiAssumption ==
    SlotCount \in Nat \ {0} /\ MaxRequests \in Nat \ {0} /\ MaxFaults \in Nat

VARIABLES
    tx,         \* the transmit ring: slots with head, tail, elementCount, isFull
    rx,         \* the receive ring, oldest slot first
    notified,   \* SpiTask's notification counter is not zero
    task,       \* where SpiTask waits: "main" or, in a transfer, "dma"
    dma,        \* the request whose DMA transfer runs; 0: HAL_SPI_STATE_READY
    aRxBuffer,  \* the response it holds
    client,     \* where the client is
    request,    \* its request, or the last one
    reg,        \* elementCount as reserving loaded it
    done,       \* its context: done, and what the response buffer got
    response,
    answers,    \* ghost: what each request returned, in order
    lastCalled, \* ghost: the request whose callback was called last
    calls,      \* ghost: how many callbacks were
    raced,      \* ghost: SpiTask took from the ring while a client reserved
    leaked,     \* ghost: receive slots of transfers that did not start
    timeouts, faults

ringVars == <<tx, rx>>
taskVars == <<notified, task, dma, aRxBuffer>>
clientVars == <<client, request, reg, done, response, answers>>
ghostVars == <<lastCalled, calls, raced, leaked, timeouts, faults>>
vars == <<ringVars, taskVars, clientVars, ghostVars>>

Index == 0 .. SlotCount - 1
After(i) == (i + 1) % SlotCount
Failed == faults < MaxFaults /\ faults' = faults + 1

-----------------------------------------------------------------------------
(* A client *)

Run == ~notified
Reserving == client \in {"count", "full", "mark", "fill"}

Returns(kind) ==
    /\ client' = "idle"
    /\ answers' = Append(answers, [kind |-> kind, data |-> IF kind = "ok" THEN response ELSE 0])

\* (a slip: the context is used again without clearing what it holds)
PlaceKeepsContext ==
    /\ Run /\ client = "idle" /\ request < MaxRequests
    /\ request' = request + 1
    /\ IF tx.isFull \/ Len(rx) = SlotCount
       THEN client' = "refused" /\ UNCHANGED <<tx, reg>>
       ELSE client' = "count" /\ reg' = tx.elementCount
            /\ tx' = [tx EXCEPT !.head = After(@)]
    /\ UNCHANGED <<rx, taskVars, done, response, answers, ghostVars>>

\* m_PrepareTxSlot: no room is returned; otherwise ring_buffer_reserve steps the
\* head and loads elementCount.
Place ==
    /\ Run /\ client = "idle" /\ request < MaxRequests
    /\ request' = request + 1
    /\ done' = FALSE /\ response' = 0
    /\ IF tx.isFull \/ Len(rx) = SlotCount
       THEN client' = "refused" /\ UNCHANGED <<tx, reg>>
       ELSE client' = "count" /\ reg' = tx.elementCount
            /\ tx' = [tx EXCEPT !.head = After(@)]
    /\ UNCHANGED <<rx, taskVars, answers, ghostVars>>

StoreCount ==
    /\ Run /\ client = "count"
    /\ tx' = [tx EXCEPT !.elementCount = reg + 1]
    /\ client' = "full"
    /\ UNCHANGED <<rx, taskVars, request, reg, done, response, answers, ghostVars>>

\* (a slip: a ring with no free slot is not marked)
TestFullTooLate ==
    /\ Run /\ client = "full"
    /\ client' = IF tx.elementCount > SlotCount THEN "mark" ELSE "fill"
    /\ UNCHANGED <<tx, rx, taskVars, request, reg, done, response, answers, ghostVars>>

TestFull ==
    /\ Run /\ client = "full"
    /\ client' = IF tx.elementCount = SlotCount THEN "mark" ELSE "fill"
    /\ UNCHANGED <<tx, rx, taskVars, request, reg, done, response, answers, ghostVars>>

\* ... even if SpiTask has made room since.
MarkFull ==
    /\ Run /\ client = "mark"
    /\ tx' = [tx EXCEPT !.isFull = TRUE]
    /\ client' = "fill"
    /\ UNCHANGED <<rx, taskVars, request, reg, done, response, answers, ghostVars>>

\* The reserved slot gets the transaction and the octets to send.
Fill ==
    /\ Run /\ client = "fill"
    /\ tx' = [tx EXCEPT !.slot[(tx.head + SlotCount - 1) % SlotCount] = request]
    /\ client' = "notify"
    /\ UNCHANGED <<rx, taskVars, request, reg, done, response, answers, ghostVars>>

Notify ==
    /\ Run /\ client = "notify"
    /\ notified' = TRUE
    /\ client' = "waiting"
    /\ UNCHANGED <<ringVars, task, dma, aRxBuffer, request, reg, done, response, answers, ghostVars>>

\* SpiTask is notified of a refused request all the same, but not if that was to
\* poll for a byte (m_PollForResponse, m_PollForIdle).
Refused ==
    /\ Run /\ client = "refused"
    /\ notified' \in BOOLEAN
    /\ Returns("refused")
    /\ UNCHANGED <<ringVars, task, dma, aRxBuffer, request, reg, done, response, ghostVars>>

\* SpiAbs_WaitForCompletion; what the callback reported is not looked at.
Return ==
    /\ Run /\ client = "waiting" /\ done
    /\ Returns("ok")
    /\ UNCHANGED <<ringVars, taskVars, request, reg, done, response, ghostVars>>

\* The request stays where it is in the rings, with a pointer to a context
\* that is gone.
TimesOut ==
    /\ Run /\ client = "waiting" /\ ~done
    /\ Returns("timeout")
    /\ timeouts' = timeouts + 1
    /\ UNCHANGED <<ringVars, taskVars, request, reg, done, response,
                   lastCalled, calls, raced, leaked, faults>>

-----------------------------------------------------------------------------
(* SpiTask *)

\* The completion callback of request r.  The context of a request that timed
\* out lay on a stack: the next request's context may lie at the same place.
Callback(r, octets) ==
    /\ lastCalled' = r /\ calls' = calls + 1
    /\ \/ client # "idle" /\ done' = TRUE /\ response' = octets
       \/ (r < request \/ client = "idle") /\ UNCHANGED <<done, response>>

\* Spi_NotifyRxData: the oldest slot of the receive ring is called back and
\* popped, whichever transfer ended; slot 0 never held a transaction.
NotifyRxData(slots) ==
    /\ rx' = Tail(slots)
    /\ IF slots[1].request = 0 THEN UNCHANGED <<done, response, lastCalled, calls>>
                               ELSE Callback(slots[1].request, slots[1].octets)

\* (a slip: the count goes down, the slot stays)
PopTxKeepsTail == tx' = [tx EXCEPT !.elementCount = @ - 1, !.isFull = FALSE]

PopTx == tx' = [tx EXCEPT !.tail = After(@), !.elementCount = @ - 1, !.isFull = FALSE]

Reserved(octets) == Append(rx, [request |-> tx.slot[tx.tail], octets |-> octets])

\* ring_buffer_peek_at counts by the indices: a ring in which elementCount was
\* left too high is empty to it, and one that is full and not yet marked.
PeekFails == tx.head = tx.tail /\ ~tx.isFull

\* SpiAbs_Task takes its notifications and SPI_Poll serves one request ...
Serves ==
    /\ task = "main" /\ notified
    /\ notified' = FALSE
    /\ tx.elementCount > 0 /\ ~PeekFails /\ Len(rx) < SlotCount
    /\ raced' = (raced \/ Reserving)
    /\ UNCHANGED <<client, request, reg, answers, timeouts>>

\* ... if it finds one, and a receive slot for it.
NothingToServe ==
    /\ task = "main" /\ notified
    /\ notified' = FALSE
    /\ tx.elementCount = 0 \/ PeekFails \/ Len(rx) = SlotCount
    /\ UNCHANGED <<ringVars, task, dma, aRxBuffer, clientVars, ghostVars>>

\* (a slip: no callback when HAL refuses the transfer)
PolledRefusedSilently ==
    /\ Serves
    /\ IF dma = 0 THEN NotifyRxData(Reserved(tx.slot[tx.tail]))
                  ELSE rx' = Reserved(0) /\ UNCHANGED <<done, response, lastCalled, calls>>
    /\ PopTx
    /\ UNCHANGED <<task, dma, aRxBuffer, leaked, faults>>

\* use_poll, SPI_DIR_POLL_BYTE: HAL moves the octets itself, or refuses to
\* while a DMA transfer runs.
Polled ==
    /\ Serves
    /\ NotifyRxData(Reserved(IF dma = 0 THEN tx.slot[tx.tail] ELSE 0))
    /\ PopTx
    /\ UNCHANGED <<task, dma, aRxBuffer, leaked, faults>>

\* HAL_SPI_TransmitReceive_DMA; HAL_BUSY is passed over, and SpiTask waits for
\* the transfer that runs.
Started ==
    /\ Serves
    /\ dma' = IF dma = 0 THEN tx.slot[tx.tail] ELSE dma
    /\ rx' = Reserved(0)
    /\ task' = "dma"
    /\ UNCHANGED <<tx, aRxBuffer, done, response, lastCalled, calls, leaked, faults>>

\* HAL_ERROR: Spi_SendReceiveMsg returns without calling back.
NotStarted ==
    /\ Serves /\ dma = 0 /\ Failed
    /\ rx' = Reserved(0)
    /\ leaked' = leaked + 1
    /\ PopTx
    /\ UNCHANGED <<task, dma, aRxBuffer, done, response, lastCalled, calls>>

\* Any notification ends the wait of Spi_NotifyTransferIssued.
Finishes ==
    /\ task = "dma" /\ notified
    /\ notified' = FALSE
    /\ task' = "main"
    /\ NotifyRxData([rx EXCEPT ![Len(rx)].octets = aRxBuffer])
    /\ PopTx
    /\ raced' = (raced \/ Reserving)
    /\ UNCHANGED <<dma, aRxBuffer, client, request, reg, answers, leaked, timeouts, faults>>

-----------------------------------------------------------------------------
(* The DMA interrupts: SpiTask cannot tell them apart. *)

DmaComplete ==
    /\ dma # 0
    /\ dma' = 0 /\ aRxBuffer' = dma
    /\ notified' = TRUE
    /\ UNCHANGED <<ringVars, task, clientVars, ghostVars>>

\* (a slip: the error callback does not notify SpiTask)
DmaErrorSilent ==
    /\ dma # 0 /\ Failed
    /\ dma' = 0 /\ aRxBuffer' = 0
    /\ UNCHANGED <<ringVars, notified, task, clientVars, lastCalled, calls, raced, leaked, timeouts>>

DmaError ==
    /\ dma # 0 /\ Failed
    /\ dma' = 0 /\ aRxBuffer' = 0
    /\ notified' = TRUE
    /\ UNCHANGED <<ringVars, task, clientVars, lastCalled, calls, raced, leaked, timeouts>>

-----------------------------------------------------------------------------

Init ==
    /\ tx = [slot |-> [i \in Index |-> 0], head |-> 0, tail |-> 0,
             elementCount |-> 0, isFull |-> FALSE]
    /\ rx = <<>>
    /\ notified = FALSE /\ task = "main" /\ dma = 0 /\ aRxBuffer = 0
    /\ client = "idle" /\ request = 0 /\ reg = 0 /\ done = FALSE /\ response = 0
    /\ answers = <<>>
    /\ lastCalled = 0 /\ calls = 0 /\ raced = FALSE /\ leaked = 0 /\ timeouts = 0 /\ faults = 0

ClientStep == Place \/ StoreCount \/ TestFull \/ MarkFull \/ Fill \/ Notify \/ Refused \/ Return
SpiTask == NothingToServe \/ Polled \/ Started \/ NotStarted \/ Finishes

Next == ClientStep \/ TimesOut \/ SpiTask \/ DmaComplete \/ DmaError

Spec == Init /\ [][Next]_vars
\* The client and SpiTask run when they can, and the hardware ends a transfer.
FairSpec == Spec /\ WF_vars(ClientStep) /\ WF_vars(SpiTask) /\ WF_vars(DmaComplete)

-----------------------------------------------------------------------------
(* Properties *)

\* The variables have their types; more is placed in no ring than it has slots.
TypeOK ==
    /\ tx.slot \in [Index -> 0 .. MaxRequests]
    /\ tx.head \in Index /\ tx.tail \in Index /\ tx.elementCount \in 0 .. SlotCount
    /\ tx.isFull \in BOOLEAN
    /\ rx \in Seq([request : 0 .. MaxRequests, octets : 0 .. MaxRequests]) /\ Len(rx) <= SlotCount
    /\ notified \in BOOLEAN /\ task \in {"main", "dma"}
    /\ {dma, aRxBuffer, request, response, lastCalled} \subseteq 0 .. MaxRequests
    /\ client \in {"idle", "count", "full", "mark", "fill", "notify", "waiting", "refused"}
    /\ {done, raced} \subseteq BOOLEAN
    /\ calls \in Nat /\ Len(answers) <= request

\* As long as no request timed out and no transfer ended in an error, what a
\* client gets as the answer is the response to its own request, although
\* requests, DMA and callbacks share one notification counter and SpiTask
\* answers the oldest receive slot (SpiAbs_Send_Spi1_Task0, SPI_Poll).
RightAnswer ==
    timeouts = 0 /\ faults = leaked =>
        \A r \in DOMAIN answers : answers[r].kind = "ok" => answers[r].data = r

\* Only a transfer that does not start keeps its receive slot: time-outs, late
\* and early notifications and a polled transfer refused by HAL do not
\* (Spi_NotifyRxData after every other end of a transfer).
RxSlotsAccounted == Len(rx) = leaked + (IF task = "dma" THEN 1 ELSE 0)

\* Every request is called back at most once and in the order of the requests,
\* whatever fails or comes late, unless SpiTask took from the transmit ring
\* between a client's reserving a slot and filling it.
CallbacksInOrder ==
    [][calls' # calls /\ ~raced' => lastCalled' > lastCalled]_vars

\* A client that waits is answered, with all errors of DMA transfers, as long as
\* each transfer starts and none timed out before; after a time-out a new
\* request's notification may end the wait of the old transfer and be cleared
\* together with it (ulTaskNotifyTake(pdTRUE)), and the new request stays.
Answered ==
    client = "waiting" ~> client # "waiting" \/ leaked > 0 \/ timeouts > 0
=============================================================================
