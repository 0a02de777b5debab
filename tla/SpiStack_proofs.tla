--------------------------- MODULE SpiStack_proofs ---------------------------
(***************************************************************************)
(* Proofs about the SPI stack, for rings of any length and any number of   *)
(* requests, time-outs and failing transfers: the counters stay in their   *)
(* ranges although reserving and popping race, only a transfer that does   *)
(* not start loses its receive slot, callbacks come in the order of the    *)
(* requests unless they raced, and without a time-out a client gets its    *)
(* own answer.  All rests on SpiAssumption.                                *)
(***************************************************************************)
EXTENDS SpiStack, Integers, SequenceTheorems, TLAPS

Kinds == {"ok", "refused", "timeout"}
Requests == 0 .. MaxRequests
Rings == [slot : [Index -> Requests], head : Index, tail : Index,
          elementCount : 0 .. SlotCount, isFull : BOOLEAN]
Slots == [request : Requests, octets : Requests]

\* Without the answers, which only grow, the state as TypeOK has it.
TypeInv ==
    /\ tx \in Rings
    /\ rx \in Seq(Slots)
    /\ notified \in BOOLEAN /\ task \in {"main", "dma"}
    /\ dma \in Requests /\ aRxBuffer \in Requests
    /\ client \in {"idle", "count", "full", "mark", "fill", "notify", "waiting", "refused"}
    /\ request \in Requests /\ response \in Requests /\ lastCalled \in Requests
    /\ reg \in Nat /\ calls \in Nat /\ leaked \in Nat
    /\ done \in BOOLEAN /\ raced \in BOOLEAN

\* The count of the transmit ring and its mark, in every place of a client.
CountInv ==
    /\ client = "count" => reg < SlotCount
    /\ ~tx.isFull => tx.elementCount < SlotCount \/ client \in {"full", "mark"}
    /\ client \in {"count", "full", "mark"} => ~tx.isFull
    /\ task = "dma" => tx.elementCount > 0

\* One answer for each request that is through.
AnswerInv ==
    /\ answers \in Seq([kind : Kinds, data : Requests])
    /\ request = Len(answers) + (IF client = "idle" THEN 0 ELSE 1)

RxInv == Len(rx) <= SlotCount /\ RxSlotsAccounted

IInv == TypeInv /\ CountInv /\ AnswerInv /\ RxInv

-----------------------------------------------------------------------------
(* The rings *)

\* The next place is a place.
LEMMA AfterType ==
  ASSUME NEW i \in Nat
  PROVE  After(i) \in Index
BY SpiAssumption DEF After, Index

\* Popping gives a place free.
LEMMA PopTxIs ==
  ASSUME tx \in Rings, tx.elementCount > 0, PopTx
  PROVE  /\ tx' \in Rings
         /\ tx'.elementCount < SlotCount /\ ~tx'.isFull
<1> DEFINE t == After(tx.tail)
           n == tx.elementCount - 1
<1>1. tx' = [tx EXCEPT !.tail = t, !.elementCount = n, !.isFull = FALSE]
  BY DEF PopTx
<1>2. t \in Index
  BY AfterType, SpiAssumption DEF Rings, Index
<1>3. n \in 0 .. SlotCount /\ n < SlotCount
  BY SpiAssumption DEF Rings
<1> HIDE DEF t, n
<1>4. tx' \in Rings /\ tx'.elementCount = n /\ tx'.isFull = FALSE
  BY <1>1, <1>2, <1>3 DEF Rings
<1> QED BY <1>3, <1>4

\* The receive slot that serving reserves.
LEMMA ReservedIs ==
  ASSUME tx \in Rings, rx \in Seq(Slots), NEW octets \in Requests
  PROVE  /\ Reserved(octets) \in Seq(Slots)
         /\ Len(Reserved(octets)) = Len(rx) + 1
<1> DEFINE s == [request |-> tx.slot[tx.tail], octets |-> octets]
<1>1. s \in Slots
  BY DEF Rings, Slots
<1>2. Reserved(octets) = Append(rx, s)
  BY DEF Reserved
<1> HIDE DEF s
<1> QED BY <1>1, <1>2

\* Calling back takes one slot from the receive ring.
LEMMA NotifyIs ==
  ASSUME TypeInv, NEW slots \in Seq(Slots), Len(slots) > 0, NotifyRxData(slots)
  PROVE  /\ rx' \in Seq(Slots) /\ Len(rx') = Len(slots) - 1
         /\ done' \in BOOLEAN
         /\ response' \in Requests /\ lastCalled' \in Requests /\ calls' \in Nat
<1>1. slots[1] \in Slots
  BY ElementOfSeq
<1>2. slots[1].request \in Requests /\ slots[1].octets \in Requests
  BY <1>1 DEF Slots
<1>3. rx' \in Seq(Slots) /\ Len(rx') = Len(slots) - 1
  <2>1. rx' = Tail(slots) /\ slots # << >>
    BY DEF NotifyRxData
  <2> QED BY <2>1, HeadTailProperties
<1>4. CASE slots[1].request = 0
  <2>1. UNCHANGED <<done, response, lastCalled, calls>>
    BY <1>4 DEF NotifyRxData
  <2> QED BY <1>3, <2>1 DEF TypeInv
<1>5. CASE slots[1].request # 0
  <2>1. Callback(slots[1].request, slots[1].octets)
    BY <1>5 DEF NotifyRxData
  <2>2. lastCalled' = slots[1].request /\ calls' = calls + 1
    BY <2>1 DEF Callback
  <2>3. \/ done' = TRUE /\ response' = slots[1].octets
        \/ UNCHANGED <<done, response>>
    BY <2>1 DEF Callback
  <2>4. done' \in BOOLEAN
    BY <2>3, Zenon DEF TypeInv
  <2>5. response' \in Requests
    BY <1>2, <2>3 DEF TypeInv
  <2> QED BY <1>2, <1>3, <2>2, <2>4, <2>5 DEF TypeInv
<1> QED BY <1>4, <1>5

\* The ghost that remembers a race keeps its type.
LEMMA RacedType ==
  ASSUME raced \in BOOLEAN, raced' = (raced \/ Reserving)
  PROVE  raced' \in BOOLEAN
BY Zenon DEF Reserving

-----------------------------------------------------------------------------
(* The initial state and the clients' steps *)

LEMMA InitInv == Init => IInv
<1> SUFFICES ASSUME Init PROVE IInv
  OBVIOUS
<1>1. tx \in Rings /\ tx.elementCount = 0
  <2> DEFINE sl == [i \in Index |-> 0]
  <2>1. sl \in [Index -> Requests] /\ 0 \in Index /\ 0 \in 0 .. SlotCount
    BY SpiAssumption DEF Requests, Index
  <2>2. tx = [slot |-> sl, head |-> 0, tail |-> 0, elementCount |-> 0, isFull |-> FALSE]
    BY DEF Init
  <2> HIDE DEF sl
  <2> QED BY <2>1, <2>2 DEF Rings
<1>2. rx \in Seq(Slots) /\ Len(rx) = 0 /\ answers \in Seq([kind : Kinds, data : Requests])
      /\ Len(answers) = 0
  BY DEF Init
<1>3. 0 \in Requests
  BY SpiAssumption DEF Requests
<1>4. TypeInv
  BY <1>1, <1>2, <1>3 DEF Init, TypeInv
<1>5. CountInv
  BY <1>1, SpiAssumption DEF Init, CountInv
<1>6. AnswerInv /\ RxInv
  BY <1>2, SpiAssumption DEF Init, AnswerInv, RxInv, RxSlotsAccounted
<1> QED BY <1>4, <1>5, <1>6 DEF IInv

LEMMA PlaceStep ==
  ASSUME IInv, Place
  PROVE  IInv'
<1> USE DEF IInv
<1>1. /\ request' = request + 1 /\ request < MaxRequests
      /\ done' = FALSE /\ response' = 0
      /\ client = "idle"
      /\ UNCHANGED <<rx, notified, task, dma, aRxBuffer, answers,
                     lastCalled, calls, raced, leaked>>
  BY DEF Place, taskVars, ghostVars
<1>2. request' \in Requests /\ response' \in Requests
  BY <1>1, SpiAssumption DEF TypeInv, Requests
<1>3. \/ client' = "refused" /\ UNCHANGED <<tx, reg>>
      \/ /\ client' = "count" /\ reg' = tx.elementCount /\ ~tx.isFull
         /\ tx' = [tx EXCEPT !.head = After(@)]
  BY DEF Place
<1>4. /\ tx' \in Rings /\ reg' \in Nat
      /\ tx'.elementCount = tx.elementCount /\ tx'.isFull = tx.isFull
  <2> DEFINE h == After(tx.head)
  <2>1. h \in Index
    BY AfterType DEF TypeInv, Rings, Index
  <2>2. \/ tx' = tx /\ reg' = reg
        \/ tx' = [tx EXCEPT !.head = h] /\ reg' = tx.elementCount
    BY <1>3
  <2> HIDE DEF h
  <2> QED BY <2>1, <2>2 DEF TypeInv, Rings
<1>5. TypeInv'
  BY <1>1, <1>2, <1>3, <1>4 DEF TypeInv
<1>6. CountInv'
  BY <1>1, <1>3, <1>4 DEF CountInv
<1>7. AnswerInv'
  BY <1>1, <1>3 DEF AnswerInv
<1>8. RxInv'
  BY <1>1 DEF RxInv, RxSlotsAccounted
<1> QED BY <1>5, <1>6, <1>7, <1>8

LEMMA StoreCountStep ==
  ASSUME IInv, StoreCount
  PROVE  IInv'
<1> USE DEF IInv
<1>1. /\ client = "count" /\ client' = "full"
      /\ tx' = [tx EXCEPT !.elementCount = reg + 1]
      /\ UNCHANGED <<rx, notified, task, dma, aRxBuffer, request, reg, done, response, answers,
                     lastCalled, calls, raced, leaked>>
  BY DEF StoreCount, taskVars, ghostVars
<1>2. reg + 1 \in 0 .. SlotCount /\ reg + 1 > 0
  BY <1>1, SpiAssumption DEF TypeInv, CountInv
<1>3. tx' \in Rings /\ tx'.elementCount = reg + 1 /\ tx'.isFull = tx.isFull
  BY <1>1, <1>2 DEF TypeInv, Rings
<1>4. TypeInv'
  BY <1>1, <1>3 DEF TypeInv
<1>5. CountInv'
  BY <1>1, <1>2, <1>3 DEF CountInv
<1>6. AnswerInv' /\ RxInv'
  BY <1>1 DEF AnswerInv, RxInv, RxSlotsAccounted
<1> QED BY <1>4, <1>5, <1>6

LEMMA TestFullStep ==
  ASSUME IInv, TestFull
  PROVE  IInv'
<1> USE DEF IInv
<1>1. /\ client = "full" /\ client' = (IF tx.elementCount = SlotCount THEN "mark" ELSE "fill")
      /\ UNCHANGED <<tx, rx, notified, task, dma, aRxBuffer, request, reg, done, response, answers,
                     lastCalled, calls, raced, leaked>>
  BY DEF TestFull, taskVars, ghostVars
<1>2. tx.elementCount < SlotCount \/ client' = "mark"
  <2>1. tx.elementCount <= SlotCount /\ tx.elementCount \in Nat
    BY SpiAssumption DEF TypeInv, Rings
  <2> QED BY <1>1, <2>1, SpiAssumption
<1>3. TypeInv'
  BY <1>1 DEF TypeInv
<1>4. CountInv'
  BY <1>1, <1>2 DEF CountInv
<1>5. AnswerInv' /\ RxInv'
  BY <1>1 DEF AnswerInv, RxInv, RxSlotsAccounted
<1> QED BY <1>3, <1>4, <1>5

LEMMA MarkFullStep ==
  ASSUME IInv, MarkFull
  PROVE  IInv'
<1> USE DEF IInv
<1>1. /\ client = "mark" /\ client' = "fill"
      /\ tx' = [tx EXCEPT !.isFull = TRUE]
      /\ UNCHANGED <<rx, notified, task, dma, aRxBuffer, request, reg, done, response, answers,
                     lastCalled, calls, raced, leaked>>
  BY DEF MarkFull, taskVars, ghostVars
<1>2. tx' \in Rings /\ tx'.elementCount = tx.elementCount /\ tx'.isFull
  BY <1>1 DEF TypeInv, Rings
<1>3. TypeInv'
  BY <1>1, <1>2 DEF TypeInv
<1>4. CountInv'
  BY <1>1, <1>2 DEF CountInv
<1>5. AnswerInv' /\ RxInv'
  BY <1>1 DEF AnswerInv, RxInv, RxSlotsAccounted
<1> QED BY <1>3, <1>4, <1>5

LEMMA FillStep ==
  ASSUME IInv, Fill
  PROVE  IInv'
<1> USE DEF IInv
<1> DEFINE i == (tx.head + SlotCount - 1) % SlotCount
<1>1. /\ client = "fill" /\ client' = "notify"
      /\ tx' = [tx EXCEPT !.slot[i] = request]
      /\ UNCHANGED <<rx, notified, task, dma, aRxBuffer, request, reg, done, response, answers,
                     lastCalled, calls, raced, leaked>>
  BY DEF Fill, taskVars, ghostVars
<1> HIDE DEF i
<1>2. /\ tx' \in Rings /\ tx'.elementCount = tx.elementCount /\ tx'.isFull = tx.isFull
  BY <1>1 DEF TypeInv, Rings
<1>3. TypeInv'
  BY <1>1, <1>2 DEF TypeInv
<1>4. CountInv'
  BY <1>1, <1>2 DEF CountInv
<1>5. AnswerInv' /\ RxInv'
  BY <1>1 DEF AnswerInv, RxInv, RxSlotsAccounted
<1> QED BY <1>3, <1>4, <1>5

\* A request that is answered, refused or given up leaves one answer.
LEMMA ReturnsIs ==
  ASSUME TypeInv, AnswerInv, client # "idle", NEW kind \in Kinds, Returns(kind),
         request' = request
  PROVE  client' = "idle" /\ AnswerInv'
<1> DEFINE a == [kind |-> kind, data |-> IF kind = "ok" THEN response ELSE 0]
<1>1. a \in [kind : Kinds, data : Requests]
  BY SpiAssumption DEF TypeInv, Requests
<1>2. answers' = Append(answers, a) /\ client' = "idle"
  BY DEF Returns
<1> HIDE DEF a
<1>3. /\ answers' \in Seq([kind : Kinds, data : Requests])
      /\ Len(answers') = Len(answers) + 1
  BY <1>1, <1>2 DEF AnswerInv
<1> QED BY <1>2, <1>3 DEF AnswerInv

LEMMA NotifyStep ==
  ASSUME IInv, Notify \/ Refused
  PROVE  IInv'
<1> USE DEF IInv
<1>1. /\ notified' \in BOOLEAN
      /\ UNCHANGED <<tx, rx, task, dma, aRxBuffer, request, reg, done, response,
                     lastCalled, calls, raced, leaked>>
  BY DEF Notify, Refused, ringVars, ghostVars
<1>2. \/ client = "notify" /\ client' = "waiting" /\ answers' = answers
      \/ client = "refused" /\ Returns("refused")
  BY DEF Notify, Refused
<1>3. client' \in {"waiting", "idle"} /\ AnswerInv'
  <2>1. CASE client = "notify"
    BY <1>1, <1>2, <2>1 DEF AnswerInv
  <2>2. CASE client = "refused"
    <3>1. client # "idle" /\ "refused" \in Kinds /\ Returns("refused") /\ request' = request
      BY <1>1, <1>2, <2>2 DEF Kinds
    <3> QED BY <3>1, ReturnsIs
  <2> QED BY <1>2, <2>1, <2>2
<1>4. TypeInv'
  BY <1>1, <1>3 DEF TypeInv
<1>5. CountInv' /\ RxInv'
  BY <1>1, <1>2, <1>3 DEF CountInv, RxInv, RxSlotsAccounted
<1> QED BY <1>3, <1>4, <1>5

\* A wait ends, with an answer or by its time.
LEMMA WaitEndsStep ==
  ASSUME IInv, Return \/ TimesOut
  PROVE  IInv'
<1> USE DEF IInv
<1>1. /\ client = "waiting" /\ (Returns("ok") \/ Returns("timeout"))
      /\ UNCHANGED <<tx, rx, notified, task, dma, aRxBuffer, request, reg, done, response,
                     lastCalled, calls, raced, leaked>>
  BY DEF Return, TimesOut, ringVars, taskVars, ghostVars
<1>2. client' = "idle" /\ AnswerInv'
  <2>1. /\ client # "idle" /\ request' = request
        /\ "ok" \in Kinds /\ "timeout" \in Kinds
    BY <1>1 DEF Kinds
  <2>2. CASE Returns("ok")
    BY <2>1, <2>2, ReturnsIs
  <2>3. CASE Returns("timeout")
    BY <2>1, <2>3, ReturnsIs
  <2> QED BY <1>1, <2>2, <2>3
<1>3. TypeInv'
  BY <1>1, <1>2 DEF TypeInv
<1>4. CountInv' /\ RxInv'
  BY <1>1, <1>2 DEF CountInv, RxInv, RxSlotsAccounted
<1> QED BY <1>2, <1>3, <1>4

-----------------------------------------------------------------------------
(* SpiTask and the interrupts *)

\* Serving finds a place in the receive ring.
LEMMA ServesIs ==
  ASSUME IInv, Serves
  PROVE  /\ task = "main" /\ notified' = FALSE
         /\ tx.elementCount > 0 /\ Len(rx) < SlotCount
         /\ raced' \in BOOLEAN
         /\ UNCHANGED <<client, request, reg, answers>>
BY RacedType DEF Serves, IInv, TypeInv

LEMMA PolledStep ==
  ASSUME IInv, Polled
  PROVE  IInv'
<1> USE DEF IInv
<1> DEFINE o == IF dma = 0 THEN tx.slot[tx.tail] ELSE 0
<1>1. /\ Serves /\ NotifyRxData(Reserved(o)) /\ PopTx
      /\ UNCHANGED <<task, dma, aRxBuffer, leaked>>
  BY DEF Polled
<1>2. o \in Requests
  BY SpiAssumption DEF TypeInv, Rings, Requests
<1> HIDE DEF o
<1>3. Reserved(o) \in Seq(Slots) /\ Len(Reserved(o)) = Len(rx) + 1
  BY <1>2, ReservedIs DEF TypeInv
<1>4. Len(rx) \in Nat
  BY LenProperties DEF TypeInv
<1>5. /\ rx' \in Seq(Slots) /\ Len(rx') = Len(rx)
      /\ done' \in BOOLEAN
      /\ response' \in Requests /\ lastCalled' \in Requests /\ calls' \in Nat
  <2>1. Len(Reserved(o)) > 0
    BY <1>3, <1>4
  <2> QED BY <1>1, <1>3, <1>4, <2>1, NotifyIs
<1>6. tx' \in Rings /\ tx'.elementCount < SlotCount /\ ~tx'.isFull
  BY <1>1, ServesIs, PopTxIs DEF TypeInv
<1>7. TypeInv'
  BY <1>1, <1>5, <1>6, ServesIs DEF TypeInv
<1>8. CountInv'
  BY <1>1, <1>6, ServesIs DEF CountInv
<1>9. AnswerInv' /\ RxInv'
  BY <1>1, <1>5, ServesIs DEF AnswerInv, RxInv, RxSlotsAccounted
<1> QED BY <1>7, <1>8, <1>9

\* A transfer that runs has its slots reserved and not yet taken back.
LEMMA StartedStep ==
  ASSUME IInv, Started
  PROVE  IInv'
<1> USE DEF IInv
<1>1. /\ Serves
      /\ dma' = IF dma = 0 THEN tx.slot[tx.tail] ELSE dma
      /\ rx' = Reserved(0) /\ task' = "dma"
      /\ UNCHANGED <<tx, aRxBuffer, done, response, lastCalled, calls, leaked>>
  BY DEF Started
<1>2. dma' \in Requests /\ 0 \in Requests
  BY <1>1, SpiAssumption DEF TypeInv, Rings, Requests
<1>3. rx' \in Seq(Slots) /\ Len(rx') = Len(rx) + 1 /\ Len(rx) \in Nat
  BY <1>1, <1>2, ReservedIs, LenProperties DEF TypeInv
<1>4. TypeInv'
  BY <1>1, <1>2, <1>3, ServesIs DEF TypeInv
<1>5. CountInv'
  BY <1>1, ServesIs DEF CountInv
<1>6. AnswerInv'
  BY <1>1, ServesIs DEF AnswerInv
<1>7. RxInv'
  <2>0. task = "main" /\ Len(rx) < SlotCount
    BY <1>1, ServesIs
  <2>a. leaked + 0 = leaked
    BY DEF TypeInv
  <2>b. Len(rx) = leaked + 0
    BY <2>0 DEF RxInv, RxSlotsAccounted
  <2>1. Len(rx) = leaked /\ Len(rx) < SlotCount
    BY <1>1, <2>0, <2>a, <2>b
  <2>2. Len(rx') <= SlotCount /\ Len(rx') = leaked' + 1
    BY <1>1, <1>3, <2>1, SpiAssumption
  <2> QED BY <1>1, <2>2 DEF RxInv, RxSlotsAccounted
<1> QED BY <1>4, <1>5, <1>6, <1>7

LEMMA NotStartedStep ==
  ASSUME IInv, NotStarted
  PROVE  IInv'
<1> USE DEF IInv
<1>1. /\ Serves /\ PopTx
      /\ rx' = Reserved(0) /\ leaked' = leaked + 1
      /\ UNCHANGED <<task, dma, aRxBuffer, done, response, lastCalled, calls>>
  BY DEF NotStarted
<1>2. rx' \in Seq(Slots) /\ Len(rx') = Len(rx) + 1 /\ Len(rx) \in Nat
  BY <1>1, ReservedIs, LenProperties, SpiAssumption DEF TypeInv, Requests
<1>3. tx' \in Rings /\ tx'.elementCount < SlotCount /\ ~tx'.isFull
  BY <1>1, ServesIs, PopTxIs DEF TypeInv
<1>4. TypeInv'
  <2>1. leaked' \in Nat
    BY <1>1 DEF TypeInv
  <2>2. /\ UNCHANGED <<task, dma, aRxBuffer, done, response, lastCalled, calls>>
        /\ notified' = FALSE /\ raced' \in BOOLEAN
        /\ UNCHANGED <<client, request, reg>>
    BY <1>1, ServesIs
  <2> QED BY <1>2, <1>3, <2>1, <2>2 DEF TypeInv
<1>5. CountInv'
  BY <1>1, <1>3, ServesIs DEF CountInv
<1>6. AnswerInv'
  BY <1>1, ServesIs DEF AnswerInv
<1>7. RxInv'
  <2>0. task = "main" /\ Len(rx) < SlotCount
    BY <1>1, ServesIs
  <2>a. leaked + 0 = leaked
    BY DEF TypeInv
  <2>b. Len(rx) = leaked + 0
    BY <2>0 DEF RxInv, RxSlotsAccounted
  <2>1. Len(rx) = leaked /\ Len(rx) < SlotCount /\ task' = "main"
    BY <1>1, <2>0, <2>a, <2>b
  <2>2. Len(rx') <= SlotCount /\ Len(rx') = leaked'
    BY <1>1, <1>2, <2>1, SpiAssumption
  <2>3. leaked' = leaked' + 0
    BY <1>2, <2>2
  <2> QED BY <2>1, <2>2, <2>3 DEF RxInv, RxSlotsAccounted
<1> QED BY <1>4, <1>5, <1>6, <1>7

LEMMA FinishesStep ==
  ASSUME IInv, Finishes
  PROVE  IInv'
<1> USE DEF IInv
<1> DEFINE slots == [rx EXCEPT ![Len(rx)].octets = aRxBuffer]
<1>1. /\ task = "dma" /\ task' = "main" /\ notified' = FALSE
      /\ NotifyRxData(slots) /\ PopTx
      /\ UNCHANGED <<dma, aRxBuffer, client, request, reg, answers, leaked>>
  BY DEF Finishes
<1>2. raced' \in BOOLEAN
  BY RacedType DEF Finishes, TypeInv
<1>3. Len(rx) \in Nat /\ Len(rx) > 0
  BY <1>1, LenProperties DEF RxInv, RxSlotsAccounted, TypeInv
<1>4. slots \in Seq(Slots) /\ Len(slots) = Len(rx)
  <2> DEFINE s == [rx[Len(rx)] EXCEPT !.octets = aRxBuffer]
  <2>1. rx[Len(rx)] \in Slots
    BY <1>3, ElementOfSeq DEF TypeInv
  <2>2. s \in Slots
    BY <2>1 DEF Slots, TypeInv
  <2>3. slots = [rx EXCEPT ![Len(rx)] = s]
    OBVIOUS
  <2> HIDE DEF s, slots
  <2> QED BY <1>3, <2>2, <2>3, ExceptSeq DEF TypeInv
<1> HIDE DEF slots
<1>5. /\ rx' \in Seq(Slots) /\ Len(rx') = Len(rx) - 1
      /\ done' \in BOOLEAN
      /\ response' \in Requests /\ lastCalled' \in Requests /\ calls' \in Nat
  BY <1>1, <1>3, <1>4, NotifyIs
<1>6. tx' \in Rings /\ tx'.elementCount < SlotCount /\ ~tx'.isFull
  BY <1>1, PopTxIs DEF TypeInv, CountInv
<1>7. TypeInv'
  BY <1>1, <1>2, <1>5, <1>6 DEF TypeInv
<1>8. CountInv'
  BY <1>1, <1>6 DEF CountInv
<1>9. AnswerInv'
  BY <1>1 DEF AnswerInv
<1>10. RxInv'
  BY <1>1, <1>3, <1>5, SpiAssumption DEF RxInv, RxSlotsAccounted, TypeInv
<1> QED BY <1>7, <1>8, <1>9, <1>10

LEMMA StepInv == IInv /\ [Next]_vars => IInv'
<1> SUFFICES ASSUME IInv, [Next]_vars PROVE IInv'
  OBVIOUS
<1> USE DEF IInv, TypeInv, CountInv, AnswerInv, RxInv, RxSlotsAccounted
<1>1. CASE NothingToServe
  BY <1>1 DEF NothingToServe, ringVars, clientVars, ghostVars
<1>2. CASE DmaComplete \/ DmaError
  <2>1. /\ dma' = 0 /\ notified' = TRUE /\ aRxBuffer' \in {0, dma}
        /\ UNCHANGED <<tx, rx, task, client, request, reg, done, response, answers,
                       lastCalled, calls, raced, leaked>>
    BY <1>2 DEF DmaComplete, DmaError, ringVars, clientVars, ghostVars
  <2>2. 0 \in Requests
    BY SpiAssumption DEF Requests
  <2> QED BY <2>1, <2>2
<1>3. CASE UNCHANGED vars
  BY <1>3 DEF vars, ringVars, taskVars, clientVars, ghostVars
<1> QED BY <1>1, <1>2, <1>3, PlaceStep, StoreCountStep, TestFullStep, MarkFullStep, FillStep, NotifyStep,
           WaitEndsStep, PolledStep, StartedStep, NotStartedStep, FinishesStep
        DEF Next, ClientStep, SpiTask

-----------------------------------------------------------------------------
(* The order of callbacks *)

\* The transmit ring from the tail on: the place i behind it, and how many of them are
\* reserved and how many hold their request.
At(t, i) == IF t + i < SlotCount THEN t + i ELSE t + i - SlotCount
Taken == IF client = "count" THEN tx.elementCount + 1 ELSE tx.elementCount
Filled == IF client \in {"full", "mark", "fill"} THEN tx.elementCount - 1 ELSE tx.elementCount
Pending(i) == tx.slot[At(tx.tail, i)]

PlaceInv ==
    /\ tx.head = At(tx.tail, Taken) /\ Filled \in Nat
    /\ client = "count" => reg = tx.elementCount
    /\ lastCalled <= request /\ (Reserving => lastCalled < request)

PendingInv ==
    \A i \in 0 .. Filled - 1 :
        /\ lastCalled < Pending(i) /\ Pending(i) <= request
        /\ Reserving => Pending(i) < request
        /\ \A j \in 0 .. i - 1 : Pending(j) < Pending(i)

SlotInv ==
    \A k \in 1 .. Len(rx) :
        /\ lastCalled < rx[k].request /\ rx[k].request <= request
        /\ Reserving => rx[k].request < request
        /\ \A l \in 1 .. k - 1 : rx[l].request < rx[k].request

\* The receive slots belong to older requests than those that wait, but for the one that
\* is being served.
BehindInv ==
    /\ \A k \in 1 .. Len(rx) : \A i \in 0 .. Filled - 1 :
         /\ rx[k].request <= Pending(i)
         /\ task = "main" => rx[k].request < Pending(i)
    /\ task = "dma" => Filled > 0 /\ rx[Len(rx)].request = Pending(0)

OrderInv == ~raced => PlaceInv /\ PendingInv /\ SlotInv /\ BehindInv

LEMMA TurnIs ==
  ASSUME NEW k \in Nat \ {0}, NEW n \in 0 .. 2 * k - 1
  PROVE  n % k = IF n < k THEN n ELSE n - k
<1> DEFINE q == n \div k
           r == n % k
<1>1. r \in 0 .. k - 1 /\ q \in Int /\ n = k * q + r
  BY SMTT(20)
<1> HIDE DEF q
<1>2. CASE q = 0
  BY <1>1, <1>2
<1>3. CASE q = 1
  BY <1>1, <1>3
<1>4. CASE q < 0
  <2>1. k * q <= 0 - k /\ k * q \in Int
    BY <1>1, <1>4, SMTT(20)
  <2> QED BY <1>1, <2>1
<1>5. CASE q > 1
  <2>1. k * q >= 2 * k /\ k * q \in Int
    BY <1>1, <1>5, SMTT(20)
  <2> QED BY <1>1, <2>1
<1> QED BY <1>1, <1>2, <1>3, <1>4, <1>5

\* Places follow one another around the ring, and no two of them meet.
LEMMA AtIs ==
  ASSUME NEW t \in Index, NEW i \in Nat, i < SlotCount
  PROVE  /\ At(t, 0) = t /\ At(t, i) \in Index
         /\ After(At(t, i)) = At(t, i + 1) /\ At(After(t), i) = At(t, i + 1)
         /\ (At(t, i + 1) + SlotCount - 1) % SlotCount = At(t, i)
         /\ \A j \in Nat : j < i => At(t, j) # At(t, i)
<1>1. /\ SlotCount \in Nat \ {0} /\ t \in Nat /\ t <= SlotCount - 1
  BY SpiAssumption DEF Index
<1>2. At(t, i) \in 0 .. SlotCount - 1 /\ At(t, i + 1) \in 0 .. SlotCount - 1 /\ At(t, 0) = t
  BY <1>1 DEF At
<1>3. \A m \in 0 .. SlotCount - 1 : After(m) = IF m + 1 < SlotCount THEN m + 1 ELSE m + 1 - SlotCount
  <2> TAKE m \in 0 .. SlotCount - 1
  <2> DEFINE n == m + 1
  <2>1. n \in 0 .. 2 * SlotCount - 1
    BY <1>1
  <2> HIDE DEF n
  <2>2. n % SlotCount = IF n < SlotCount THEN n ELSE n - SlotCount
    BY <1>1, <2>1, TurnIs
  <2>3. After(m) = n % SlotCount
    BY DEF After, n
  <2>4. After(m) = IF n < SlotCount THEN n ELSE n - SlotCount
    BY <2>2, <2>3
  <2> QED BY <1>1, <2>1, <2>4 DEF n
<1>4. After(At(t, i)) = At(t, i + 1) /\ At(After(t), i) = At(t, i + 1)
  <2>1. After(At(t, i)) = At(t, i + 1)
    BY <1>1, <1>2, <1>3 DEF At
  <2>2. After(t) = IF t + 1 < SlotCount THEN t + 1 ELSE t + 1 - SlotCount
    BY <1>1, <1>3
  <2> QED BY <1>1, <2>1, <2>2 DEF At
<1>5. (At(t, i + 1) + SlotCount - 1) % SlotCount = At(t, i)
  <2> DEFINE n == At(t, i + 1) + SlotCount - 1
  <2>1. n \in 0 .. 2 * SlotCount - 1
    BY <1>1, <1>2
  <2>2. At(t, i) = IF n < SlotCount THEN n ELSE n - SlotCount
    BY <1>1 DEF At
  <2> HIDE DEF n
  <2>3. n % SlotCount = IF n < SlotCount THEN n ELSE n - SlotCount
    BY <1>1, <2>1, TurnIs
  <2> QED BY <2>2, <2>3 DEF n
<1>6. \A j \in Nat : j < i => At(t, j) # At(t, i)
  BY <1>1 DEF At
<1> QED BY <1>2, <1>4, <1>5, <1>6 DEF Index

LEMMA PendingType ==
  ASSUME TypeInv, CountInv, Filled \in Nat
  PROVE  /\ Filled <= SlotCount /\ tx.elementCount \in Nat /\ tx.elementCount <= SlotCount
         /\ \A i \in 0 .. Filled - 1 : At(tx.tail, i) \in Index /\ Pending(i) \in Nat
         /\ Pending(0) = tx.slot[tx.tail] /\ Pending(0) \in Nat
         /\ \A k \in 1 .. Len(rx) : rx[k].request \in Nat
         /\ Len(rx) \in Nat /\ request \in Nat /\ lastCalled \in Nat
<1>1. tx.elementCount \in 0 .. SlotCount /\ tx.tail \in Index /\ tx.slot \in [Index -> Requests]
  BY DEF TypeInv, Rings
<1>2. SlotCount \in Nat \ {0}
  BY SpiAssumption
<1>3. Filled <= SlotCount /\ tx.elementCount \in Nat /\ tx.elementCount <= SlotCount
  BY <1>1, <1>2 DEF Filled
<1>4. \A r \in Requests : r \in Nat
  BY SpiAssumption DEF Requests
<1>5. ASSUME NEW i \in 0 .. Filled - 1
      PROVE  At(tx.tail, i) \in Index /\ Pending(i) \in Nat
  <2>1. i \in Nat /\ i < SlotCount
    BY <1>2, <1>3
  <2>2. At(tx.tail, i) \in Index
    BY <1>1, <2>1, AtIs
  <2> QED BY <1>1, <1>4, <2>2 DEF Pending
<1>6. Pending(0) = tx.slot[tx.tail] /\ Pending(0) \in Nat
  <2>1. At(tx.tail, 0) = tx.tail
    BY <1>1, <1>2, AtIs
  <2> QED BY <1>1, <1>4, <2>1 DEF Pending
<1>7. ASSUME NEW k \in 1 .. Len(rx)
      PROVE  rx[k].request \in Nat
  <2>1. rx[k] \in Slots
    BY DEF TypeInv
  <2> QED BY <1>4, <2>1 DEF Slots
<1> QED BY <1>3, <1>4, <1>5, <1>6, <1>7, LenProperties DEF TypeInv

\* Steps that leave both rings' requests alone.
LEMMA OrderKept ==
  ASSUME TypeInv, CountInv, PlaceInv, PendingInv, SlotInv, BehindInv,
         tx'.slot = tx.slot, tx'.tail = tx.tail, UNCHANGED <<rx, task, lastCalled>>,
         Filled' = Filled, request' \in Nat, request <= request',
         Reserving' => (Reserving /\ request' = request) \/ request < request'
  PROVE  /\ PendingInv' /\ SlotInv' /\ BehindInv'
         /\ lastCalled' <= request' /\ (Reserving' => lastCalled' < request')
<1>1. /\ Filled \in Nat /\ lastCalled <= request /\ (Reserving => lastCalled < request)
  BY DEF PlaceInv
<1>2. /\ \A i \in 0 .. Filled - 1 : Pending(i) \in Nat
      /\ \A k \in 1 .. Len(rx) : rx[k].request \in Nat
      /\ request \in Nat /\ lastCalled \in Nat
  BY <1>1, PendingType
<1>3. \A i \in Nat : Pending(i)' = Pending(i)
  BY DEF Pending
<1>4. \A i \in 0 .. Filled - 1 : i \in Nat /\ \A j \in 0 .. i - 1 : j \in Nat
  BY <1>1
<1>5. PendingInv'
  <2> SUFFICES ASSUME NEW i \in 0 .. Filled - 1
               PROVE  /\ lastCalled < Pending(i) /\ Pending(i) <= request'
                      /\ Reserving' => Pending(i) < request'
                      /\ \A j \in 0 .. i - 1 : Pending(j) < Pending(i)
    BY <1>3, <1>4 DEF PendingInv
  <2> QED BY <1>2 DEF PendingInv
<1>6. SlotInv'
  <2> SUFFICES ASSUME NEW k \in 1 .. Len(rx)
               PROVE  /\ lastCalled < rx[k].request /\ rx[k].request <= request'
                      /\ Reserving' => rx[k].request < request'
                      /\ \A l \in 1 .. k - 1 : rx[l].request < rx[k].request
    BY DEF SlotInv
  <2> QED BY <1>2 DEF SlotInv
<1>7. BehindInv'
  <2>1. Pending(0)' = Pending(0)
    BY <1>3
  <2> QED BY <1>3, <1>4, <2>1 DEF BehindInv
<1> QED BY <1>1, <1>2, <1>5, <1>6, <1>7

\* A reserved place is behind those that wait; filling it adds the newest request.
LEMMA FillOrder ==
  ASSUME TypeInv, CountInv, OrderInv, Fill, ~raced'
  PROVE  PlaceInv' /\ PendingInv' /\ SlotInv' /\ BehindInv'
<1>1. /\ client = "fill" /\ client' = "notify"
      /\ tx' = [tx EXCEPT !.slot[(tx.head + SlotCount - 1) % SlotCount] = request]
      /\ UNCHANGED <<rx, task, request, lastCalled, raced>>
  BY DEF Fill, taskVars, ghostVars
<1>2. PlaceInv /\ PendingInv /\ SlotInv /\ BehindInv /\ Reserving
  BY <1>1 DEF OrderInv, Reserving
<1>3. PICK n \in Nat : n = Filled
  BY <1>2 DEF PlaceInv
<1>4. PICK t \in Index : t = tx.tail
  BY DEF TypeInv, Rings
<1>5. /\ tx.elementCount = n + 1 /\ tx.head = At(t, n + 1) /\ n < SlotCount
      /\ lastCalled < request /\ request \in Nat /\ lastCalled \in Nat
  <2>1. tx.head = At(tx.tail, Taken) /\ (Reserving => lastCalled < request)
    BY <1>2 DEF PlaceInv
  <2>2. Filled = tx.elementCount - 1 /\ Taken = tx.elementCount
    BY <1>1 DEF Filled, Taken
  <2>3. tx.elementCount \in Nat /\ tx.elementCount <= SlotCount /\ request \in Nat /\ lastCalled \in Nat
    BY <1>3, PendingType
  <2>4. tx.elementCount = n + 1
    BY <1>3, <2>2, <2>3
  <2> QED BY <1>2, <1>3, <1>4, <2>1, <2>2, <2>3, <2>4, SpiAssumption
<1>6. /\ tx.slot \in [Index -> Requests] /\ At(t, n) \in Index
      /\ (At(t, n + 1) + SlotCount - 1) % SlotCount = At(t, n)
      /\ \A j \in Nat : j < n => At(t, j) # At(t, n) /\ At(t, j) \in Index
  <2>1. tx.slot \in [Index -> Requests]
    BY DEF TypeInv, Rings
  <2>2. \A j \in Nat : j < n => At(t, j) \in Index
    BY <1>5, AtIs, SpiAssumption
  <2> QED BY <1>5, <2>1, <2>2, AtIs
<1>7. /\ tx'.tail = t /\ tx'.head = tx.head /\ tx'.elementCount = tx.elementCount
      /\ tx'.slot = [tx.slot EXCEPT ![At(t, n)] = request]
  <2>1. tx' = [tx EXCEPT !.slot[At(t, n)] = request]
    BY <1>1, <1>5, <1>6
  <2> QED BY <1>4, <2>1 DEF TypeInv, Rings
<1>8. Filled' = n + 1 /\ Taken' = n + 1 /\ ~Reserving'
  BY <1>1, <1>5, <1>7 DEF Filled, Taken, Reserving
<1>9. \A i \in Nat : i < n => /\ Pending(i)' = Pending(i) /\ Pending(i) < request
                              /\ Pending(i) \in Nat
  <2> SUFFICES ASSUME NEW i \in Nat, i < n
               PROVE  Pending(i)' = Pending(i) /\ Pending(i) < request /\ Pending(i) \in Nat
    OBVIOUS
  <2>1. Pending(i)' = Pending(i)
    BY <1>4, <1>6, <1>7 DEF Pending
  <2>2. i \in 0 .. Filled - 1
    BY <1>3
  <2> QED BY <1>2, <1>3, <2>1, <2>2, PendingType DEF PendingInv
<1>10. Pending(n)' = request
  BY <1>4, <1>6, <1>7 DEF Pending
<1>11. PlaceInv'
  BY <1>1, <1>5, <1>7, <1>8 DEF PlaceInv
<1>12. PendingInv'
  <2> SUFFICES ASSUME NEW i \in 0 .. n
               PROVE  /\ lastCalled < Pending(i)' /\ Pending(i)' <= request
                      /\ \A j \in 0 .. i - 1 : Pending(j)' < Pending(i)'
    BY <1>1, <1>5, <1>8 DEF PendingInv
  <2>1. CASE i = n
    <3>1. \A j \in 0 .. i - 1 : j \in Nat /\ j < n
      BY <2>1
    <3> QED BY <1>5, <1>9, <1>10, <2>1, <3>1
  <2>2. CASE i # n
    <3>1. i \in Nat /\ i < n /\ i \in 0 .. Filled - 1 /\ \A j \in 0 .. i - 1 : j \in Nat /\ j < n
      BY <1>3, <2>2
    <3>2. /\ lastCalled < Pending(i) /\ \A j \in 0 .. i - 1 : Pending(j) < Pending(i)
      BY <1>2, <3>1 DEF PendingInv
    <3> QED BY <1>5, <1>9, <3>1, <3>2
  <2> QED BY <2>1, <2>2
<1>13. SlotInv'
  BY <1>1, <1>2, <1>8 DEF SlotInv
<1>14. BehindInv'
  <2>1. ASSUME NEW k \in 1 .. Len(rx), NEW i \in 0 .. n
        PROVE  rx[k].request <= Pending(i)' /\ (task = "main" => rx[k].request < Pending(i)')
    <3>1. rx[k].request < request
      BY <1>2 DEF SlotInv
    <3>2. rx[k].request \in Nat
      BY <1>3, PendingType
    <3>3. CASE i = n
      BY <1>5, <1>10, <3>1, <3>2, <3>3
    <3>4. CASE i # n
      <4>1. i \in Nat /\ i < n /\ i \in 0 .. Filled - 1
        BY <1>3, <3>4
      <4> QED BY <1>2, <1>9, <4>1 DEF BehindInv
    <3> QED BY <3>3, <3>4
  <2>2. ASSUME task = "dma"
        PROVE  n + 1 > 0 /\ rx[Len(rx)].request = Pending(0)'
    <3>1. n > 0 /\ rx[Len(rx)].request = Pending(0)
      BY <1>2, <1>3, <2>2 DEF BehindInv
    <3>2. 0 \in Nat /\ 0 < n
      BY <3>1
    <3>3. Pending(0)' = Pending(0)
      BY <1>9, <3>2
    <3> QED BY <3>1, <3>3
  <2> QED BY <1>1, <1>5, <1>8, <2>1, <2>2 DEF BehindInv
<1> QED BY <1>11, <1>12, <1>13, <1>14

\* The clients' other steps.
LEMMA ClientOrder ==
  ASSUME IInv, OrderInv, ClientStep \/ TimesOut
  PROVE  OrderInv'
<1> SUFFICES ASSUME ~raced'
             PROVE  PlaceInv' /\ PendingInv' /\ SlotInv' /\ BehindInv'
  BY DEF OrderInv
<1>1. /\ UNCHANGED <<rx, task, lastCalled, raced>>
  BY DEF ClientStep, Place, StoreCount, TestFull, MarkFull, Fill, Notify, Refused, Return, TimesOut,
         ringVars, taskVars, ghostVars
<1>2. TypeInv /\ CountInv /\ PlaceInv /\ PendingInv /\ SlotInv /\ BehindInv
  BY <1>1 DEF IInv, OrderInv
<1>3. /\ tx \in Rings /\ tx.elementCount \in Nat /\ tx.elementCount <= SlotCount
      /\ tx.tail \in Index /\ request \in Nat /\ lastCalled \in Nat /\ Filled \in Nat
      /\ lastCalled <= request /\ (Reserving => lastCalled < request)
      /\ tx.head = At(tx.tail, Taken)
  BY <1>2, PendingType DEF PlaceInv, TypeInv, Rings
<1>4. CASE Fill
  BY <1>2, <1>4, FillOrder DEF IInv
<1>5. ASSUME tx'.slot = tx.slot, tx'.tail = tx.tail, Filled' = Filled,
             request' \in Nat, request <= request',
             Reserving' => (Reserving /\ request' = request) \/ request < request',
             tx'.head = At(tx.tail, Taken'), client' = "count" => reg' = tx'.elementCount
      PROVE  PlaceInv' /\ PendingInv' /\ SlotInv' /\ BehindInv'
  <2>1. /\ PendingInv' /\ SlotInv' /\ BehindInv'
        /\ lastCalled' <= request' /\ (Reserving' => lastCalled' < request')
    BY <1>1, <1>2, <1>5, OrderKept
  <2> QED BY <1>3, <1>5, <2>1 DEF PlaceInv
<1>6. CASE Place
  <2>1. client = "idle" /\ request' = request + 1 /\ client' \in {"refused", "count"}
    BY <1>6 DEF Place
  <2>2. /\ tx'.slot = tx.slot /\ tx'.tail = tx.tail /\ tx'.elementCount = tx.elementCount
        /\ client' = "count" => reg' = tx'.elementCount /\ tx'.head = After(tx.head)
                                /\ tx.elementCount < SlotCount
        /\ client' = "refused" => tx'.head = tx.head
    BY <1>2, <1>3, <1>6, <2>1 DEF Place, Rings, CountInv
  <2>3. /\ Filled = tx.elementCount /\ Taken = tx.elementCount /\ Filled' = tx.elementCount
        /\ Taken' = IF client' = "count" THEN tx.elementCount + 1 ELSE tx.elementCount
    BY <2>1, <2>2 DEF Filled, Taken
  <2>4. tx'.head = At(tx.tail, Taken')
    <3>1. CASE client' = "refused"
      BY <1>3, <2>2, <2>3, <3>1
    <3>2. CASE client' = "count"
      <4> DEFINE n == tx.elementCount
      <4>1. n \in Nat /\ n < SlotCount
        BY <1>3, <2>2, <3>2
      <4> HIDE DEF n
      <4>2. After(At(tx.tail, n)) = At(tx.tail, n + 1)
        BY <1>3, <4>1, AtIs
      <4> QED BY <1>3, <2>2, <2>3, <3>2, <4>2 DEF n
    <3> QED BY <2>1, <3>1, <3>2
  <2> QED BY <1>3, <1>5, <2>1, <2>2, <2>3, <2>4
<1>7. CASE StoreCount
  <2>1. /\ client = "count" /\ client' = "full" /\ request' = request /\ reg = tx.elementCount
        /\ tx' = [tx EXCEPT !.elementCount = reg + 1]
    BY <1>2, <1>7 DEF StoreCount, PlaceInv
  <2>2. /\ tx'.slot = tx.slot /\ tx'.tail = tx.tail /\ tx'.head = tx.head
        /\ tx'.elementCount = tx.elementCount + 1
    BY <1>3, <2>1 DEF Rings
  <2>3. Filled' = Filled /\ Taken' = Taken /\ Reserving
    BY <1>3, <2>1, <2>2 DEF Filled, Taken, Reserving
  <2> QED BY <1>3, <1>5, <2>1, <2>2, <2>3
<1>8. CASE TestFull \/ MarkFull
  <2>1. client \in {"full", "mark"} /\ client' \in {"mark", "fill"} /\ request' = request
        /\ tx' \in {tx, [tx EXCEPT !.isFull = TRUE]}
    BY <1>8 DEF TestFull, MarkFull
  <2>2. /\ tx'.slot = tx.slot /\ tx'.tail = tx.tail /\ tx'.head = tx.head
        /\ tx'.elementCount = tx.elementCount
    BY <1>3, <2>1 DEF Rings
  <2>3. Filled' = Filled /\ Taken' = Taken /\ Reserving
    BY <1>3, <2>1, <2>2 DEF Filled, Taken, Reserving
  <2> QED BY <1>3, <1>5, <2>1, <2>2, <2>3
<1>9. CASE Notify \/ Refused \/ Return \/ TimesOut
  <2>1. /\ client \in {"notify", "refused", "waiting"} /\ client' \in {"waiting", "idle"}
        /\ UNCHANGED <<tx, request>>
    BY <1>9 DEF Notify, Refused, Return, TimesOut, Returns, ringVars
  <2>2. Filled' = Filled /\ Taken' = Taken /\ ~Reserving'
    BY <2>1 DEF Filled, Taken, Reserving
  <2> QED BY <1>3, <1>5, <2>1, <2>2
<1> QED BY <1>4, <1>6, <1>7, <1>8, <1>9 DEF ClientStep

\* The receive slots of a serving task: the last one belongs to the request at the tail.
ServingSlots(slots) ==
    /\ slots \in Seq(Slots) /\ Len(slots) > 0
    /\ \A k \in 1 .. Len(slots) :
         /\ lastCalled < slots[k].request /\ slots[k].request <= request
         /\ \A l \in 1 .. k - 1 : slots[l].request < slots[k].request
    /\ slots[Len(slots)].request = Pending(0)

LEMMA ServingOne ==
  ASSUME TypeInv, CountInv, PlaceInv, PendingInv, SlotInv, BehindInv,
         task = "main", Filled > 0, NEW octets \in Requests
  PROVE  ServingSlots(Reserved(octets))
<1> DEFINE s == [request |-> tx.slot[tx.tail], octets |-> octets]
           slots == Append(rx, s)
<1>1. /\ Filled \in Nat /\ Pending(0) = tx.slot[tx.tail] /\ Len(rx) \in Nat /\ 0 \in 0 .. Filled - 1
      /\ \A k \in 1 .. Len(rx) : rx[k].request \in Nat
  BY PendingType DEF PlaceInv
<1>2. s \in Slots /\ rx \in Seq(Slots) /\ s.request = Pending(0)
  BY <1>1 DEF TypeInv, Rings, Slots
<1>3. /\ lastCalled < Pending(0) /\ Pending(0) <= request
      /\ \A k \in 1 .. Len(rx) : rx[k].request < Pending(0)
  BY <1>1 DEF PendingInv, BehindInv
<1> HIDE DEF s
<1>4. /\ slots \in Seq(Slots) /\ Len(slots) = Len(rx) + 1 /\ slots[Len(rx) + 1] = s
      /\ \A k \in 1 .. Len(rx) : slots[k] = rx[k]
  BY <1>2
<1> HIDE DEF slots
<1>5. ASSUME NEW k \in 1 .. Len(slots)
      PROVE  /\ lastCalled < slots[k].request /\ slots[k].request <= request
             /\ \A l \in 1 .. k - 1 : slots[l].request < slots[k].request
  <2>1. CASE k = Len(rx) + 1
    <3>1. \A l \in 1 .. k - 1 : l \in 1 .. Len(rx)
      BY <2>1
    <3> QED BY <1>2, <1>3, <1>4, <2>1, <3>1
  <2>2. CASE k # Len(rx) + 1
    <3>1. k \in 1 .. Len(rx) /\ \A l \in 1 .. k - 1 : l \in 1 .. Len(rx)
      BY <1>1, <1>4, <2>2
    <3> QED BY <1>4, <3>1 DEF SlotInv
  <2> QED BY <2>1, <2>2
<1>6. Len(slots) > 0 /\ slots[Len(slots)].request = Pending(0)
  BY <1>1, <1>2, <1>4
<1>7. Reserved(octets) = slots
  BY DEF Reserved, slots, s
<1> QED BY <1>4, <1>5, <1>6, <1>7 DEF ServingSlots

LEMMA ServingTransfer ==
  ASSUME TypeInv, CountInv, PlaceInv, SlotInv, BehindInv, task = "dma", Len(rx) > 0
  PROVE  ServingSlots([rx EXCEPT ![Len(rx)].octets = aRxBuffer])
<1> DEFINE slots == [rx EXCEPT ![Len(rx)].octets = aRxBuffer]
           s == [rx[Len(rx)] EXCEPT !.octets = aRxBuffer]
           n == Len(rx)
<1>1. rx \in Seq(Slots) /\ n \in Nat /\ n \in 1 .. n /\ slots = [rx EXCEPT ![n] = s]
  BY LenProperties DEF TypeInv
<1>2. rx[n] \in Slots
  BY <1>1
<1>3. s \in Slots /\ s.request = rx[n].request
  BY <1>2 DEF Slots, TypeInv
<1> HIDE DEF s, slots, n
<1>4. slots \in Seq(Slots) /\ Len(slots) = Len(rx)
  BY <1>1, <1>3, ExceptSeq DEF n
<1>5. \A k \in 1 .. Len(rx) : slots[k].request = rx[k].request
  BY <1>1, <1>3, ExceptSeq DEF n
<1>6. ASSUME NEW k \in 1 .. Len(slots)
      PROVE  /\ lastCalled < slots[k].request /\ slots[k].request <= request
             /\ \A l \in 1 .. k - 1 : slots[l].request < slots[k].request
  <2>1. k \in 1 .. Len(rx) /\ \A l \in 1 .. k - 1 : l \in 1 .. Len(rx)
    BY <1>1, <1>4 DEF n
  <2> QED BY <1>5, <2>1 DEF SlotInv
<1>7. Len(slots) > 0 /\ slots[Len(slots)].request = Pending(0)
  BY <1>1, <1>4, <1>5 DEF n, BehindInv
<1> QED BY <1>4, <1>6, <1>7 DEF ServingSlots, slots

\* The request at the tail leaves the transmit ring; the oldest receive slot is called
\* back, or it is lost.
LEMMA PopOrder ==
  ASSUME TypeInv, CountInv, PlaceInv, PendingInv, ~Reserving, Filled > 0,
         NEW slots, ServingSlots(slots), PopTx, UNCHANGED <<client, request>>, task' = "main",
         NotifyRxData(slots) \/ (rx' = slots /\ lastCalled' = lastCalled)
  PROVE  /\ PlaceInv' /\ PendingInv' /\ SlotInv' /\ BehindInv'
         /\ NotifyRxData(slots) => lastCalled' > lastCalled
<1>1. PICK n \in Nat : n + 1 = Filled
  <2>1. Filled \in Nat /\ Filled - 1 \in Nat
    BY DEF PlaceInv
  <2> QED BY <2>1
<1>2. PICK t \in Index : t = tx.tail
  BY DEF TypeInv, Rings
<1>3. /\ Filled = tx.elementCount /\ tx.elementCount = n + 1 /\ n < SlotCount
      /\ tx.head = At(t, n + 1) /\ Pending(0) \in Nat
      /\ lastCalled <= request /\ request \in Nat /\ lastCalled \in Nat
  <2>1. Filled = tx.elementCount /\ Taken = tx.elementCount
    BY DEF Filled, Taken, Reserving
  <2>2. tx.elementCount <= SlotCount /\ Pending(0) \in Nat /\ request \in Nat /\ lastCalled \in Nat
    BY <1>1, PendingType
  <2> QED BY <1>1, <1>2, <2>1, <2>2, SpiAssumption DEF PlaceInv
<1>4. /\ tx'.tail = After(t) /\ tx'.head = tx.head /\ tx'.slot = tx.slot
      /\ tx'.elementCount = tx.elementCount - 1
  BY <1>2 DEF PopTx, TypeInv, Rings
<1>5. Filled' = n /\ Taken' = n /\ ~Reserving'
  BY <1>3, <1>4 DEF Filled, Taken, Reserving
<1>6. \A i \in Nat : i < SlotCount => Pending(i)' = Pending(i + 1)
  <2> SUFFICES ASSUME NEW i \in Nat, i < SlotCount PROVE Pending(i)' = Pending(i + 1)
    OBVIOUS
  <2>1. At(After(t), i) = At(t, i + 1)
    BY AtIs
  <2>2. Pending(i)' = tx'.slot[At(After(t), i)]
    BY <1>4 DEF Pending
  <2> QED BY <1>2, <1>4, <2>1, <2>2 DEF Pending
<1>7. /\ slots \in Seq(Slots) /\ Len(slots) \in Nat /\ Len(slots) > 0
      /\ \A k \in 1 .. Len(slots) :
           /\ lastCalled < slots[k].request /\ slots[k].request <= request
           /\ slots[k].request \in Nat
           /\ \A l \in 1 .. k - 1 : slots[l].request < slots[k].request
           /\ slots[k].request <= Pending(0)
  <2>1. slots \in Seq(Slots) /\ Len(slots) \in Nat /\ Len(slots) > 0 /\ Len(slots) \in 1 .. Len(slots)
    BY LenProperties DEF ServingSlots
  <2>2. ASSUME NEW k \in 1 .. Len(slots)
        PROVE  slots[k].request \in Nat
    <3>1. slots[k] \in Slots
      BY <2>1
    <3> QED BY <3>1, SpiAssumption DEF Slots, Requests
  <2>3. ASSUME NEW k \in 1 .. Len(slots)
        PROVE  slots[k].request <= Pending(0)
    <3>1. CASE k = Len(slots)
      BY <1>3, <3>1 DEF ServingSlots
    <3>2. CASE k # Len(slots)
      <4>1. k \in 1 .. Len(slots) - 1
        BY <2>1, <3>2
      <4>2. slots[k].request < slots[Len(slots)].request
        BY <2>1, <4>1 DEF ServingSlots
      <4> QED BY <1>3, <2>2, <4>2 DEF ServingSlots
    <3> QED BY <3>1, <3>2
  <2> QED BY <2>1, <2>2, <2>3 DEF ServingSlots
<1>8. PICK c \in {0, 1} :
        /\ rx' \in Seq(Slots) /\ Len(rx') = Len(slots) - c
        /\ \A k \in 1 .. Len(rx') : k + c \in 1 .. Len(slots) /\ rx'[k] = slots[k + c]
        /\ lastCalled' = IF c = 1 THEN slots[1].request ELSE lastCalled
        /\ NotifyRxData(slots) => c = 1
  <2>1. CASE NotifyRxData(slots)
    <3>1. rx' = Tail(slots) /\ slots # <<>>
      BY <1>7, <2>1 DEF NotifyRxData
    <3>2. rx' \in Seq(Slots) /\ Len(rx') = Len(slots) - 1
          /\ \A k \in 1 .. Len(rx') : rx'[k] = slots[k + 1]
      BY <1>7, <3>1, HeadTailProperties
    <3>3. slots[1].request # 0
      <4>1. lastCalled < slots[1].request /\ slots[1].request \in Nat
        BY <1>7
      <4> QED BY <1>3, <4>1
    <3>4. lastCalled' = slots[1].request
      BY <2>1, <3>3 DEF NotifyRxData, Callback
    <3>5. \A k \in 1 .. Len(rx') : k + 1 \in 1 .. Len(slots)
      BY <1>7, <3>2
    <3> QED BY <3>2, <3>4, <3>5
  <2>2. CASE ~NotifyRxData(slots)
    <3>1. rx' = slots /\ lastCalled' = lastCalled
      BY <2>2
    <3>2. Len(rx') = Len(slots) - 0 /\ \A k \in 1 .. Len(rx') : k + 0 \in 1 .. Len(slots) /\ k + 0 = k
      BY <1>7, <3>1
    <3>3. /\ rx' \in Seq(Slots)
          /\ \A k \in 1 .. Len(rx') : k + 0 \in 1 .. Len(slots) /\ rx'[k] = slots[k + 0]
          /\ lastCalled' = IF 0 = 1 THEN slots[1].request ELSE lastCalled
      BY <1>7, <3>1, <3>2
    <3> WITNESS 0 \in {0, 1}
    <3> QED BY <2>2, <3>2, <3>3
  <2> QED BY <2>1, <2>2
<1>9. /\ lastCalled' \in Nat /\ lastCalled' <= request /\ lastCalled' <= Pending(0)
      /\ c = 1 => lastCalled < lastCalled'
      /\ \A k \in 1 .. Len(rx') : lastCalled' < rx'[k].request
  <2>1. 1 \in 1 .. Len(slots)
    BY <1>7
  <2>2. lastCalled < Pending(0)
    <3>1. lastCalled < slots[1].request /\ slots[1].request <= Pending(0) /\ slots[1].request \in Nat
      BY <1>7, <2>1
    <3> QED BY <1>3, <3>1
  <2>3. ASSUME NEW k \in 1 .. Len(rx')
        PROVE  lastCalled' < rx'[k].request
    <3>1. k + c \in 1 .. Len(slots) /\ rx'[k] = slots[k + c] /\ (c = 1 => 1 \in 1 .. (k + c) - 1)
      BY <1>7, <1>8
    <3> QED BY <1>7, <1>8, <3>1
  <2>4. slots[1].request \in Nat /\ lastCalled < slots[1].request
        /\ slots[1].request <= request /\ slots[1].request <= Pending(0)
    BY <1>7, <2>1
  <2>5. CASE c = 0
    <3>1. lastCalled' = lastCalled
      BY <1>8, <2>5
    <3> QED BY <1>3, <2>2, <2>3, <2>5, <3>1
  <2>6. CASE c = 1
    <3>1. lastCalled' = slots[1].request
      BY <1>8, <2>6
    <3> QED BY <2>3, <2>4, <3>1
  <2> QED BY <2>5, <2>6
<1>10. PlaceInv'
  <2>1. tx'.head = At(tx'.tail, n)
    BY <1>3, <1>4, AtIs
  <2>2. client' # "count"
    BY <1>5 DEF Reserving
  <2> QED BY <1>5, <1>9, <2>1, <2>2 DEF PlaceInv
<1>11. \A i \in 0 .. n - 1 : /\ i \in Nat /\ i < SlotCount /\ i + 1 \in 0 .. Filled - 1
                             /\ Pending(i)' = Pending(i + 1)
                             /\ Pending(0) < Pending(i + 1) /\ Pending(i + 1) \in Nat
                             /\ Pending(i + 1) <= request
  <2> TAKE i \in 0 .. n - 1
  <2>1. i \in Nat /\ i < SlotCount /\ i + 1 \in 0 .. Filled - 1 /\ 0 \in 0 .. (i + 1) - 1
    BY <1>1, <1>3, SpiAssumption
  <2> DEFINE m == i + 1
  <2>2. m \in 0 .. Filled - 1 /\ 0 \in 0 .. m - 1
    BY <2>1
  <2> HIDE DEF m
  <2>3. Pending(0) < Pending(m) /\ Pending(m) \in Nat /\ Pending(m) <= request
    BY <1>1, <2>2, PendingType DEF PendingInv
  <2> QED BY <1>6, <2>1, <2>3 DEF m
<1>12. PendingInv'
  <2> SUFFICES ASSUME NEW i \in 0 .. n - 1
               PROVE  /\ lastCalled' < Pending(i)' /\ Pending(i)' <= request
                      /\ \A j \in 0 .. i - 1 : Pending(j)' < Pending(i)'
    BY <1>5 DEF PendingInv
  <2>1. lastCalled' < Pending(i)' /\ Pending(i)' <= request
    BY <1>3, <1>9, <1>11
  <2>2. ASSUME NEW j \in 0 .. i - 1
        PROVE  Pending(j)' < Pending(i)'
    <3> DEFINE l == j + 1
               m == i + 1
    <3>1. j \in 0 .. n - 1 /\ l \in 0 .. m - 1 /\ m \in 0 .. Filled - 1
      BY <1>11
    <3>2. Pending(j)' = Pending(l) /\ Pending(i)' = Pending(m)
      BY <1>11, <3>1
    <3> HIDE DEF l, m
    <3> QED BY <3>1, <3>2 DEF PendingInv
  <2> QED BY <2>1, <2>2
<1>13. SlotInv'
  <2> SUFFICES ASSUME NEW k \in 1 .. Len(rx')
               PROVE  /\ lastCalled' < rx'[k].request /\ rx'[k].request <= request
                      /\ \A l \in 1 .. k - 1 : rx'[l].request < rx'[k].request
    BY <1>5 DEF SlotInv
  <2>1. k + c \in 1 .. Len(slots) /\ rx'[k] = slots[k + c]
    BY <1>8
  <2>2. ASSUME NEW l \in 1 .. k - 1
        PROVE  rx'[l].request < rx'[k].request
    <3>1. l \in 1 .. Len(rx') /\ l + c \in 1 .. (k + c) - 1
      BY <1>7, <1>8
    <3>2. rx'[l] = slots[l + c]
      BY <1>8, <3>1
    <3> QED BY <1>7, <2>1, <3>1, <3>2
  <2> QED BY <1>7, <1>9, <2>1, <2>2
<1>14. BehindInv'
  <2>1. ASSUME NEW k \in 1 .. Len(rx'), NEW i \in 0 .. n - 1
        PROVE  rx'[k].request < Pending(i)' /\ rx'[k].request <= Pending(i)'
    <3>1. k + c \in 1 .. Len(slots) /\ rx'[k] = slots[k + c]
      BY <1>8
    <3>2. rx'[k].request <= Pending(0) /\ rx'[k].request \in Nat
      BY <1>7, <3>1
    <3> QED BY <1>3, <1>11, <3>2
  <2> QED BY <1>5, <2>1 DEF BehindInv
<1> QED BY <1>8, <1>9, <1>10, <1>12, <1>13, <1>14

LEMMA TaskOrder ==
  ASSUME IInv, OrderInv, SpiTask, ~raced'
  PROVE  /\ PlaceInv' /\ PendingInv' /\ SlotInv' /\ BehindInv'
         /\ calls' # calls => lastCalled' > lastCalled
<1>1. ~raced /\ UNCHANGED <<client, request, reg>>
  <2>1. raced' = (raced \/ Reserving) \/ raced' = raced
    BY DEF SpiTask, NothingToServe, Polled, Started, NotStarted, Finishes, Serves, ghostVars
  <2>2. UNCHANGED <<client, request, reg>>
    BY DEF SpiTask, NothingToServe, Polled, Started, NotStarted, Finishes, Serves, clientVars
  <2>3. ~raced
    BY <2>1, Zenon
  <2> QED BY <2>2, <2>3
<1>2. TypeInv /\ CountInv /\ RxInv /\ PlaceInv /\ PendingInv /\ SlotInv /\ BehindInv
  BY <1>1 DEF IInv, OrderInv
<1>3. Serves => /\ ~Reserving /\ task = "main" /\ Filled > 0
  <2> SUFFICES ASSUME Serves PROVE ~Reserving /\ task = "main" /\ Filled > 0
    OBVIOUS
  <2>1. ~Reserving /\ task = "main" /\ tx.elementCount > 0
    BY DEF Serves
  <2> QED BY <2>1 DEF Filled, Reserving
<1>4. 0 \in Requests /\ tx.slot[tx.tail] \in Requests
  BY <1>2, SpiAssumption DEF TypeInv, Rings, Requests
<1>5. CASE NothingToServe
  <2>1. UNCHANGED <<tx, rx, task, lastCalled, calls>>
    BY <1>5 DEF NothingToServe, ringVars, ghostVars
  <2>2. Filled' = Filled /\ Taken' = Taken /\ (Reserving' <=> Reserving) /\ request \in Nat
    BY <1>1, <1>2, <2>1, PendingType DEF Filled, Taken, Reserving, PlaceInv
  <2>3. /\ PendingInv' /\ SlotInv' /\ BehindInv'
    BY <1>1, <1>2, <2>1, <2>2, OrderKept
  <2> QED BY <1>1, <1>2, <2>1, <2>2, <2>3 DEF PlaceInv
<1>6. CASE Polled
  <2> DEFINE o == IF dma = 0 THEN tx.slot[tx.tail] ELSE 0
  <2>1. /\ Serves /\ NotifyRxData(Reserved(o)) /\ PopTx /\ task' = task
    BY <1>6 DEF Polled
  <2>2. o \in Requests
    BY <1>4
  <2> HIDE DEF o
  <2>3. ServingSlots(Reserved(o))
    BY <1>2, <1>3, <2>1, <2>2, ServingOne
  <2> QED BY <1>1, <1>2, <1>3, <2>1, <2>3, PopOrder
<1>7. CASE NotStarted
  <2>1. /\ Serves /\ PopTx /\ rx' = Reserved(0) /\ UNCHANGED <<task, lastCalled, calls>>
    BY <1>7 DEF NotStarted
  <2>2. ServingSlots(Reserved(0))
    BY <1>2, <1>3, <1>4, <2>1, ServingOne
  <2> QED BY <1>1, <1>2, <1>3, <2>1, <2>2, PopOrder
<1>8. CASE Finishes
  <2> DEFINE slots == [rx EXCEPT ![Len(rx)].octets = aRxBuffer]
  <2>1. /\ task = "dma" /\ task' = "main" /\ NotifyRxData(slots) /\ PopTx /\ ~Reserving
    BY <1>8 DEF Finishes
  <2>2. Filled > 0 /\ Len(rx) > 0
    BY <1>2, <2>1, LenProperties DEF BehindInv, RxInv, RxSlotsAccounted, TypeInv
  <2>3. ServingSlots(slots)
    BY <1>2, <2>1, <2>2, ServingTransfer
  <2> QED BY <1>1, <1>2, <2>1, <2>2, <2>3, PopOrder
<1>9. CASE Started
  <2>1. /\ Serves /\ rx' = Reserved(0) /\ task' = "dma" /\ UNCHANGED <<tx, lastCalled, calls>>
    BY <1>9 DEF Started
  <2>2. ServingSlots(rx')
    BY <1>2, <1>3, <1>4, <2>1, ServingOne
  <2>3. Filled' = Filled /\ Taken' = Taken /\ ~Reserving' /\ ~Reserving /\ Filled > 0
    BY <1>1, <1>3, <2>1 DEF Filled, Taken, Reserving
  <2>4. PlaceInv'
    BY <1>1, <1>2, <2>1, <2>3 DEF PlaceInv
  <2>5. \A i \in Nat : Pending(i)' = Pending(i)
    BY <2>1 DEF Pending
  <2>6. \A i \in 0 .. Filled - 1 : i \in Nat /\ (\A j \in 0 .. i - 1 : j \in Nat) /\ Pending(i) \in Nat
    BY <1>2, PendingType DEF PlaceInv
  <2>7. PendingInv'
    BY <1>1, <1>2, <2>1, <2>3, <2>5, <2>6 DEF PendingInv
  <2>8. SlotInv'
    BY <1>1, <2>1, <2>2, <2>3 DEF ServingSlots, SlotInv
  <2>9. BehindInv'
    <3>1. ASSUME NEW k \in 1 .. Len(rx'), NEW i \in 0 .. Filled - 1
          PROVE  rx'[k].request <= Pending(i)
      <4>1. CASE k = Len(rx')
        <5>1. rx'[k].request = Pending(0) /\ 0 \in 0 .. Filled - 1
          <6>1. Filled \in Nat
            BY <1>2 DEF PlaceInv
          <6> QED BY <2>2, <2>3, <4>1, <6>1 DEF ServingSlots
        <5>2. i = 0 \/ 0 \in 0 .. i - 1
          BY <2>6
        <5> QED BY <1>2, <2>6, <5>1, <5>2 DEF PendingInv
      <4>2. CASE k # Len(rx')
        <5>1. Len(rx') = Len(rx) + 1 /\ Len(rx) \in Nat /\ \A l \in 1 .. Len(rx) : rx'[l] = rx[l]
          <6> DEFINE s == [request |-> tx.slot[tx.tail], octets |-> 0]
          <6>1. rx' = Append(rx, s) /\ s \in Slots /\ rx \in Seq(Slots)
            BY <1>2, <1>4, <2>1 DEF Reserved, Slots, TypeInv
          <6> HIDE DEF s
          <6> QED BY <6>1
        <5>2. k \in 1 .. Len(rx)
          BY <4>2, <5>1
        <5> QED BY <1>2, <5>1, <5>2 DEF BehindInv
      <4> QED BY <4>1, <4>2
    <3>2. Pending(0)' = Pending(0) /\ rx'[Len(rx')].request = Pending(0)
      BY <2>2, <2>5 DEF ServingSlots
    <3> QED BY <2>1, <2>3, <2>5, <2>6, <3>1, <3>2 DEF BehindInv
  <2> QED BY <2>1, <2>4, <2>7, <2>8, <2>9
<1> QED BY <1>5, <1>6, <1>7, <1>8, <1>9 DEF SpiTask

LEMMA InitOrder == Init => OrderInv
<1> SUFFICES ASSUME Init PROVE PlaceInv /\ PendingInv /\ SlotInv /\ BehindInv
  BY DEF OrderInv
<1>1. /\ tx.head = 0 /\ tx.tail = 0 /\ tx.elementCount = 0 /\ Len(rx) = 0
      /\ client = "idle" /\ task = "main" /\ lastCalled = 0 /\ request = 0
  BY DEF Init
<1>2. Filled = 0 /\ Taken = 0 /\ ~Reserving
  BY <1>1 DEF Filled, Taken, Reserving
<1>3. At(0, 0) = 0
  BY SpiAssumption DEF At
<1> QED BY <1>1, <1>2, <1>3 DEF PlaceInv, PendingInv, SlotInv, BehindInv

LEMMA StepOrder ==
  ASSUME IInv, OrderInv, [Next]_vars
  PROVE  OrderInv' /\ (calls' # calls /\ ~raced' => lastCalled' > lastCalled)
<1>1. CASE ClientStep \/ TimesOut
  <2>1. calls' = calls
    BY <1>1 DEF ClientStep, Place, StoreCount, TestFull, MarkFull, Fill, Notify, Refused, Return, TimesOut, ghostVars
  <2> QED BY <1>1, <2>1, ClientOrder
<1>2. CASE SpiTask
  BY <1>2, TaskOrder DEF OrderInv
<1>3. CASE DmaComplete \/ DmaError \/ UNCHANGED vars
  <2>1. UNCHANGED <<tx, rx, task, client, request, reg, lastCalled, calls, raced>>
    BY <1>3 DEF DmaComplete, DmaError, vars, ringVars, taskVars, clientVars, ghostVars
  <2>2. SUFFICES ASSUME ~raced PROVE PlaceInv' /\ PendingInv' /\ SlotInv' /\ BehindInv'
    BY <2>1 DEF OrderInv
  <2>3. TypeInv /\ CountInv /\ PlaceInv /\ PendingInv /\ SlotInv /\ BehindInv
    BY <2>2 DEF IInv, OrderInv
  <2>4. Filled' = Filled /\ Taken' = Taken /\ (Reserving' <=> Reserving) /\ request \in Nat
    BY <2>1, <2>3, PendingType DEF Filled, Taken, Reserving, PlaceInv
  <2>5. PendingInv' /\ SlotInv' /\ BehindInv'
    BY <2>1, <2>3, <2>4, OrderKept
  <2> QED BY <2>1, <2>3, <2>4, <2>5 DEF PlaceInv
<1> QED BY <1>1, <1>2, <1>3 DEF Next


-----------------------------------------------------------------------------
(* Without time-outs and failing transfers: one request is under way at a time *)

Untroubled == timeouts = 0 /\ faults = leaked

Idling == rx = <<>> /\ ~notified /\ task = "main" /\ dma = 0
Queued == tx.elementCount = 1 /\ tx.slot[tx.tail] = request

\* Where the client's request is; one whose transfer did not start is nowhere.
Resting == client = "idle" /\ Idling /\ tx.elementCount = 0 /\ ~tx.isFull
Counting == client = "count" /\ Idling /\ ~done /\ tx.elementCount = 0
Filling == client \in {"full", "mark", "fill"} /\ Idling /\ ~done /\ tx.elementCount = 1
Placed == client = "notify" /\ Idling /\ ~done /\ Queued
Announced == /\ client = "waiting" /\ ~done /\ Queued
             /\ rx = <<>> /\ notified /\ task = "main" /\ dma = 0
Transferring == /\ client = "waiting" /\ ~done /\ Queued
                /\ task = "dma" /\ Len(rx) = 1 /\ rx[1].request = request
                /\ IF notified THEN dma = 0 /\ aRxBuffer = request ELSE dma = request
Served == /\ client = "waiting" /\ Idling /\ done /\ response = request
          /\ tx.elementCount = 0 /\ ~tx.isFull
Lost == /\ client = "waiting" /\ ~notified /\ ~done /\ task = "main" /\ dma = 0
        /\ tx.elementCount = 0

UnderWay ==
    \/ Resting \/ Counting \/ Filling \/ Placed
    \/ Announced \/ Transferring \/ Served \/ Lost

OwnAnswers == \A r \in 1 .. Len(answers) : answers[r].kind = "ok" => answers[r].data = r

QuietInv ==
    /\ timeouts \in Nat /\ faults \in Nat /\ leaked <= faults
    /\ Untroubled => ~raced /\ UnderWay /\ OwnAnswers

LEMMA FaultStep ==
  ASSUME TypeInv, QuietInv, [Next]_vars
  PROVE  /\ timeouts' \in Nat /\ faults' \in Nat /\ leaked' <= faults'
         /\ Untroubled' => Untroubled /\ ~TimesOut /\ ~DmaError
<1>1. timeouts \in Nat /\ faults \in Nat /\ leaked \in Nat /\ leaked <= faults
  BY DEF QuietInv, TypeInv
<1>2. CASE TimesOut
  <2>1. timeouts' = timeouts + 1 /\ UNCHANGED <<leaked, faults>>
    BY <1>2 DEF TimesOut
  <2> QED BY <1>1, <2>1 DEF Untroubled
<1>3. CASE DmaError
  <2>1. faults' = faults + 1 /\ UNCHANGED <<leaked, timeouts>>
    BY <1>3 DEF DmaError, Failed
  <2> QED BY <1>1, <2>1 DEF Untroubled
<1>4. CASE NotStarted
  <2>1. faults' = faults + 1 /\ leaked' = leaked + 1 /\ timeouts' = timeouts
    BY <1>4 DEF NotStarted, Failed, Serves
  <2> QED BY <1>1, <1>2, <1>3, <2>1 DEF Untroubled
<1>5. CASE ~TimesOut /\ ~DmaError /\ ~NotStarted
  <2>1. UNCHANGED <<timeouts, faults, leaked>>
    BY <1>5 DEF Next, ClientStep, SpiTask, Place, StoreCount, TestFull, MarkFull, Fill, Notify, Refused, Return,
       NothingToServe, Polled, Started, Finishes, Serves, DmaComplete, vars, ghostVars
  <2> QED BY <1>1, <1>5, <2>1 DEF Untroubled
<1> QED BY <1>2, <1>3, <1>4, <1>5

\* The client's steps with its own request.
LEMMA ClientQuiet ==
  ASSUME IInv, OrderInv, ~raced, UnderWay, OwnAnswers, ClientStep
  PROVE  ~raced' /\ UnderWay' /\ OwnAnswers'
<1>1. /\ tx \in Rings /\ tx.elementCount \in Nat /\ tx.tail \in Index
      /\ SlotCount \in Nat \ {0} /\ raced' = raced
  <2>1. raced' = raced
    BY DEF ClientStep, Place, StoreCount, TestFull, MarkFull, Fill, Notify, Refused, Return, ghostVars
  <2> QED BY <2>1, SpiAssumption DEF IInv, TypeInv, Rings
<1>2. CASE Place
  <2>1. client = "idle"
    BY <1>2 DEF Place
  <2>2. Resting
    BY <2>1 DEF UnderWay, Resting, Counting, Filling, Placed, Announced, Transferring, Served, Lost
  <2>3. ~(tx.isFull \/ Len(rx) = SlotCount)
    <3>1. Len(rx) = 0
      BY <2>2 DEF Resting, Idling
    <3> QED BY <1>1, <2>2, <3>1 DEF Resting
  <2>4. /\ client' = "count" /\ tx' = [tx EXCEPT !.head = After(@)] /\ done' = FALSE
        /\ UNCHANGED <<rx, notified, task, dma, answers>>
    BY <1>2, <2>3 DEF Place, taskVars
  <2>5. tx'.elementCount = tx.elementCount
    BY <1>1, <2>4 DEF Rings
  <2>6. Counting'
    BY <2>2, <2>4, <2>5 DEF Resting, Counting, Idling
  <2> QED BY <1>1, <2>4, <2>6 DEF UnderWay, OwnAnswers
<1>3. CASE StoreCount
  <2>1. client = "count" /\ reg = tx.elementCount
    BY <1>3 DEF StoreCount, OrderInv, PlaceInv
  <2>2. Counting
    BY <2>1 DEF UnderWay, Resting, Counting, Filling, Placed, Announced, Transferring, Served, Lost
  <2>3. /\ client' = "full" /\ tx' = [tx EXCEPT !.elementCount = reg + 1]
        /\ UNCHANGED <<rx, notified, task, dma, done, answers>>
    BY <1>3 DEF StoreCount, taskVars
  <2>4. tx'.elementCount = 1
    BY <1>1, <2>1, <2>2, <2>3 DEF Rings, Counting
  <2>5. Filling'
    BY <2>2, <2>3, <2>4 DEF Counting, Filling, Idling
  <2> QED BY <1>1, <2>3, <2>5 DEF UnderWay, OwnAnswers
<1>4. CASE TestFull \/ MarkFull
  <2>1. client \in {"full", "mark"}
    BY <1>4 DEF TestFull, MarkFull
  <2>2. Filling
    BY <2>1 DEF UnderWay, Resting, Counting, Filling, Placed, Announced, Transferring, Served, Lost
  <2>3. /\ client' \in {"mark", "fill"} /\ tx' \in {tx, [tx EXCEPT !.isFull = TRUE]}
        /\ UNCHANGED <<rx, notified, task, dma, done, answers>>
    BY <1>4 DEF TestFull, MarkFull, taskVars
  <2>4. tx'.elementCount = tx.elementCount
    BY <1>1, <2>3 DEF Rings
  <2>5. Filling'
    BY <2>2, <2>3, <2>4 DEF Filling, Idling
  <2> QED BY <1>1, <2>3, <2>5 DEF UnderWay, OwnAnswers
<1>5. CASE Fill
  <2>1. client = "fill"
    BY <1>5 DEF Fill
  <2>2. Filling
    BY <2>1 DEF UnderWay, Resting, Counting, Filling, Placed, Announced, Transferring, Served, Lost
  <2>3. /\ client' = "notify"
        /\ tx' = [tx EXCEPT !.slot[(tx.head + SlotCount - 1) % SlotCount] = request]
        /\ UNCHANGED <<rx, notified, task, dma, request, done, answers>>
    BY <1>5 DEF Fill, taskVars
  <2>4. (tx.head + SlotCount - 1) % SlotCount = tx.tail
    <3>1. tx.head = At(tx.tail, 0 + 1)
      BY <2>1, <2>2 DEF OrderInv, PlaceInv, Taken, Filling
    <3>2. 0 \in Nat /\ 0 < SlotCount
      BY <1>1
    <3> QED BY <1>1, <3>1, <3>2, AtIs
  <2>5. Queued'
    BY <1>1, <2>2, <2>3, <2>4 DEF Rings, Filling, Queued
  <2>6. Placed'
    BY <2>2, <2>3, <2>5 DEF Filling, Placed, Idling
  <2> QED BY <1>1, <2>3, <2>6 DEF UnderWay, OwnAnswers
<1>6. CASE Notify \/ Refused
  <2>1. client \in {"notify", "refused"}
    BY <1>6 DEF Notify, Refused
  <2>2. Placed
    BY <2>1 DEF UnderWay, Resting, Counting, Filling, Placed, Announced, Transferring, Served, Lost
  <2>3. /\ client' = "waiting" /\ notified' = TRUE
        /\ UNCHANGED <<tx, rx, task, dma, request, done, answers>>
    BY <1>6, <2>2 DEF Notify, Refused, Placed, ringVars
  <2>4. Announced'
    BY <2>2, <2>3 DEF Placed, Announced, Queued, Idling
  <2> QED BY <1>1, <2>3, <2>4 DEF UnderWay, OwnAnswers
<1>7. CASE Return
  <2>1. client = "waiting" /\ done
    BY <1>7 DEF Return
  <2>2. Served
    BY <2>1 DEF UnderWay, Resting, Counting, Filling, Placed, Announced, Transferring, Served, Lost
  <2>3. /\ Returns("ok") /\ UNCHANGED <<tx, rx, notified, task, dma>>
    BY <1>7 DEF Return, ringVars, taskVars
  <2>4. Resting'
    BY <2>2, <2>3 DEF Served, Resting, Idling, Returns
  <2>5. OwnAnswers'
    <3> DEFINE a == [kind |-> "ok", data |-> response]
    <3>1. answers' = Append(answers, a) /\ answers \in Seq([kind : Kinds, data : Requests])
      BY <2>3 DEF Returns, IInv, AnswerInv
    <3>2. a \in [kind : Kinds, data : Requests] /\ a.data = Len(answers) + 1
      BY <2>1, <2>2 DEF Served, IInv, AnswerInv, TypeInv, Kinds
    <3> HIDE DEF a
    <3>3. /\ Len(answers') = Len(answers) + 1 /\ answers'[Len(answers) + 1] = a
          /\ \A r \in 1 .. Len(answers) : answers'[r] = answers[r]
          /\ Len(answers) \in Nat
      BY <3>1, <3>2
    <3> SUFFICES ASSUME NEW r \in 1 .. Len(answers'), answers'[r].kind = "ok"
                 PROVE  answers'[r].data = r
      BY DEF OwnAnswers
    <3>4. CASE r = Len(answers) + 1
      BY <3>2, <3>3, <3>4
    <3>5. CASE r # Len(answers) + 1
      <4>1. r \in 1 .. Len(answers)
        BY <3>3, <3>5
      <4> QED BY <3>3, <4>1 DEF OwnAnswers
    <3> QED BY <3>4, <3>5
  <2> QED BY <1>1, <2>4, <2>5 DEF UnderWay
<1> QED BY <1>2, <1>3, <1>4, <1>5, <1>6, <1>7 DEF ClientStep

\* Calling back a request that is waited for gives its client the octets.
LEMMA OwnCallback ==
  ASSUME NEW slots \in Seq(Slots), Len(slots) = 1, slots[1].request = request, request # 0,
         request \in Nat, client = "waiting", NotifyRxData(slots)
  PROVE  rx' = <<>> /\ done' = TRUE /\ response' = slots[1].octets
<1>1. Callback(slots[1].request, slots[1].octets) /\ rx' = Tail(slots)
  BY DEF NotifyRxData
<1>2. done' = TRUE /\ response' = slots[1].octets
  BY <1>1 DEF Callback
<1>3. Len(rx') = 0 /\ rx' \in Seq(Slots)
  <2>1. Len(<< >>) = 0 /\ Len(slots) # 0
    OBVIOUS
  <2>2. slots # << >>
    BY <2>1
  <2> QED BY <1>1, <2>2, HeadTailProperties
<1>4. rx' = <<>>
  BY <1>3, EmptySeq
<1> QED BY <1>2, <1>4

LEMMA TaskQuiet ==
  ASSUME IInv, OrderInv, ~raced, UnderWay, SpiTask
  PROVE  ~raced' /\ UnderWay'
<1>1. /\ tx \in Rings /\ tx.elementCount \in Nat /\ tx.tail \in Index /\ request \in Nat
      /\ SlotCount \in Nat \ {0} /\ rx \in Seq(Slots) /\ Len(rx) \in Nat
      /\ tx.slot[tx.tail] \in Requests /\ aRxBuffer \in Requests
  BY SpiAssumption, LenProperties DEF IInv, TypeInv, Rings, Requests
<1>2. Announced \/ Transferring
  <2>1. notified
    BY DEF SpiTask, NothingToServe, Polled, Started, NotStarted, Finishes, Serves
  <2> QED BY <2>1 DEF UnderWay, Resting, Counting, Filling, Placed, Served, Lost, Idling
<1>3. client = "waiting" /\ request # 0 /\ tx.elementCount = 1 /\ tx.slot[tx.tail] = request
      /\ notified' = FALSE
  <2>1. client = "waiting" /\ tx.elementCount = 1 /\ tx.slot[tx.tail] = request
    BY <1>2 DEF Announced, Transferring, Queued
  <2>2. request # 0
    BY <2>1, LenProperties DEF IInv, AnswerInv
  <2>3. notified' = FALSE
    BY DEF SpiTask, NothingToServe, Polled, Started, NotStarted, Finishes, Serves
  <2> QED BY <2>1, <2>2, <2>3
<1>4. ~raced'
  <2>1. ~Reserving
    BY <1>3 DEF Reserving
  <2>2. raced' = (raced \/ Reserving) \/ raced' = raced
    BY DEF SpiTask, NothingToServe, Polled, Started, NotStarted, Finishes, Serves, ghostVars
  <2> QED BY <2>1, <2>2, Zenon
<1>5. PopTx => tx'.elementCount = 0 /\ ~tx'.isFull
  BY <1>1, <1>3 DEF PopTx, Rings
<1>6. CASE NothingToServe
  <2>1. Announced
    BY <1>2, <1>6 DEF NothingToServe, Transferring
  <2>2. ~PeekFails
    <3>1. tx.head = At(tx.tail, 1) /\ (~tx.isFull => 1 < SlotCount)
      BY <1>3 DEF OrderInv, PlaceInv, Taken, IInv, CountInv
    <3>2. 1 < SlotCount => At(tx.tail, 1) # tx.tail
      BY <1>1 DEF At, Rings, Index
    <3> QED BY <3>1, <3>2 DEF PeekFails
  <2> QED BY <1>1, <1>6, <2>1, <2>2 DEF NothingToServe, Announced, Queued
<1>7. CASE Finishes
  <2> DEFINE slots == [rx EXCEPT ![Len(rx)].octets = aRxBuffer]
  <2>1. Transferring /\ notified
    BY <1>2, <1>7 DEF Finishes, Announced
  <2>2. /\ task' = "main" /\ NotifyRxData(slots) /\ PopTx /\ UNCHANGED <<dma, client, request>>
    BY <1>7 DEF Finishes
  <2>3. slots \in Seq(Slots) /\ Len(slots) = 1 /\ slots[1].request = request
        /\ slots[1].octets = request
    <3> DEFINE s == [rx[1] EXCEPT !.octets = aRxBuffer]
    <3>1. Len(rx) = 1 /\ rx[1].request = request /\ aRxBuffer = request
      BY <2>1 DEF Transferring
    <3>2. 1 \in 1 .. Len(rx) /\ rx[1] \in Slots
      <4> HIDE DEF s, slots
      <4>1. 1 \in 1 .. Len(rx)
        BY <3>1
      <4> QED BY <1>1, <4>1, ElementOfSeq
    <3>3. s \in Slots /\ s.request = request /\ s.octets = request
      BY <1>1, <3>1, <3>2 DEF Slots
    <3>4. slots = [rx EXCEPT ![1] = s] /\ 1 \in 1 .. Len(rx)
      BY <3>1
    <3> HIDE DEF s, slots
    <3>5. slots \in Seq(Slots) /\ Len(slots) = 1 /\ slots[1] = s
      <4>1. slots \in Seq(Slots)
        BY <1>1, <3>2, <3>3, <3>4, ExceptSeq
      <4>2. Len(slots) = Len(rx)
        BY <1>1, <3>2, <3>3, <3>4, ExceptSeq
      <4>3. slots[1] = s
        BY <1>1, <3>2, <3>3, <3>4, ExceptSeq
      <4> QED BY <3>1, <4>1, <4>2, <4>3
    <3> QED BY <3>3, <3>5
  <2> HIDE DEF slots
  <2>4. rx' = <<>> /\ done' = TRUE /\ response' = request
    BY <1>1, <1>3, <2>2, <2>3, OwnCallback
  <2>5. Served'
    BY <1>3, <1>5, <2>1, <2>2, <2>4 DEF Transferring, Served, Idling
  <2> QED BY <1>4, <2>5 DEF UnderWay
<1>8. CASE Polled \/ Started \/ NotStarted
  <2>1. Announced /\ Serves
    BY <1>2, <1>8 DEF Polled, Started, NotStarted, Serves, Transferring
  <2>2. /\ UNCHANGED <<client, request>> /\ rx = <<>> /\ dma = 0 /\ ~done /\ task = "main"
    BY <2>1 DEF Serves, Announced
  <2>3. \A o \in Requests : /\ Reserved(o) \in Seq(Slots) /\ Len(Reserved(o)) = 1
                            /\ Reserved(o)[1].request = request /\ Reserved(o)[1].octets = o
    <3> TAKE o \in Requests
    <3> DEFINE s == [request |-> tx.slot[tx.tail], octets |-> o]
    <3>1. s \in Slots /\ s.request = request /\ s.octets = o /\ Reserved(o) = Append(rx, s)
      BY <1>1, <1>3 DEF Slots, Reserved
    <3> HIDE DEF s
    <3>2. Append(rx, s) \in Seq(Slots) /\ Len(Append(rx, s)) = 1 /\ Append(rx, s)[1] = s
      BY <2>2, <3>1
    <3> QED BY <3>1, <3>2
  <2>4. 0 \in Requests /\ request \in Requests
    BY <1>1, <1>3, SpiAssumption DEF Requests
  <2>5. CASE Polled
    <3>1. NotifyRxData(Reserved(request)) /\ PopTx /\ UNCHANGED <<task, dma>>
      BY <1>3, <2>2, <2>5 DEF Polled
    <3>2. rx' = <<>> /\ done' = TRUE /\ response' = request
      BY <1>1, <1>3, <2>3, <2>4, <3>1, OwnCallback
    <3>3. Served'
      BY <1>3, <1>5, <2>2, <3>1, <3>2 DEF Served, Idling
    <3> QED BY <1>4, <3>3 DEF UnderWay
  <2>6. CASE Started
    <3>1. dma' = request /\ rx' = Reserved(0) /\ task' = "dma" /\ UNCHANGED <<tx, done>>
      BY <1>3, <2>2, <2>6 DEF Started
    <3>2. Transferring'
      BY <1>3, <2>2, <2>3, <2>4, <3>1 DEF Transferring, Queued
    <3> QED BY <1>4, <3>2 DEF UnderWay
  <2>7. CASE NotStarted
    <3>1. PopTx /\ UNCHANGED <<task, dma, done>>
      BY <2>7 DEF NotStarted
    <3>2. Lost'
      BY <1>3, <1>5, <2>2, <3>1 DEF Lost
    <3> QED BY <1>4, <3>2 DEF UnderWay
  <2> QED BY <1>8, <2>5, <2>6, <2>7
<1> QED BY <1>6, <1>7, <1>8 DEF SpiTask

LEMMA QuietStep ==
  ASSUME IInv, OrderInv, QuietInv, [Next]_vars
  PROVE  QuietInv'
<1>1. /\ timeouts' \in Nat /\ faults' \in Nat /\ leaked' <= faults'
      /\ Untroubled' => Untroubled /\ ~TimesOut /\ ~DmaError
  BY FaultStep DEF IInv
<1>2. SUFFICES ASSUME Untroubled' PROVE ~raced' /\ UnderWay' /\ OwnAnswers'
  BY <1>1 DEF QuietInv
<1>3. ~raced /\ UnderWay /\ OwnAnswers /\ ~TimesOut /\ ~DmaError
  BY <1>1, <1>2 DEF QuietInv
<1>4. CASE ClientStep
  BY <1>3, <1>4, ClientQuiet
<1>5. CASE SpiTask
  <2>1. answers' = answers
    BY <1>5 DEF SpiTask, NothingToServe, Polled, Started, NotStarted, Finishes, Serves, clientVars
  <2> QED BY <1>3, <1>5, <2>1, TaskQuiet DEF OwnAnswers
<1>6. CASE DmaComplete
  <2>1. /\ dma # 0 /\ dma' = 0 /\ aRxBuffer' = dma /\ notified' = TRUE
        /\ UNCHANGED <<tx, rx, task, client, request, done, answers, raced>>
    BY <1>6 DEF DmaComplete, ringVars, clientVars, ghostVars
  <2>2. Transferring
    BY <1>3, <2>1 DEF UnderWay, Resting, Counting, Filling, Placed, Announced, Served, Lost, Idling
  <2>3. Transferring'
    BY <2>1, <2>2 DEF Transferring, Queued
  <2> QED BY <1>3, <2>1, <2>3 DEF UnderWay, OwnAnswers
<1>7. CASE UNCHANGED vars
  BY <1>3, <1>7 DEF vars, ringVars, taskVars, clientVars, ghostVars, UnderWay, Resting, Counting,
     Filling, Placed, Announced, Transferring, Served, Lost, Idling, Queued, OwnAnswers
<1> QED BY <1>3, <1>4, <1>5, <1>6, <1>7 DEF Next

LEMMA InitQuiet == Init => QuietInv
<1> SUFFICES ASSUME Init PROVE QuietInv
  OBVIOUS
<1>1. Resting /\ OwnAnswers
  BY DEF Init, Resting, Idling, OwnAnswers
<1> QED BY <1>1 DEF Init, QuietInv, UnderWay


-----------------------------------------------------------------------------
(* Theorems *)

\* The invariant of rings, clients and answers.
THEOREM Invariance == Spec => []IInv
<1> QED BY InitInv, StepInv, PTL DEF Spec

\* The counters of both rings stay in their ranges, wherever SpiTask preempts
\* a client that reserves.
THEOREM TypeCorrect == Spec => []TypeOK
<1>1. IInv => TypeOK
  <2> SUFFICES ASSUME IInv PROVE TypeOK
    OBVIOUS
  <2>1. TypeInv /\ AnswerInv /\ Len(rx) <= SlotCount
    BY DEF IInv, RxInv
  <2>2. Len(answers) <= request
    <3>1. Len(answers) \in Nat
      BY <2>1, LenProperties DEF AnswerInv
    <3> QED BY <2>1, <3>1 DEF AnswerInv
  <2>3. {dma, aRxBuffer, request, response, lastCalled} \subseteq 0 .. MaxRequests
    BY <2>1 DEF TypeInv, Requests
  <2>4. {done, raced} \subseteq BOOLEAN
    BY <2>1, Zenon DEF TypeInv
  <2>5. rx \in Seq([request : 0 .. MaxRequests, octets : 0 .. MaxRequests])
    BY <2>1 DEF TypeInv, Slots, Requests
  <2>6. /\ tx.slot \in [Index -> 0 .. MaxRequests]
        /\ tx.head \in Index /\ tx.tail \in Index /\ tx.elementCount \in 0 .. SlotCount
        /\ tx.isFull \in BOOLEAN
    BY <2>1 DEF TypeInv, Rings, Requests
  <2>7. notified \in BOOLEAN /\ calls \in Nat /\ task \in {"main", "dma"}
        /\ client \in {"idle", "count", "full", "mark", "fill", "notify", "waiting", "refused"}
    BY <2>1 DEF TypeInv
  <2> QED BY <2>1, <2>2, <2>3, <2>4, <2>5, <2>6, <2>7 DEF TypeOK
<1> QED BY <1>1, Invariance, PTL

\* Time-outs, late notifications and refused polled transfers lose no receive
\* slot; each transfer that does not start loses one for good.
THEOREM SlotsAreAccounted == Spec => []RxSlotsAccounted
<1>1. IInv => RxSlotsAccounted
  BY DEF IInv, RxInv
<1> QED BY <1>1, Invariance, PTL

\* Callbacks come in the order of the requests, through time-outs, leaked receive slots and
\* notifications that end the wrong wait, unless SpiTask takes from a ring that is being
\* filled.
THEOREM CallbackOrder == Spec => CallbacksInOrder
<1>1. Init => IInv /\ OrderInv
  BY InitInv, InitOrder
<1>2. IInv /\ OrderInv /\ [Next]_vars =>
        /\ IInv' /\ OrderInv'
        /\ [calls' # calls /\ ~raced' => lastCalled' > lastCalled]_vars
  BY StepInv, StepOrder
<1> QED BY <1>1, <1>2, PTL DEF Spec, CallbacksInOrder

\* Untroubled, a client gets the response to its own request: the transfer that SpiTask's
\* one counter announces is the client's, and so is the oldest receive slot.
THEOREM OwnAnswer == Spec => []RightAnswer
<1>1. Init => IInv /\ OrderInv /\ QuietInv
  BY InitInv, InitOrder, InitQuiet
<1>2. IInv /\ OrderInv /\ QuietInv /\ [Next]_vars => IInv' /\ OrderInv' /\ QuietInv'
  BY StepInv, StepOrder, QuietStep
<1>3. IInv /\ QuietInv => RightAnswer
  <2> SUFFICES ASSUME IInv, QuietInv, Untroubled, NEW r \in DOMAIN answers, answers[r].kind = "ok"
               PROVE  answers[r].data = r
    BY DEF RightAnswer, Untroubled
  <2>1. r \in 1 .. Len(answers)
    BY DEF IInv, AnswerInv
  <2> QED BY <2>1 DEF QuietInv, OwnAnswers
<1> QED BY <1>1, <1>2, <1>3, PTL DEF Spec
=============================================================================
