------------------------------- MODULE RxRing -------------------------------
(***************************************************************************)
(* The receive rings between the FDCAN interrupt and CanBridgeTask, one    *)
(* per channel (platform/drivers/buffers.h).  The interrupt preempts the   *)
(* task anywhere, so ring_buffer_put is one step and ring_buffer_pop is as *)
(* many as it has accesses to what they share: elementCount and isFull,    *)
(* which neither a lock nor a critical section protects.                   *)
(*                                                                         *)
(* A frame is the number of its acceptance by ring_buffer_put on its       *)
(* channel.                                                                *)
(***************************************************************************)
EXTENDS Naturals, Sequences

CONSTANTS
  NumChannels,  \* 2: Fdcan1Driver and Fdcan2Driver
  Length,       \* bufferLength
  MaxFrames     \* bound: frames the interrupt offers per channel

ASSUME RingAssumption == NumChannels \in Nat \ {0} /\ Length \in Nat \ {0}

Channels == 1..NumChannels

VARIABLES
  slots, head, tail, elementCount, isFull,  \* the RingBuffer of each channel
  notified,   \* the notification DEFERRED_IRQHandler gives CanBridgeTask
  pc,         \* where CanBridgeTask is: waiting, or the step of its pop
  ch,         \* the channel it drains
  reg,        \* elementCount as elementCount-- loaded it
  accepted,   \* history: frames ring_buffer_put stored
  refused,    \* history: frames ring_buffer_put returned RB_E_FULL for
  delivered,  \* history: what ring_buffer_pop copied out, in order
  raced       \* history: an interrupt fell where the pop does not bear it

ringVars == <<slots, head, tail, elementCount, isFull>>
vars == <<slots, head, tail, elementCount, isFull, notified, pc, ch, reg,
          accepted, refused, delivered, raced>>

TypeOK ==
  /\ slots \in [Channels -> [0..(Length - 1) -> Nat]]
  /\ head \in [Channels -> 0..(Length - 1)]
  /\ tail \in [Channels -> 0..(Length - 1)]
  /\ elementCount \in [Channels -> Nat]
  /\ isFull \in [Channels -> BOOLEAN]
  /\ notified \in BOOLEAN
  /\ pc \in {"wait", "check", "copy", "load", "store", "clear"}
  /\ ch \in Channels
  /\ reg \in Nat
  /\ accepted \in [Channels -> Nat]
  /\ refused \in [Channels -> Nat]
  /\ delivered \in [Channels -> Seq(Nat)]
  /\ raced \in [Channels -> BOOLEAN]

Init ==
  /\ slots = [c \in Channels |-> [i \in 0..(Length - 1) |-> 0]]
  /\ head = [c \in Channels |-> 0] /\ tail = [c \in Channels |-> 0]
  /\ elementCount = [c \in Channels |-> 0]
  /\ isFull = [c \in Channels |-> FALSE]
  /\ notified = FALSE
  /\ pc = "wait" /\ ch = 1 /\ reg = 0
  /\ accepted = [c \in Channels |-> 0]
  /\ refused = [c \in Channels |-> 0]
  /\ delivered = [c \in Channels |-> <<>>]
  /\ raced = [c \in Channels |-> FALSE]

-----------------------------------------------------------------------------
(* The interrupt.  It notifies the task whether or not the ring took the   *)
(* frame.                                                                  *)

Offered(c) == accepted[c] + refused[c]

\* the task has loaded elementCount and not yet stored it back, or has stored
\* it and will clear isFull whatever this put makes of it
LandsInPop(c) ==
  /\ ch = c
  /\ \/ pc = "store"
     \/ pc = "clear" /\ elementCount[c] + 1 = Length

\* (a slip: the ring holds one frame more before it counts as full)
PutFullTooLate(c) ==
  /\ Offered(c) < MaxFrames /\ ~isFull[c]
  /\ slots' = [slots EXCEPT ![c][head[c]] = accepted[c] + 1]
  /\ head' = [head EXCEPT ![c] = (@ + 1) % Length]
  /\ elementCount' = [elementCount EXCEPT ![c] = @ + 1]
  /\ isFull' = [isFull EXCEPT ![c] = (elementCount[c] + 1 = Length + 1)]
  /\ accepted' = [accepted EXCEPT ![c] = @ + 1]
  /\ raced' = [raced EXCEPT ![c] = @ \/ LandsInPop(c)]
  /\ notified' = TRUE
  /\ UNCHANGED <<tail, pc, ch, reg, refused, delivered>>

Put(c) ==
  /\ Offered(c) < MaxFrames /\ ~isFull[c]
  /\ slots' = [slots EXCEPT ![c][head[c]] = accepted[c] + 1]
  /\ head' = [head EXCEPT ![c] = (@ + 1) % Length]
  /\ elementCount' = [elementCount EXCEPT ![c] = @ + 1]
  /\ isFull' = [isFull EXCEPT ![c] = (elementCount[c] + 1 = Length)]
  /\ accepted' = [accepted EXCEPT ![c] = @ + 1]
  /\ raced' = [raced EXCEPT ![c] = @ \/ LandsInPop(c)]
  /\ notified' = TRUE
  /\ UNCHANGED <<tail, pc, ch, reg, refused, delivered>>

\* (a slip: a refused frame is counted as stored)
PutRefusedCounted(c) ==
  /\ Offered(c) < MaxFrames /\ isFull[c]
  /\ elementCount' = [elementCount EXCEPT ![c] = @ + 1]
  /\ refused' = [refused EXCEPT ![c] = @ + 1]
  /\ notified' = TRUE
  /\ UNCHANGED <<slots, head, tail, isFull, pc, ch, reg, accepted, delivered,
                 raced>>

PutRefused(c) ==
  /\ Offered(c) < MaxFrames /\ isFull[c]
  /\ refused' = [refused EXCEPT ![c] = @ + 1]
  /\ notified' = TRUE
  /\ UNCHANGED <<ringVars, pc, ch, reg, accepted, delivered, raced>>

Interrupt == \E c \in Channels : Put(c) \/ PutRefused(c)

-----------------------------------------------------------------------------
(* CanBridgeTask: it takes the notification and drains the channels in     *)
(* turn.                                                                   *)

Wake ==
  /\ pc = "wait" /\ notified
  /\ notified' = FALSE
  /\ pc' = "check" /\ ch' = 1
  /\ UNCHANGED <<ringVars, reg, accepted, refused, delivered, raced>>

\* ring_buffer_pop's test for an empty ring
Check ==
  /\ pc = "check" /\ elementCount[ch] # 0
  /\ pc' = "copy"
  /\ UNCHANGED <<ringVars, notified, ch, reg, accepted, refused, delivered,
                 raced>>

\* (a slip: the notification is taken back behind the drain, not before it)
RingEmptyTakingNotification ==
  /\ pc = "check" /\ elementCount[ch] = 0
  /\ IF ch < NumChannels
       THEN ch' = ch + 1 /\ pc' = "check" /\ UNCHANGED notified
       ELSE pc' = "wait" /\ ch' = 1 /\ notified' = FALSE
  /\ UNCHANGED <<ringVars, reg, accepted, refused, delivered, raced>>

RingEmpty ==
  /\ pc = "check" /\ elementCount[ch] = 0
  /\ IF ch < NumChannels
       THEN ch' = ch + 1 /\ pc' = "check"
       ELSE pc' = "wait" /\ ch' = 1
  /\ UNCHANGED <<ringVars, notified, reg, accepted, refused, delivered, raced>>

\* (a slip: the tail does not wrap)
CopyWithoutWrap ==
  /\ pc = "copy"
  /\ delivered' = [delivered EXCEPT ![ch] = Append(@, slots[ch][tail[ch]])]
  /\ tail' = [tail EXCEPT ![ch] = @ + 1]
  /\ pc' = "load"
  /\ UNCHANGED <<slots, head, elementCount, isFull, notified, ch, reg, accepted,
                 refused, raced>>

\* the memcpy out of the ring, and the step of the tail, which is the task's own
Copy ==
  /\ pc = "copy"
  /\ delivered' = [delivered EXCEPT ![ch] = Append(@, slots[ch][tail[ch]])]
  /\ tail' = [tail EXCEPT ![ch] = (@ + 1) % Length]
  /\ pc' = "load"
  /\ UNCHANGED <<slots, head, elementCount, isFull, notified, ch, reg, accepted,
                 refused, raced>>

\* elementCount--, its load and its store: the memcpy may have written to the
\* count for all the compiler knows, so it is not kept from the test
Load ==
  /\ pc = "load"
  /\ reg' = elementCount[ch]
  /\ pc' = "store"
  /\ UNCHANGED <<ringVars, notified, ch, accepted, refused, delivered, raced>>

Store ==
  /\ pc = "store"
  /\ elementCount' = [elementCount EXCEPT ![ch] = reg - 1]
  /\ pc' = "clear"
  /\ UNCHANGED <<slots, head, tail, isFull, notified, ch, reg, accepted,
                 refused, delivered, raced>>

\* (a slip: isFull is never cleared)
ClearForgotten ==
  /\ pc = "clear"
  /\ pc' = "check"
  /\ UNCHANGED <<ringVars, notified, ch, reg, accepted, refused, delivered,
                 raced>>

Clear ==
  /\ pc = "clear"
  /\ isFull' = [isFull EXCEPT ![ch] = FALSE]
  /\ pc' = "check"
  /\ UNCHANGED <<slots, head, tail, elementCount, notified, ch, reg, accepted,
                 refused, delivered, raced>>

Bridge == Wake \/ Check \/ RingEmpty \/ Copy \/ Load \/ Store \/ Clear

Next == Interrupt \/ Bridge

Spec == Init /\ [][Next]_vars

\* CanBridgeTask has the highest priority of the tasks: it runs whenever no
\* interrupt does
FairSpec == Spec /\ WF_vars(Bridge)

-----------------------------------------------------------------------------
Outstanding(c) == accepted[c] - Len(delivered[c])

\* the pop of channel c has copied its frame and not yet counted it out
MidPop(c) == ch = c /\ pc \in {"load", "store"}

\* elementCount never exceeds the frames the ring owes the task, so that
\* ring_buffer_pop never returns a slot it has already emptied, wherever the
\* interrupts fall.
NoGhostFrames ==
  \A c \in Channels :
    elementCount[c] <= Outstanding(c) + (IF MidPop(c) THEN 1 ELSE 0)

\* As long as no interrupt fell inside elementCount-- or made the ring full in
\* front of isFull = 0, elementCount and isFull are exact, and the task receives
\* every frame the interrupt stored, once and in order.
ExactUnlessRaced ==
  \A c \in Channels : ~raced[c] =>
    /\ elementCount[c] = Outstanding(c) + (IF MidPop(c) THEN 1 ELSE 0)
    /\ elementCount[c] <= Length
    /\ isFull[c] => elementCount[c] + (IF pc = "clear" /\ ch = c THEN 1 ELSE 0) = Length
    /\ elementCount[c] = Length => isFull[c]
    /\ delivered[c] = [i \in 1..Len(delivered[c]) |-> i]

\* A ring that refuses frames holds one, so that the task clears isFull again: the
\* races never leave it refusing for ever.
RefusalEnds ==
  \A c \in Channels :
    isFull[c] => elementCount[c] > 0 \/ (ch = c /\ pc \in {"load", "store", "clear"})

\* No wake-up is lost: the task drains what was stored before it sleeps, although
\* it clears the notification first and visits the channels in turn.
StoredIsDelivered ==
  \A c \in Channels, n \in 1..MaxFrames :
    (accepted[c] = n /\ ~raced[c]) ~> (Len(delivered[c]) >= n \/ raced[c])

\* doc/arc42-template-EN.md:717: "CanBridgeTask drains CanAbs and writes frames
\* into fdcan_msg_port, ensuring ISR -> task transfer is lossless": when the task
\* sleeps with no notification pending, it has received all that was stored.
TransferIsLossless ==
  pc = "wait" /\ ~notified => \A c \in Channels : Len(delivered[c]) = accepted[c]
=============================================================================
