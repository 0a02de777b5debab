---------------------------- MODULE RxRing_proofs ----------------------------
(***************************************************************************)
(* Proofs about RxRing: what the unprotected rings keep, wherever the      *)
(* interrupts fall, for every length of the ring and number of channels.   *)
(***************************************************************************)
EXTENDS RxRing, Integers, SequenceTheorems, TLAPS

-----------------------------------------------------------------------------
(* Places in the ring *)

\* What \div and % of ring_buffer_put and ring_buffer_pop return.
LEMMA Division ==
  ASSUME NEW n \in Nat
  PROVE  /\ n \div Length \in Int
         /\ n % Length \in 0..(Length - 1)
         /\ n = Length * (n \div Length) + (n % Length)
BY RingAssumption, SMTT(20)

\* Multiples of the length are a length apart.
LEMMA Multiples ==
  ASSUME NEW a \in Int, NEW b \in Int, a > b
  PROVE  Length * a >= Length * b + Length
<1>1. PICK k \in Nat : a = b + 1 + k
  <2>1. a - b - 1 \in Nat /\ a = b + 1 + (a - b - 1)
    BY SMT
  <2> QED BY <2>1
<1>2. Length * a = Length * b + Length + Length * k
  BY <1>1, RingAssumption, SMTT(20)
<1>3. Length * k >= 0
  BY RingAssumption, SMTT(20)
<1> QED BY <1>2, <1>3, RingAssumption, SMTT(20)

\* A number is determined by its quotient and its remainder.
LEMMA Unique ==
  ASSUME NEW q \in Int, NEW p \in Int, NEW r \in 0..(Length - 1), NEW s \in 0..(Length - 1),
         Length * q + r = Length * p + s
  PROVE  q = p /\ r = s
<1>1. Length \in Int /\ Length * q \in Int /\ Length * p \in Int
  BY RingAssumption
<1>2. ~(q > p)
  BY Multiples, <1>1, SMT
<1>3. ~(p > q)
  BY Multiples, <1>1, SMT
<1>4. q = p
  BY <1>2, <1>3, SMT
<1> QED BY <1>4, <1>1, SMT

\* (x + 1) % bufferLength steps through the slots in turn.
LEMMA Step ==
  ASSUME NEW n \in Nat
  PROVE  ((n % Length) + 1) % Length = (n + 1) % Length
<1> DEFINE q == n \div Length
           r == n % Length
<1>1. q \in Int /\ r \in 0..(Length - 1) /\ n = Length * q + r
  BY Division
<1>2. Length \in Nat /\ Length > 0 /\ Length * q \in Int
  BY <1>1, RingAssumption
<1>3. /\ (n + 1) \div Length \in Int /\ (n + 1) % Length \in 0..(Length - 1)
      /\ n + 1 = Length * ((n + 1) \div Length) + ((n + 1) % Length)
  BY Division
<1>4. (r + 1) % Length = IF r + 1 = Length THEN 0 ELSE r + 1
  BY <1>1, <1>2, SMTT(20)
<1> HIDE DEF q, r
<1>5. CASE r + 1 = Length
  <2>1. n + 1 = Length * (q + 1) + 0 /\ q + 1 \in Int /\ 0 \in 0..(Length - 1)
    BY <1>1, <1>2, <1>5, SMT
  <2>2. (n + 1) % Length = 0
    BY <2>1, <1>3, Unique
  <2> QED BY <2>2, <1>4, <1>5 DEF r
<1>6. CASE r + 1 # Length
  <2>1. n + 1 = Length * q + (r + 1) /\ r + 1 \in 0..(Length - 1)
    BY <1>1, <1>2, <1>6, SMT
  <2>2. (n + 1) % Length = r + 1
    BY <2>1, <1>1, <1>3, Unique
  <2> QED BY <2>2, <1>4, <1>6 DEF r
<1> QED BY <1>5, <1>6

\* Frames less than a length apart have different slots.
LEMMA Apart ==
  ASSUME NEW a \in Nat, NEW b \in Nat, a < b, b - a < Length
  PROVE  a % Length # b % Length
<1> SUFFICES ASSUME a % Length = b % Length PROVE FALSE
  OBVIOUS
<1> DEFINE q == a \div Length
           p == b \div Length
           r == a % Length
<1>1. q \in Int /\ r \in 0..(Length - 1) /\ a = Length * q + r
  BY Division
<1>2. p \in Int /\ b = Length * p + r
  BY Division
<1>3. Length \in Nat /\ Length * q \in Int /\ Length * p \in Int
  BY <1>1, <1>2, RingAssumption
<1> HIDE DEF q, p, r
<1>4. ~(p > q)
  BY Multiples, <1>1, <1>2, <1>3, SMT
<1>5. CASE p = q
  BY <1>5, <1>1, <1>2, <1>3, SMT
<1>6. CASE q > p
  <2>1. Length * q >= Length * p + Length
    BY <1>6, <1>1, <1>2, Multiples
  <2> QED BY <2>1, <1>1, <1>2, <1>3, SMT
<1> QED BY <1>4, <1>5, <1>6, <1>1, <1>2, SMT

-----------------------------------------------------------------------------
(* The invariant *)

\* Between the test for empty and the store, elementCount only grows.
PopInv ==
  /\ pc \in {"copy", "load"} => elementCount[ch] >= 1
  /\ pc = "store" =>
       /\ reg >= 1 /\ reg <= elementCount[ch]
       /\ ~raced[ch] => reg = elementCount[ch]

\* Head and tail follow from the numbers of frames stored and delivered.
PlaceInv ==
  \A c \in Channels : /\ head[c] = accepted[c] % Length
                      /\ tail[c] = Len(delivered[c]) % Length

\* The frames not delivered yet are in their slots.
SlotInv ==
  \A c \in Channels : ~raced[c] =>
    \A i \in 1..accepted[c] : i > Len(delivered[c]) => slots[c][(i - 1) % Length] = i

\* The parts of ExactUnlessRaced.
CountInv ==
  \A c \in Channels : ~raced[c] =>
    /\ elementCount[c] = Outstanding(c) + (IF MidPop(c) THEN 1 ELSE 0)
    /\ elementCount[c] <= Length
FullInv ==
  \A c \in Channels : ~raced[c] =>
    /\ isFull[c] => elementCount[c] + (IF pc = "clear" /\ ch = c THEN 1 ELSE 0) = Length
    /\ elementCount[c] = Length => isFull[c]
OrderInv ==
  \A c \in Channels : ~raced[c] => delivered[c] = [i \in 1..Len(delivered[c]) |-> i]

LEMMA ExactParts == ExactUnlessRaced <=> CountInv /\ FullInv /\ OrderInv
BY Zenon DEF ExactUnlessRaced, CountInv, FullInv, OrderInv

IInv ==
  /\ TypeOK /\ PopInv /\ PlaceInv /\ SlotInv
  /\ NoGhostFrames /\ CountInv /\ FullInv /\ OrderInv /\ RefusalEnds

LEMMA InitInv == Init => IInv
<1> SUFFICES ASSUME Init PROVE IInv
  OBVIOUS
<1>1. 1 \in Channels /\ 0 \in 0..(Length - 1) /\ 0 % Length = 0 /\ Length > 0
  BY RingAssumption, SMTT(20) DEF Channels
<1>2. Len(<<>>) = 0 /\ <<>> \in Seq(Nat) /\ <<>> = [i \in 1..0 |-> i]
  OBVIOUS
<1>3. TypeOK
  BY <1>1, <1>2 DEF Init, TypeOK
<1>4. PopInv /\ PlaceInv
  BY <1>1, <1>2 DEF Init, PopInv, PlaceInv
<1>5. SlotInv
  BY SMT DEF Init, SlotInv
<1>6. NoGhostFrames
  BY <1>2, SMT DEF Init, NoGhostFrames, Outstanding, MidPop
<1>7. CountInv
  BY <1>1, <1>2, RingAssumption, SMT DEF Init, CountInv, Outstanding, MidPop
<1>8. FullInv
  BY <1>1, RingAssumption, SMT DEF Init, FullInv
<1>9. OrderInv
  BY <1>2 DEF Init, OrderInv
<1>10. RefusalEnds
  BY DEF Init, RefusalEnds
<1> QED BY <1>3, <1>4, <1>5, <1>6, <1>7, <1>8, <1>9, <1>10 DEF IInv

\* The types that arithmetic needs.
LEMMA Types ==
  TypeOK => /\ \A c \in Channels :
                 /\ accepted[c] \in Nat /\ Len(delivered[c]) \in Nat /\ elementCount[c] \in Nat
                 /\ Outstanding(c) \in Int
                 /\ raced[c] \in BOOLEAN /\ isFull[c] \in BOOLEAN
            /\ ch \in Channels /\ reg \in Nat /\ Length \in Nat /\ Length > 0
<1> SUFFICES ASSUME TypeOK
             PROVE  /\ \A c \in Channels :
                         /\ accepted[c] \in Nat /\ Len(delivered[c]) \in Nat /\ elementCount[c] \in Nat
                         /\ Outstanding(c) \in Int
                         /\ raced[c] \in BOOLEAN /\ isFull[c] \in BOOLEAN
                    /\ ch \in Channels /\ reg \in Nat /\ Length \in Nat /\ Length > 0
  OBVIOUS
<1>1. \A c \in Channels : raced[c] \in BOOLEAN /\ isFull[c] \in BOOLEAN
  BY DEF TypeOK
<1>2. \A c \in Channels : accepted[c] \in Nat /\ elementCount[c] \in Nat /\ delivered[c] \in Seq(Nat)
  BY DEF TypeOK
<1>3. \A c \in Channels : Len(delivered[c]) \in Nat
  BY <1>2, LenProperties
<1>4. \A c \in Channels : Outstanding(c) \in Int
  BY <1>2, <1>3, SMT DEF Outstanding
<1>5. Length \in Nat /\ Length > 0
  BY RingAssumption, SMT
<1> QED BY <1>1, <1>2, <1>3, <1>4, <1>5 DEF TypeOK

\* The interrupt stores a frame.
LEMMA PutInv == ASSUME IInv, NEW d \in Channels, Put(d) PROVE IInv'
<1>1. /\ UNCHANGED <<tail, pc, ch, reg, refused, delivered>>
      /\ \A c \in Channels : c # d =>
           /\ slots'[c] = slots[c] /\ head'[c] = head[c] /\ elementCount'[c] = elementCount[c]
           /\ isFull'[c] = isFull[c] /\ accepted'[c] = accepted[c] /\ raced'[c] = raced[c]
  BY DEF Put, IInv, TypeOK
<1>2. /\ ~isFull[d]
      /\ slots'[d] = [slots[d] EXCEPT ![head[d]] = accepted[d] + 1]
      /\ head'[d] = (head[d] + 1) % Length
      /\ elementCount'[d] = elementCount[d] + 1
      /\ isFull'[d] = (elementCount[d] + 1 = Length)
      /\ accepted'[d] = accepted[d] + 1
      /\ raced'[d] = (raced[d] \/ LandsInPop(d))
  BY DEF Put, IInv, TypeOK
<1>3. TypeOK /\ TypeOK'
  <2>1. TypeOK
    BY DEF IInv
  <2>2. /\ (head[d] + 1) % Length \in 0..(Length - 1)
        /\ accepted[d] + 1 \in Nat /\ elementCount[d] + 1 \in Nat
    <3>1. head[d] \in Nat /\ accepted[d] \in Nat /\ elementCount[d] \in Nat
      BY <2>1, RingAssumption DEF TypeOK
    <3>2. head[d] + 1 \in Nat
      BY <3>1
    <3> QED BY <3>1, <3>2, Division
  <2>3. (elementCount[d] + 1 = Length) \in BOOLEAN /\ (raced[d] \/ LandsInPop(d)) \in BOOLEAN
    OBVIOUS
  <2> QED BY <2>1, <2>2, <2>3, Zenon DEF TypeOK, Put
<1>4. \A c \in Channels : /\ MidPop(c)' <=> MidPop(c)
                          /\ Outstanding(c)' = Outstanding(c) + (IF c = d THEN 1 ELSE 0)
  <2>1. \A c \in Channels : MidPop(c)' <=> MidPop(c)
    BY <1>1 DEF MidPop
  <2>2. \A c \in Channels : accepted'[c] = accepted[c] + (IF c = d THEN 1 ELSE 0)
    <3>1. \A c \in Channels : accepted[c] \in Nat
      BY <1>3 DEF TypeOK
    <3> QED BY <1>1, <1>2, <3>1
  <2>3. \A c \in Channels : accepted[c] \in Nat /\ Len(delivered[c]) \in Nat
    BY <1>3, Types
  <2> QED BY <1>1, <2>1, <2>2, <2>3 DEF Outstanding
<1>5. raced'[d] = FALSE => ~raced[d] /\ ~LandsInPop(d)
  BY <1>2
<1>6. PopInv'
  <2>1. pc' \in {"copy", "load"} => elementCount'[ch'] >= 1
    BY <1>1, <1>2, <1>3, Types, SMT DEF IInv, PopInv
  <2>2. pc' = "store" => reg' >= 1 /\ reg' <= elementCount'[ch']
    BY <1>1, <1>2, <1>3, Types, SMT DEF IInv, PopInv
  <2>3. pc' = "store" /\ ~raced'[ch'] => ch # d
    BY <1>1, <1>2 DEF LandsInPop
  <2>4. pc' = "store" /\ ~raced'[ch'] => reg' = elementCount'[ch']
    BY <1>1, <2>3, <1>3, Types DEF IInv, PopInv
  <2> QED BY <2>1, <2>2, <2>4 DEF PopInv
<1>7. PlaceInv'
  <2> SUFFICES ASSUME NEW c \in Channels
               PROVE  head'[c] = accepted'[c] % Length /\ tail'[c] = Len(delivered'[c]) % Length
    BY DEF PlaceInv
  <2>1. head[c] = accepted[c] % Length /\ tail[c] = Len(delivered[c]) % Length /\ accepted[c] \in Nat
    BY <1>3, Types DEF IInv, PlaceInv
  <2>2. CASE c = d
    BY <2>1, <2>2, <1>1, <1>2, Step
  <2>3. CASE c # d
    BY <2>1, <2>3, <1>1
  <2> QED BY <2>2, <2>3
<1>8. NoGhostFrames'
  BY <1>1, <1>2, <1>3, <1>4, Types, SMT DEF IInv, NoGhostFrames
<1>9. ~raced[d] => /\ elementCount[d] = Outstanding(d) + (IF MidPop(d) THEN 1 ELSE 0)
                   /\ elementCount[d] < Length
  <2>1. ~raced[d] => elementCount[d] # Length
    BY <1>2, <1>3, Types DEF IInv, FullInv
  <2> QED BY <2>1, <1>3, Types, SMT DEF IInv, CountInv
<1>10. CountInv'
  <2> SUFFICES ASSUME NEW c \in Channels, ~raced'[c]
               PROVE  /\ elementCount'[c] = Outstanding(c)' + (IF MidPop(c)' THEN 1 ELSE 0)
                      /\ elementCount'[c] <= Length
    BY DEF CountInv
  <2>1. CASE c = d
    <3>1. ~raced[d]
      BY <2>1, <1>2
    <3> QED BY <3>1, <2>1, <1>2, <1>3, <1>4, <1>9, Types, SMT
  <2>2. CASE c # d
    <3>1. ~raced[c]
      BY <2>2, <1>1
    <3>2. elementCount'[c] = elementCount[c] /\ Outstanding(c)' = Outstanding(c)
      BY <2>2, <1>1, <1>3, <1>4, Types, SMT
    <3> QED BY <3>1, <3>2, <1>4 DEF IInv, CountInv
  <2> QED BY <2>1, <2>2
<1>11. FullInv'
  <2> SUFFICES ASSUME NEW c \in Channels, ~raced'[c]
               PROVE  /\ isFull'[c] => elementCount'[c] + (IF pc = "clear" /\ ch = c THEN 1 ELSE 0) = Length
                      /\ elementCount'[c] = Length => isFull'[c]
    BY <1>1 DEF FullInv
  <2>1. CASE c = d
    <3>1. isFull'[c] <=> elementCount'[c] = Length
      BY <2>1, <1>2
    <3>2. ~LandsInPop(c)
      BY <2>1, <1>2
    <3>3. elementCount'[c] = Length => ~(pc = "clear" /\ ch = c)
      BY <3>2, <2>1, <1>2 DEF LandsInPop
    <3>4. elementCount'[c] = Length /\ ~(pc = "clear" /\ ch = c)
            => elementCount'[c] + (IF pc = "clear" /\ ch = c THEN 1 ELSE 0) = Length
      BY <1>3, Types, SMT
    <3> QED BY <3>1, <3>3, <3>4
  <2>2. CASE c # d
    BY <2>2, <1>1 DEF IInv, FullInv
  <2> QED BY <2>1, <2>2
<1>12. OrderInv' /\ RefusalEnds'
  <2>1. OrderInv'
    BY <1>1, <1>2 DEF IInv, OrderInv
  <2>2. elementCount'[d] > 0
    BY <1>2, <1>3, Types, SMT
  <2> QED BY <2>1, <2>2, <1>1 DEF IInv, RefusalEnds
<1>13. SlotInv'
  <2> SUFFICES ASSUME NEW c \in Channels, ~raced'[c],
                      NEW i \in 1..accepted'[c], i > Len(delivered[c])
               PROVE  slots'[c][(i - 1) % Length] = i
    BY <1>1 DEF SlotInv
  <2>1. CASE c # d
    BY <2>1, <1>1 DEF IInv, SlotInv
  <2>2. CASE c = d /\ i = accepted[d] + 1
    <3>1. head[d] = accepted[d] % Length /\ i - 1 = accepted[d] /\ head[d] \in 0..(Length - 1)
      <4>1. head[d] = accepted[d] % Length
        BY DEF IInv, PlaceInv
      <4>2. head[d] \in 0..(Length - 1)
        BY <1>3 DEF TypeOK
      <4> QED BY <4>1, <4>2, <2>2, <1>3, Types
    <3>2. slots[d] \in [0..(Length - 1) -> Nat]
      BY <1>3 DEF TypeOK
    <3> QED BY <2>2, <3>1, <3>2, <1>2
  <2>3. CASE c = d /\ i # accepted[d] + 1
    <3>1. i \in 1..accepted[d] /\ i - 1 \in Nat /\ i - 1 < accepted[d] /\ ~raced[d]
          /\ accepted[d] - (i - 1) <= Outstanding(d)
      <4>1. ~raced[d]
        BY <2>3, <1>2
      <4> QED BY <4>1, <2>3, <1>2, <1>3, Types, SMT DEF Outstanding
    <3>2. accepted[d] - (i - 1) < Length
      BY <3>1, <1>3, <1>9, Types, SMT
    <3>3. (i - 1) % Length # head[d]
      BY <3>1, <3>2, <1>3, Types, Apart DEF IInv, PlaceInv
    <3>4. slots[d][(i - 1) % Length] = i
      BY <3>1, <2>3 DEF IInv, SlotInv
    <3>5. (i - 1) % Length \in 0..(Length - 1) /\ slots[d] \in [0..(Length - 1) -> Nat]
      BY <3>1, <1>3, Division DEF TypeOK
    <3> QED BY <2>3, <3>3, <3>4, <3>5, <1>2
  <2> QED BY <2>1, <2>2, <2>3
<1> QED BY <1>3, <1>6, <1>7, <1>8, <1>10, <1>11, <1>12, <1>13 DEF IInv

\* A step that touches no ring preserves what is said of the rings.
LEMMA RingsAlone ==
  ASSUME IInv, UNCHANGED <<slots, head, tail, elementCount, isFull, accepted, delivered, raced>>,
         \A c \in Channels : MidPop(c)' <=> MidPop(c),
         \A c \in Channels : (pc' = "clear" /\ ch' = c) <=> (pc = "clear" /\ ch = c),
         TypeOK', PopInv', RefusalEnds'
  PROVE  IInv'
<1>1. \A c \in Channels : Outstanding(c)' = Outstanding(c)
  BY DEF Outstanding
<1>2. PlaceInv' /\ SlotInv' /\ OrderInv'
  BY DEF IInv, PlaceInv, SlotInv, OrderInv
<1>3. NoGhostFrames' /\ CountInv'
  BY <1>1 DEF IInv, NoGhostFrames, CountInv
<1>4. FullInv'
  BY DEF IInv, FullInv
<1> QED BY <1>2, <1>3, <1>4 DEF IInv

LEMMA SmallSteps ==
  ASSUME IInv, \/ \E c \in Channels : PutRefused(c)
               \/ Wake \/ Check \/ RingEmpty \/ Load \/ UNCHANGED vars
  PROVE  IInv'
<1>1. TypeOK
  BY DEF IInv
<1>2. UNCHANGED <<slots, head, tail, elementCount, isFull, accepted, delivered, raced>>
  BY DEF PutRefused, Wake, Check, RingEmpty, Load, vars, ringVars
<1>3. CASE \E c \in Channels : PutRefused(c)
  <2>1. PICK c \in Channels : PutRefused(c)
    BY <1>3
  <2>2. UNCHANGED <<pc, ch, reg>> /\ notified' = TRUE /\ refused' = [refused EXCEPT ![c] = @ + 1]
    BY <2>1 DEF PutRefused
  <2>3. refused[c] \in Nat /\ refused[c] + 1 \in Nat
    <3>1. refused[c] \in Nat
      BY <1>1 DEF TypeOK
    <3> QED BY <3>1
  <2>4. TypeOK'
    BY <1>1, <1>2, <2>2, <2>3 DEF TypeOK
  <2> QED BY <1>2, <2>2, <2>4, RingsAlone DEF MidPop, IInv, PopInv, RefusalEnds
<1>4. CASE Wake
  <2>1. pc = "wait" /\ pc' = "check" /\ ch' = 1 /\ UNCHANGED <<reg, refused>> /\ notified' = FALSE
    BY <1>4 DEF Wake
  <2>2. 1 \in Channels
    BY RingAssumption, SMT DEF Channels
  <2>3. TypeOK'
    BY <1>1, <1>2, <2>1, <2>2 DEF TypeOK
  <2> QED BY <1>2, <2>1, <2>3, RingsAlone DEF MidPop, IInv, PopInv, RefusalEnds
<1>5. CASE Check
  <2>1. /\ pc = "check" /\ pc' = "copy" /\ UNCHANGED <<ch, reg, refused, notified>>
        /\ elementCount[ch] # 0
    BY <1>5 DEF Check
  <2>2. elementCount'[ch'] >= 1
    BY <2>1, <1>1, <1>2, Types, SMT
  <2>3. TypeOK'
    BY <1>1, <1>2, <2>1 DEF TypeOK
  <2> QED BY <1>2, <2>1, <2>2, <2>3, RingsAlone DEF MidPop, IInv, PopInv, RefusalEnds
<1>6. CASE RingEmpty
  <2>1. pc = "check" /\ pc' \in {"check", "wait"} /\ UNCHANGED <<reg, refused, notified>>
    BY <1>6 DEF RingEmpty
  <2>2. ch' \in Channels
    <3>1. ch' = 1 \/ (ch < NumChannels /\ ch' = ch + 1)
      BY <1>6 DEF RingEmpty
    <3>2. ch \in 1..NumChannels
      BY <1>1 DEF TypeOK, Channels
    <3> QED BY <3>1, <3>2, RingAssumption, SMT DEF Channels
  <2>3. TypeOK'
    BY <1>1, <1>2, <2>1, <2>2 DEF TypeOK
  <2> QED BY <1>2, <2>1, <2>3, RingsAlone DEF MidPop, IInv, PopInv, RefusalEnds
<1>7. CASE Load
  <2>1. pc = "load" /\ pc' = "store" /\ reg' = elementCount[ch] /\ UNCHANGED <<ch, refused, notified>>
    BY <1>7 DEF Load
  <2>2. reg' \in Nat /\ reg' >= 1 /\ reg' <= elementCount'[ch']
    BY <1>1, <1>2, <2>1, Types, SMT DEF IInv, PopInv
  <2>3. TypeOK'
    BY <1>1, <1>2, <2>1, <2>2 DEF TypeOK
  <2>4. PopInv'
    BY <1>2, <2>1, <2>2 DEF PopInv
  <2> QED BY <1>2, <2>1, <2>3, <2>4, RingsAlone DEF MidPop, IInv, RefusalEnds
<1>8. CASE UNCHANGED vars
  <2>1. UNCHANGED <<pc, ch, reg, notified, refused>>
    BY <1>8 DEF vars
  <2>2. TypeOK'
    BY <1>1, <1>2, <2>1 DEF TypeOK
  <2> QED BY <1>2, <2>1, <2>2, RingsAlone DEF MidPop, IInv, PopInv, RefusalEnds
<1> QED BY <1>3, <1>4, <1>5, <1>6, <1>7, <1>8

\* The task copies a frame out.
LEMMA CopyInv == ASSUME IInv, Copy PROVE IInv'
<1>1. /\ UNCHANGED <<slots, head, elementCount, isFull, ch, reg, accepted, refused, raced, notified>>
      /\ pc = "copy" /\ pc' = "load"
  BY DEF Copy
<1>2. TypeOK /\ ch \in Channels
  BY Types DEF IInv
<1>3. /\ tail'[ch] = (tail[ch] + 1) % Length
      /\ delivered'[ch] = Append(delivered[ch], slots[ch][tail[ch]])
      /\ \A c \in Channels : c # ch => tail'[c] = tail[c] /\ delivered'[c] = delivered[c]
  BY <1>2 DEF Copy, TypeOK
<1>4. delivered[ch] \in Seq(Nat) /\ slots[ch][tail[ch]] \in Nat
  BY <1>2 DEF TypeOK
<1>5. /\ delivered'[ch] \in Seq(Nat) /\ Len(delivered'[ch]) = Len(delivered[ch]) + 1
      /\ \A i \in 1..Len(delivered[ch]) : delivered'[ch][i] = delivered[ch][i]
      /\ delivered'[ch][Len(delivered[ch]) + 1] = slots[ch][tail[ch]]
  BY <1>3, <1>4, AppendProperties
<1>6. TypeOK'
  <2>1. tail[ch] \in Nat
    BY <1>2, RingAssumption DEF TypeOK
  <2>2. (tail[ch] + 1) % Length \in 0..(Length - 1)
    BY <2>1, Division
  <2>3. delivered' \in [Channels -> Seq(Nat)]
    BY <1>2, <1>4, <1>5 DEF Copy, TypeOK
  <2>4. tail' \in [Channels -> 0..(Length - 1)]
    BY <1>2, <2>2 DEF Copy, TypeOK
  <2> QED BY <1>1, <1>2, <2>3, <2>4 DEF TypeOK
<1>7. PopInv'
  BY <1>1 DEF IInv, PopInv
<1>8. PlaceInv'
  <2>1. /\ tail[ch] = Len(delivered[ch]) % Length
        /\ \A c \in Channels : head[c] = accepted[c] % Length /\ tail[c] = Len(delivered[c]) % Length
    BY <1>2 DEF IInv, PlaceInv
  <2>2. tail'[ch] = Len(delivered'[ch]) % Length
    BY <1>2, <1>3, <1>5, <2>1, Types, Step
  <2> QED BY <1>1, <1>3, <2>1, <2>2 DEF PlaceInv
<1>9. \A c \in Channels :
        /\ c # ch => (MidPop(c)' <=> MidPop(c)) /\ Outstanding(c)' = Outstanding(c)
        /\ c = ch => ~MidPop(c) /\ MidPop(c)' /\ Outstanding(c)' = Outstanding(c) - 1
  <2>1. \A c \in Channels : c # ch => Outstanding(c)' = Outstanding(c)
    BY <1>1, <1>3 DEF Outstanding
  <2>2. Outstanding(ch)' = accepted[ch] - (Len(delivered[ch]) + 1)
    BY <1>1, <1>5 DEF Outstanding
  <2>3. Outstanding(ch)' = Outstanding(ch) - 1
    BY <2>2, <1>2, Types, SMT DEF Outstanding
  <2> QED BY <1>1, <2>1, <2>3 DEF MidPop
<1>10. NoGhostFrames'
  <2> SUFFICES ASSUME NEW c \in Channels
               PROVE  elementCount[c] <= Outstanding(c)' + (IF MidPop(c)' THEN 1 ELSE 0)
    BY <1>1 DEF NoGhostFrames
  <2> QED BY <1>2, <1>9, Types, SMT DEF IInv, NoGhostFrames
<1>11. CountInv'
  <2> SUFFICES ASSUME NEW c \in Channels, ~raced[c]
               PROVE  /\ elementCount[c] = Outstanding(c)' + (IF MidPop(c)' THEN 1 ELSE 0)
                      /\ elementCount[c] <= Length
    BY <1>1 DEF CountInv
  <2>1. elementCount[c] = Outstanding(c) + (IF MidPop(c) THEN 1 ELSE 0) /\ elementCount[c] <= Length
    BY DEF IInv, CountInv
  <2> QED BY <2>1, <1>2, <1>9, Types, SMT
<1>12. FullInv' /\ RefusalEnds'
  BY <1>1 DEF IInv, FullInv, RefusalEnds
\* An exact count means that the frame behind the last one is in the ring.
<1>13. ~raced[ch] => slots[ch][tail[ch]] = Len(delivered[ch]) + 1
  <2> SUFFICES ASSUME ~raced[ch] PROVE slots[ch][tail[ch]] = Len(delivered[ch]) + 1
    OBVIOUS
  <2>1. Outstanding(ch) >= 1
    <3>1. ~MidPop(ch) /\ elementCount[ch] >= 1
      BY <1>1 DEF MidPop, IInv, PopInv
    <3>2. elementCount[ch] = Outstanding(ch) + (IF MidPop(ch) THEN 1 ELSE 0)
      BY <1>2 DEF IInv, CountInv
    <3> QED BY <3>1, <3>2, <1>2, Types, SMT
  <2> DEFINE i == Len(delivered[ch]) + 1
  <2>2. i \in 1..accepted[ch] /\ i > Len(delivered[ch]) /\ i - 1 = Len(delivered[ch])
    BY <2>1, <1>2, Types, SMT DEF Outstanding
  <2>3. slots[ch][(i - 1) % Length] = i
    BY <2>2, <1>2 DEF IInv, SlotInv
  <2> QED BY <2>2, <2>3, <1>2 DEF IInv, PlaceInv
<1>14. OrderInv'
  <2> SUFFICES ASSUME NEW c \in Channels, ~raced[c]
               PROVE  delivered'[c] = [i \in 1..Len(delivered'[c]) |-> i]
    BY <1>1 DEF OrderInv
  <2>1. delivered[c] = [i \in 1..Len(delivered[c]) |-> i]
    BY DEF IInv, OrderInv
  <2>2. CASE c # ch
    BY <2>1, <2>2, <1>3
  <2>3. CASE c = ch
    <3>1. \A i \in 1..Len(delivered'[ch]) : delivered'[ch][i] = i
      <4> SUFFICES ASSUME NEW i \in 1..Len(delivered'[ch]) PROVE delivered'[ch][i] = i
        OBVIOUS
      <4>1. i \in 1..Len(delivered[ch]) \/ i = Len(delivered[ch]) + 1
        BY <1>2, <1>5, Types, SMT
      <4>2. CASE i \in 1..Len(delivered[ch])
        BY <4>2, <2>1, <2>3, <1>5
      <4>3. CASE i = Len(delivered[ch]) + 1
        BY <4>3, <2>3, <1>5, <1>13
      <4> QED BY <4>1, <4>2, <4>3
    <3>2. delivered'[ch] = [i \in 1..Len(delivered'[ch]) |-> delivered'[ch][i]]
      BY <1>5, LenProperties
    <3> QED BY <3>1, <3>2, <2>3
  <2> QED BY <2>2, <2>3
<1>15. SlotInv'
  <2> SUFFICES ASSUME NEW c \in Channels, ~raced[c], NEW i \in 1..accepted[c],
                      i > Len(delivered'[c])
               PROVE  slots[c][(i - 1) % Length] = i
    BY <1>1 DEF SlotInv
  <2>1. CASE c # ch
    BY <2>1, <1>3 DEF IInv, SlotInv
  <2>2. CASE c = ch
    <3>1. i > Len(delivered[c]) + 1
      BY <2>2, <1>5
    <3>2. accepted[c] \in Nat /\ Len(delivered[c]) \in Nat
      BY <1>2, Types
    <3>3. i > Len(delivered[c])
      BY <3>1, <3>2, SMT
    <3> QED BY <3>3 DEF IInv, SlotInv
  <2> QED BY <2>1, <2>2
<1> QED BY <1>6, <1>7, <1>8, <1>10, <1>11, <1>12, <1>14, <1>15 DEF IInv

\* The task stores the count, less the frame it copied.
LEMMA StoreInv == ASSUME IInv, Store PROVE IInv'
<1>1. /\ UNCHANGED <<slots, head, tail, isFull, ch, reg, accepted, delivered, refused, raced, notified>>
      /\ pc = "store" /\ pc' = "clear"
  BY DEF Store
<1>2. TypeOK /\ ch \in Channels
  BY Types DEF IInv
<1>3. /\ elementCount'[ch] = reg - 1
      /\ \A c \in Channels : c # ch => elementCount'[c] = elementCount[c]
  BY <1>2 DEF Store, TypeOK
<1>4. reg >= 1 /\ reg <= elementCount[ch] /\ (~raced[ch] => reg = elementCount[ch])
  BY <1>1 DEF IInv, PopInv
<1>5. TypeOK'
  <2>1. reg - 1 \in Nat
    BY <1>2, <1>4, Types, SMT
  <2>2. elementCount' \in [Channels -> Nat]
    BY <2>1, <1>2 DEF Store, TypeOK
  <2> QED BY <1>1, <1>2, <2>2 DEF TypeOK
<1>6. PopInv' /\ PlaceInv' /\ SlotInv' /\ OrderInv'
  BY <1>1 DEF IInv, PopInv, PlaceInv, SlotInv, OrderInv
<1>7. \A c \in Channels :
        /\ Outstanding(c)' = Outstanding(c)
        /\ ~MidPop(c)' /\ (MidPop(c) <=> c = ch)
  BY <1>1 DEF MidPop, Outstanding
<1>8. NoGhostFrames'
  <2> SUFFICES ASSUME NEW c \in Channels
               PROVE  elementCount'[c] <= Outstanding(c) + (IF MidPop(c)' THEN 1 ELSE 0)
    BY <1>7 DEF NoGhostFrames
  <2>1. elementCount[c] <= Outstanding(c) + (IF MidPop(c) THEN 1 ELSE 0)
    BY DEF IInv, NoGhostFrames
  <2> QED BY <2>1, <1>2, <1>3, <1>4, <1>7, Types, SMT
<1>9. CountInv'
  <2> SUFFICES ASSUME NEW c \in Channels, ~raced[c]
               PROVE  /\ elementCount'[c] = Outstanding(c) + (IF MidPop(c)' THEN 1 ELSE 0)
                      /\ elementCount'[c] <= Length
    BY <1>1, <1>7 DEF CountInv
  <2>1. elementCount[c] = Outstanding(c) + (IF MidPop(c) THEN 1 ELSE 0) /\ elementCount[c] <= Length
    BY DEF IInv, CountInv
  <2>2. c = ch => elementCount'[c] = elementCount[c] - 1
    BY <1>3, <1>4
  <2> QED BY <2>1, <2>2, <1>2, <1>3, <1>7, Types, SMT
<1>10. FullInv'
  <2> SUFFICES ASSUME NEW c \in Channels, ~raced[c]
               PROVE  /\ isFull[c] => elementCount'[c] + (IF ch = c THEN 1 ELSE 0) = Length
                      /\ elementCount'[c] = Length => isFull[c]
    BY <1>1 DEF FullInv
  <2>1. /\ isFull[c] => elementCount[c] = Length
        /\ elementCount[c] = Length => isFull[c]
        /\ elementCount[c] <= Length
    <3>1. isFull[c] => elementCount[c] + (IF pc = "clear" /\ ch = c THEN 1 ELSE 0) = Length
      BY DEF IInv, FullInv
    <3>2. elementCount[c] + 0 = elementCount[c]
      BY <1>2, Types, SMT
    <3> QED BY <3>1, <3>2, <1>1 DEF IInv, FullInv, CountInv
  <2>2. CASE c = ch
    <3>1. elementCount'[c] = elementCount[c] - 1
      BY <2>2, <1>3, <1>4
    <3>2. elementCount'[c] # Length
      BY <3>1, <2>1, <1>2, Types, SMT
    <3>3. elementCount'[c] + (IF ch = c THEN 1 ELSE 0) = elementCount[c]
      BY <3>1, <2>2, <1>2, Types, SMT
    <3> QED BY <3>2, <3>3, <2>1
  <2>3. CASE c # ch
    <3>1. elementCount'[c] + (IF ch = c THEN 1 ELSE 0) = elementCount[c]
      BY <2>3, <1>2, <1>3, Types, SMT
    <3> QED BY <3>1, <2>1, <2>3, <1>3
  <2> QED BY <2>2, <2>3
<1>11. RefusalEnds'
  BY <1>1, <1>3 DEF IInv, RefusalEnds
<1> QED BY <1>5, <1>6, <1>8, <1>9, <1>10, <1>11 DEF IInv

\* The task takes the mark of a full ring away.
LEMMA ClearInv == ASSUME IInv, Clear PROVE IInv'
<1>1. /\ UNCHANGED <<slots, head, tail, elementCount, ch, reg, accepted, delivered, refused, raced, notified>>
      /\ pc = "clear" /\ pc' = "check"
  BY DEF Clear
<1>2. TypeOK /\ ch \in Channels
  BY Types DEF IInv
<1>3. isFull'[ch] = FALSE /\ \A c \in Channels : c # ch => isFull'[c] = isFull[c]
  BY <1>2 DEF Clear, TypeOK
<1>4. TypeOK'
  BY <1>1, <1>2 DEF Clear, TypeOK
<1>5. PopInv' /\ PlaceInv' /\ SlotInv' /\ OrderInv'
  BY <1>1 DEF IInv, PopInv, PlaceInv, SlotInv, OrderInv
<1>6. NoGhostFrames' /\ CountInv'
  BY <1>1 DEF IInv, NoGhostFrames, CountInv, MidPop, Outstanding
<1>7. FullInv'
  <2> SUFFICES ASSUME NEW c \in Channels, ~raced[c]
               PROVE  /\ isFull'[c] => elementCount[c] + (IF pc' = "clear" /\ ch = c THEN 1 ELSE 0) = Length
                      /\ elementCount[c] = Length => isFull'[c]
    BY <1>1 DEF FullInv
  <2>1. /\ isFull[c] => elementCount[c] + (IF pc = "clear" /\ ch = c THEN 1 ELSE 0) = Length
        /\ elementCount[c] = Length => isFull[c]
    BY DEF IInv, FullInv
  <2>2. CASE c = ch
    <3>1. elementCount[c] + 1 = Length => elementCount[c] # Length
      BY <1>2, Types, SMT
    <3>2. elementCount[c] # Length
      BY <3>1, <2>1, <2>2, <1>1
    <3> QED BY <3>2, <2>2, <1>3
  <2>3. CASE c # ch
    BY <2>1, <2>3, <1>1, <1>3
  <2> QED BY <2>2, <2>3
<1>8. RefusalEnds'
  BY <1>1, <1>3 DEF IInv, RefusalEnds
<1> QED BY <1>4, <1>5, <1>6, <1>7, <1>8 DEF IInv

\* The invariant holds in every reachable state.
LEMMA Invariant == Spec => []IInv
<1>1. IInv /\ [Next]_vars => IInv'
  <2> SUFFICES ASSUME IInv, [Next]_vars PROVE IInv'
    OBVIOUS
  <2>1. CASE \E c \in Channels : Put(c)
    BY <2>1, PutInv
  <2>2. CASE (\E c \in Channels : PutRefused(c)) \/ Wake \/ Check \/ RingEmpty \/ Load \/ UNCHANGED vars
    BY <2>2, SmallSteps
  <2> QED BY <2>1, <2>2, CopyInv, StoreInv, ClearInv DEF Next, Interrupt, Bridge
<1> QED BY <1>1, InitInv, PTL DEF Spec

-----------------------------------------------------------------------------
(* The theorems *)

\* Types: head and tail stay in the ring, the count never goes below zero.
THEOREM TypeCorrect == Spec => []TypeOK
BY Invariant, PTL DEF IInv

\* The count never exceeds the frames the ring owes, wherever interrupts fall.
THEOREM NoGhosts == Spec => []NoGhostFrames
BY Invariant, PTL DEF IInv

\* Outside the two racing places the ring is exact and delivers in order.
THEOREM ExactWithoutRaces == Spec => []ExactUnlessRaced
BY Invariant, ExactParts, PTL DEF IInv

\* A ring that refuses frames has one for the task, races or not.
THEOREM NoEternalRefusal == Spec => []RefusalEnds
BY Invariant, PTL DEF IInv
=============================================================================
