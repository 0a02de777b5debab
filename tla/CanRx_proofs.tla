----------------------------- MODULE CanRx_proofs -----------------------------
(***************************************************************************)
(* Proofs about the receive path, for FIFOs, rings, pages and buffers of   *)
(* any size, any number of channels, frames, starts, stops and failures:   *)
(* types; the frames of a channel are logged in the order in which they    *)
(* came; the poll that commits a recording is behind its last frame; the   *)
(* frame counters stay in step; a frame that is lost is reported.  All     *)
(* rests on RxAssumption.                                                  *)
(***************************************************************************)
EXTENDS CanRx, SequenceTheorems, TLAPS

\* x does not come behind y: frames of one channel, those read from nowhere left out.
Before(x, y) == x.ch = y.ch /\ x.n > 0 /\ y.n > 0 => x.n < y.n

Sorted(s) == \A i, j \in DOMAIN s : i < j => Before(s[i], s[j])

AllBefore(A, B) == \A x \in A, y \in B : Before(x, y)

\* The controllers, the rings and what RuntimeChecks keeps.
HwInv ==
  /\ fifo \in [Channels -> Seq(Nat)]
  /\ \A c \in Channels : Len(fifo[c]) <= FifoDepth
  /\ watermarked \in [Channels -> BOOLEAN] /\ overflowed \in [Channels -> BOOLEAN]
  /\ receiving \in [Channels -> BOOLEAN] /\ irqOn \in [Channels -> BOOLEAN]
  /\ driverState \in [Channels -> {"initialized", "started", "stopped"}]
  /\ arrived \in [Channels -> Nat]

PollInv ==
  /\ prevSeq \in [Channels -> Nat] /\ gap \in [Channels -> BOOLEAN]
  /\ pc \in {"poll", "start", "stop", "drain", "flush", "read", "end"}
  /\ chan \in Channels
  /\ run \in BOOLEAN /\ runOld \in BOOLEAN /\ commitLog \in BOOLEAN
  /\ batch \in Nat /\ openFailed \in BOOLEAN
  /\ drops \subseteq {"abs", "rx", "port", "store", "missing"}
  /\ bridgeCount \in Nat /\ managerCount \in Nat /\ framesLost \in BOOLEAN

\* A page that is sent has a frame.
PathInv ==
  /\ seqIndex \in [Channels -> Nat] /\ ring \in [Channels -> Seq(Frame)]
  /\ \A c \in Channels : Len(ring[c]) <= RingLength
  /\ \A c \in Channels : \A i \in DOMAIN ring[c] : ring[c][i].ch = c
  /\ notified \in BOOLEAN /\ draining \in 0..NumChannels
  /\ page \in Seq(Frame) /\ Len(page) <= PageFrames
  /\ mbuf \in Seq(Seq(Frame)) /\ Len(mbuf) <= MaxPages
  /\ \A k \in DOMAIN mbuf : mbuf[k] # <<>>
  /\ reading \in Seq(Frame) /\ logged \in Seq(Frame)

InRings == UNION {Range(ring[c]) : c \in Channels}
InBuffer == UNION {Range(mbuf[k]) : k \in DOMAIN mbuf}

\* What comes behind the buffer's pages, behind the page being read, behind the log.
BehindBuffer == Range(page) \cup InRings
BehindReading == InBuffer \cup BehindBuffer
BehindLog == Range(reading) \cup BehindReading

\* Frames in the FIFOs are numbered as they arrived, and all others came before them.
FifoInv ==
  /\ \A c \in Channels : \A i \in DOMAIN fifo[c] :
       /\ 0 < fifo[c][i] /\ fifo[c][i] <= arrived[c]
       /\ \A j \in DOMAIN fifo[c] : i < j => fifo[c][i] < fifo[c][j]
  /\ \A f \in Range(logged) \cup BehindLog :
       /\ f.n <= arrived[f.ch]
       /\ \A i \in DOMAIN fifo[f.ch] : f.n < fifo[f.ch][i]

\* Each buffer is in order, and each is in front of those it is filled from.
OrderInv ==
  /\ Sorted(logged) /\ Sorted(reading) /\ Sorted(page)
  /\ \A k \in DOMAIN mbuf : Sorted(mbuf[k])
  /\ \A c \in Channels : Sorted(ring[c])
  /\ \A k, l \in DOMAIN mbuf : k < l => AllBefore(Range(mbuf[k]), Range(mbuf[l]))
  /\ AllBefore(Range(page), InRings)
  /\ AllBefore(InBuffer, BehindBuffer)
  /\ AllBefore(Range(reading), BehindReading)
  /\ AllBefore(Range(logged), BehindLog)

IInv == HwInv /\ PollInv /\ PathInv /\ FifoInv /\ OrderInv

Frames == Range(logged) \cup BehindLog

-----------------------------------------------------------------------------
(* Sequences and orders                                                    *)

LEMMA BeforeSubset ==
  ASSUME NEW A, NEW B, AllBefore(A, B), NEW C \in SUBSET A, NEW D \in SUBSET B
  PROVE  AllBefore(C, D)
BY DEF AllBefore

LEMMA BeforeUnion ==
  ASSUME NEW A, NEW B, NEW C, AllBefore(A, C), AllBefore(B, C)
  PROVE  AllBefore(A \cup B, C)
BY DEF AllBefore

\* A frame is put behind a buffer.
LEMMA AppendIs ==
  ASSUME NEW s \in Seq(Frame), NEW x \in Frame
  PROVE  /\ Append(s, x) \in Seq(Frame) /\ Len(Append(s, x)) = Len(s) + 1
         /\ Range(Append(s, x)) = Range(s) \cup {x}
         /\ Sorted(s) /\ AllBefore(Range(s), {x}) => Sorted(Append(s, x))
<1> DEFINE t == Append(s, x)
<1>1. /\ t \in Seq(Frame) /\ Len(t) = Len(s) + 1
      /\ \A i \in 1..Len(s) : t[i] = s[i]
      /\ t[Len(s) + 1] = x
  OBVIOUS
<1>2. DOMAIN t = 1..Len(s) + 1 /\ DOMAIN s = 1..Len(s) /\ Len(s) \in Nat
  BY <1>1
<1> HIDE DEF t
<1>3. Range(t) = Range(s) \cup {x}
  BY <1>1, <1>2 DEF Range
<1>4. ASSUME Sorted(s), AllBefore(Range(s), {x})
      PROVE  Sorted(t)
  <2> SUFFICES ASSUME NEW i \in 1..Len(s) + 1, NEW j \in 1..Len(s) + 1, i < j
               PROVE  Before(t[i], t[j])
    BY <1>2 DEF Sorted
  <2>1. i \in 1..Len(s) /\ t[i] = s[i]
    BY <1>1, <1>2
  <2>2. CASE j \in 1..Len(s)
    BY <1>1, <1>2, <1>4, <2>1, <2>2 DEF Sorted
  <2>3. CASE j = Len(s) + 1
    <3>1. s[i] \in Range(s)
      BY <1>2, <2>1 DEF Range
    <3> QED BY <1>1, <1>4, <2>1, <2>3, <3>1 DEF AllBefore
  <2> QED BY <1>2, <2>2, <2>3
<1> QED BY <1>1, <1>3, <1>4 DEF t

\* A frame is taken from the front of a buffer.
LEMMA TailIs ==
  ASSUME NEW s \in Seq(Frame), s # <<>>
  PROVE  /\ Head(s) \in Frame /\ Tail(s) \in Seq(Frame) /\ Len(Tail(s)) = Len(s) - 1
         /\ Head(s) \in Range(s) /\ Range(Tail(s)) \subseteq Range(s)
         /\ \A i \in DOMAIN Tail(s) : i + 1 \in DOMAIN s /\ Tail(s)[i] = s[i + 1]
         /\ Sorted(s) => Sorted(Tail(s)) /\ AllBefore({Head(s)}, Range(Tail(s)))
<1> DEFINE t == Tail(s)
<1>1. /\ t \in Seq(Frame) /\ Len(t) = Len(s) - 1 /\ Len(s) \in Nat /\ Len(s) > 0
      /\ \A i \in 1..Len(t) : t[i] = s[i + 1]
      /\ Head(s) = s[1] /\ s[1] \in Frame
  OBVIOUS
<1>2. DOMAIN t = 1..Len(s) - 1 /\ DOMAIN s = 1..Len(s)
  BY <1>1
<1> HIDE DEF t
<1>3. \A i \in DOMAIN t : i + 1 \in DOMAIN s /\ t[i] = s[i + 1]
  BY <1>1, <1>2
<1>4. Head(s) \in Range(s) /\ Range(t) \subseteq Range(s)
  BY <1>1, <1>2, <1>3 DEF Range
<1>5. ASSUME Sorted(s)
      PROVE  Sorted(t) /\ AllBefore({Head(s)}, Range(t))
  <2>1. Sorted(t)
    <3> SUFFICES ASSUME NEW i \in DOMAIN t, NEW j \in DOMAIN t, i < j
                 PROVE  Before(t[i], t[j])
      BY DEF Sorted
    <3>1. i + 1 < j + 1
      BY <1>2
    <3> QED BY <1>3, <1>5, <3>1 DEF Sorted
  <2>2. ASSUME NEW i \in DOMAIN t
        PROVE  Before(s[1], t[i])
    <3>1. 1 \in DOMAIN s /\ 1 < i + 1
      BY <1>1, <1>2
    <3> QED BY <1>3, <1>5, <3>1 DEF Sorted
  <2> QED BY <1>1, <2>1, <2>2 DEF AllBefore, Range
<1> QED BY <1>1, <1>3, <1>4, <1>5 DEF t

LEMMA EmptyIs ==
  /\ <<>> \in Seq(Frame) /\ Len(<<>>) = 0 /\ Range(<<>>) = {} /\ Sorted(<<>>)
BY DEF Range, Sorted

\* A page is put behind the buffer.
LEMMA SendIs ==
  ASSUME NEW m \in Seq(Seq(Frame)), NEW p \in Seq(Frame), p # <<>>,
         \A k \in DOMAIN m : m[k] # <<>>
  PROVE  LET t == Append(m, p)
         IN /\ t \in Seq(Seq(Frame)) /\ Len(t) = Len(m) + 1
            /\ \A k \in DOMAIN t : t[k] # <<>>
            /\ DOMAIN t = 1..Len(m) + 1 /\ DOMAIN m = 1..Len(m) /\ Len(m) \in Nat
            /\ \A k \in 1..Len(m) : t[k] = m[k]
            /\ t[Len(m) + 1] = p
OBVIOUS

\* The buffer's first page is taken.
LEMMA FetchIs ==
  ASSUME NEW m \in Seq(Seq(Frame)), m # <<>>, \A k \in DOMAIN m : m[k] # <<>>
  PROVE  LET t == Tail(m)
         IN /\ t \in Seq(Seq(Frame)) /\ Len(t) <= Len(m)
            /\ \A k \in DOMAIN t : k + 1 \in DOMAIN m /\ t[k] = m[k + 1] /\ t[k] # <<>>
            /\ DOMAIN t \subseteq Nat /\ 1 \in DOMAIN m
            /\ Head(m) = m[1] /\ Head(m) \in Seq(Frame) /\ Head(m) # <<>>
<1> DEFINE t == Tail(m)
<1>1. /\ t \in Seq(Seq(Frame)) /\ Len(t) = Len(m) - 1 /\ Len(m) \in Nat /\ Len(m) > 0
      /\ \A i \in 1..Len(t) : t[i] = m[i + 1]
      /\ Head(m) = m[1] /\ m[1] \in Seq(Frame)
  OBVIOUS
<1>2. DOMAIN t = 1..Len(m) - 1 /\ DOMAIN m = 1..Len(m)
  BY <1>1
<1>3. ASSUME NEW k \in DOMAIN t
      PROVE  k \in 1..Len(t) /\ k + 1 \in DOMAIN m /\ t[k] = m[k + 1] /\ t[k] # <<>>
  <2>1. k \in 1..Len(t) /\ k + 1 \in DOMAIN m
    BY <1>1, <1>2
  <2> HIDE DEF t
  <2> QED BY <1>1, <2>1
<1> HIDE DEF t
<1>4. Len(t) <= Len(m) /\ DOMAIN t \subseteq Nat /\ 1 \in DOMAIN m
  BY <1>1, <1>2
<1> QED BY <1>1, <1>3, <1>4 DEF t

\* Frames that are on the way are frames.
LEMMA FramesType ==
  ASSUME PathInv
  PROVE  Frames \subseteq Frame
<1>1. Range(logged) \subseteq Frame /\ Range(reading) \subseteq Frame /\ Range(page) \subseteq Frame
  BY DEF PathInv, Range
<1>2. InRings \subseteq Frame
  BY DEF PathInv, InRings, Range
<1>3. InBuffer \subseteq Frame
  <2> SUFFICES ASSUME NEW k \in DOMAIN mbuf, NEW x \in Range(mbuf[k]) PROVE x \in Frame
    BY DEF InBuffer
  <2>1. mbuf[k] \in Seq(Frame)
    BY DEF PathInv
  <2> QED BY <2>1 DEF Range
<1> QED BY <1>1, <1>2, <1>3 DEF Frames, BehindLog, BehindReading, BehindBuffer

-----------------------------------------------------------------------------
(* Parts that a step leaves alone                                          *)

LEMMA HwKept ==
  ASSUME HwInv, UNCHANGED <<hwVars, arrived>>
  PROVE  HwInv'
BY DEF HwInv, hwVars

LEMMA PollKept ==
  ASSUME PollInv, UNCHANGED <<pollVars, checkVars>>
  PROVE  PollInv'
BY DEF PollInv, pollVars, checkVars

LEMMA PathKept ==
  ASSUME PathInv, OrderInv, UNCHANGED <<seqIndex, pathVars, logged>>
  PROVE  PathInv' /\ OrderInv' /\ Frames' = Frames
BY DEF PathInv, OrderInv, pathVars, Frames, BehindLog, BehindReading, BehindBuffer,
       InBuffer, InRings, Sorted

\* Frames that came to the FIFOs are behind all others, while no other comes in.
LEMMA FifoKept ==
  ASSUME FifoInv, UNCHANGED <<fifo, arrived>>, Frames' \subseteq Frames
  PROVE  FifoInv'
<1>1. \A f \in Frames' : f.n <= arrived'[f.ch] /\ \A i \in DOMAIN fifo'[f.ch] : f.n < fifo'[f.ch][i]
  BY DEF FifoInv, Frames
<1>2. \A c \in Channels : \A i \in DOMAIN fifo'[c] :
        /\ 0 < fifo'[c][i] /\ fifo'[c][i] <= arrived'[c]
        /\ \A j \in DOMAIN fifo'[c] : i < j => fifo'[c][i] < fifo'[c][j]
  BY DEF FifoInv
<1> QED BY <1>1, <1>2 DEF FifoInv, Frames

-----------------------------------------------------------------------------
(* Frames are put into the rings                                           *)

\* What a ring takes, it takes behind what it holds, in the order given.
LEMMA PutAllIs ==
  ASSUME PathInv, NEW c \in Channels, NEW num \in Seq(Nat)
  PROVE  LET t == PutAll(c, num)
         IN /\ t \in Seq(Frame) /\ Len(t) <= RingLength
            /\ DOMAIN t = 1..Len(t) /\ DOMAIN num = 1..Len(num)
            /\ Len(ring[c]) \in Nat /\ Len(t) \in Nat /\ Len(ring[c]) <= Len(t)
            /\ \A i \in 1..Len(ring[c]) : t[i] = ring[c][i]
            /\ \A i \in (Len(ring[c]) + 1)..Len(t) :
                 /\ i - Len(ring[c]) \in 1..Len(num)
                 /\ t[i].ch = c /\ t[i].n = num[i - Len(ring[c])]
            /\ Len(num) <= RingLength - Len(ring[c]) => Len(t) = Len(ring[c]) + Len(num)
<1> DEFINE r == ring[c]
           room == AtMost(Len(num), RingLength - Len(r))
           added == [i \in 1..room |-> [ch |-> c, n |-> num[i], seq |-> seqIndex[c] + i]]
           t == r \o added
<1>1. /\ r \in Seq(Frame) /\ Len(r) \in Nat /\ Len(r) <= RingLength /\ RingLength \in Nat
      /\ seqIndex[c] \in Nat
  BY RxAssumption DEF PathInv
<1>2. /\ room \in Nat /\ room <= Len(num) /\ room <= RingLength - Len(r)
      /\ Len(num) \in Nat /\ DOMAIN num = 1..Len(num)
  <2>1. Len(num) \in Nat /\ DOMAIN num = 1..Len(num)
    OBVIOUS
  <2>2. \A a, b \in Int : AtMost(a, b) <= a /\ AtMost(a, b) <= b
                           /\ (AtMost(a, b) = a \/ AtMost(a, b) = b)
    BY DEF AtMost
  <2>3. RingLength - Len(r) \in Nat
    BY <1>1
  <2> QED BY <2>1, <2>2, <2>3
<1>11. Len(num) <= RingLength - Len(r) => room = Len(num)
  BY DEF AtMost
<1> HIDE DEF room
<1>3. \A i \in 1..room : added[i] \in Frame /\ added[i].ch = c /\ added[i].n = num[i]
  <2> SUFFICES ASSUME NEW i \in 1..room
               PROVE  added[i] \in Frame /\ added[i].ch = c /\ added[i].n = num[i]
    OBVIOUS
  <2>1. added[i] = [ch |-> c, n |-> num[i], seq |-> seqIndex[c] + i]
    OBVIOUS
  <2>2. num[i] \in Nat /\ seqIndex[c] + i \in Nat
    BY <1>1, <1>2
  <2> QED BY <2>1, <2>2 DEF Frame
<1>4. added \in Seq(Frame) /\ Len(added) = room
  BY <1>2, <1>3
<1> HIDE DEF added
<1>5. /\ t \in Seq(Frame) /\ Len(t) = Len(r) + room
      /\ \A i \in 1..Len(t) : t[i] = IF i <= Len(r) THEN r[i] ELSE added[i - Len(r)]
  <2> HIDE DEF r
  <2> QED BY <1>1, <1>2, <1>4, ConcatProperties
<1>6. \A i \in (Len(r) + 1)..Len(t) : i - Len(r) \in 1..room /\ t[i] = added[i - Len(r)]
  BY <1>1, <1>2, <1>5
<1>7. \A i \in (Len(r) + 1)..Len(t) :
        i - Len(r) \in 1..Len(num) /\ t[i].ch = c /\ t[i].n = num[i - Len(r)]
  BY <1>1, <1>2, <1>3, <1>6
<1>8. \A i \in 1..Len(r) : t[i] = r[i]
  BY <1>1, <1>2, <1>5
<1>9. DOMAIN t = 1..Len(t) /\ Len(t) <= RingLength /\ Len(t) \in Nat /\ Len(r) <= Len(t)
  BY <1>1, <1>2, <1>5
<1>10. t = PutAll(c, num)
  BY DEF PutAll, added, room
<1>12. Len(num) <= RingLength - Len(r) => Len(t) = Len(r) + Len(num)
  BY <1>5, <1>11
<1> HIDE DEF t
<1> QED BY <1>1, <1>2, <1>7, <1>8, <1>9, <1>10, <1>12, <1>5

\* The numbers that are put into the rings: those behind all frames on the way, in
\* their order; 0 where a frame was read from nowhere.
Behind(num) ==
  /\ \A c \in Channels : \A i \in DOMAIN num[c] :
       num[c][i] > 0 => \A f \in Frames : f.ch = c => f.n < num[c][i]
  /\ \A c \in Channels : \A i, j \in DOMAIN num[c] :
       i < j /\ num[c][j] > 0 => num[c][i] < num[c][j]

\* Frames put behind those of a ring, with numbers behind theirs, keep it sorted.
LEMMA GrownSorted ==
  ASSUME NEW s \in Seq(Frame), NEW t \in Seq(Frame), NEW nums \in Seq(Nat), Sorted(s),
         \A i \in 1..Len(s) : t[i] = s[i],
         \A i \in (Len(s) + 1)..Len(t) :
            i - Len(s) \in 1..Len(nums) /\ t[i].n = nums[i - Len(s)],
         \A i \in DOMAIN s, j \in DOMAIN nums : nums[j] > 0 => s[i].n < nums[j],
         \A i, j \in DOMAIN nums : i < j /\ nums[j] > 0 => nums[i] < nums[j]
  PROVE  Sorted(t)
<1>1. /\ DOMAIN s = 1..Len(s) /\ DOMAIN t = 1..Len(t) /\ DOMAIN nums = 1..Len(nums)
      /\ Len(s) \in Nat /\ Len(t) \in Nat /\ Len(nums) \in Nat
  OBVIOUS
<1> SUFFICES ASSUME NEW i \in 1..Len(t), NEW j \in 1..Len(t), i < j
             PROVE  Before(t[i], t[j])
  BY <1>1 DEF Sorted
<1>2. CASE j \in 1..Len(s)
  <2>1. i \in 1..Len(s)
    BY <1>1, <1>2
  <2> QED BY <1>1, <1>2, <2>1 DEF Sorted
<1>3. CASE i \in 1..Len(s) /\ j \in (Len(s) + 1)..Len(t)
  <2>1. j - Len(s) \in DOMAIN nums /\ t[j].n = nums[j - Len(s)]
    BY <1>1, <1>3
  <2>2. t[i] = s[i] /\ i \in DOMAIN s
    BY <1>1, <1>3
  <2> QED BY <2>1, <2>2 DEF Before
<1>4. CASE i \in (Len(s) + 1)..Len(t) /\ j \in (Len(s) + 1)..Len(t)
  <2>1. j - Len(s) \in DOMAIN nums /\ t[j].n = nums[j - Len(s)]
    BY <1>1, <1>4
  <2>2. i - Len(s) \in DOMAIN nums /\ t[i].n = nums[i - Len(s)]
    BY <1>1, <1>4
  <2>3. i - Len(s) < j - Len(s)
    BY <1>1
  <2> QED BY <2>1, <2>2, <2>3 DEF Before
<1>5. \/ j \in 1..Len(s)
      \/ i \in 1..Len(s) /\ j \in (Len(s) + 1)..Len(t)
      \/ i \in (Len(s) + 1)..Len(t) /\ j \in (Len(s) + 1)..Len(t)
  BY <1>1
<1> QED BY <1>2, <1>3, <1>4, <1>5

LEMMA RingsGrow ==
  ASSUME PathInv, OrderInv, NEW num \in [Channels -> Seq(Nat)], Behind(num),
         ring' = [c \in Channels |-> PutAll(c, num[c])],
         seqIndex' \in [Channels -> Nat], notified' \in BOOLEAN,
         UNCHANGED <<draining, page, mbuf, reading, logged>>
  PROVE  /\ PathInv' /\ OrderInv'
         /\ \A f \in Frames' : f \in Frames \/
              \E c \in Channels : \E i \in DOMAIN num[c] : f.ch = c /\ f.n = num[c][i]
<1> DEFINE New(c) == {f \in Range(ring'[c]) :
                        f.ch = c /\ \E i \in DOMAIN num[c] : f.n = num[c][i]}
<1>1. ASSUME NEW c \in Channels
      PROVE  /\ ring'[c] \in Seq(Frame) /\ Len(ring'[c]) <= RingLength
             /\ DOMAIN ring'[c] = 1..Len(ring'[c]) /\ DOMAIN num[c] = 1..Len(num[c])
             /\ Len(ring[c]) \in Nat /\ Len(ring'[c]) \in Nat
             /\ DOMAIN ring[c] = 1..Len(ring[c])
             /\ \A i \in 1..Len(ring[c]) : ring'[c][i] = ring[c][i]
             /\ \A i \in (Len(ring[c]) + 1)..Len(ring'[c]) :
                  /\ i - Len(ring[c]) \in 1..Len(num[c])
                  /\ ring'[c][i].ch = c /\ ring'[c][i].n = num[c][i - Len(ring[c])]
  <2>1. ring'[c] = PutAll(c, num[c]) /\ num[c] \in Seq(Nat) /\ ring[c] \in Seq(Frame)
    BY DEF PathInv
  <2>2. DOMAIN ring[c] = 1..Len(ring[c])
    BY <2>1
  <2> QED BY <2>1, <2>2, PutAllIs
<1>2. ASSUME NEW c \in Channels, NEW i \in DOMAIN ring'[c]
      PROVE  \/ i \in DOMAIN ring[c] /\ ring'[c][i] = ring[c][i]
             \/ i \in (Len(ring[c]) + 1)..Len(ring'[c]) /\ ring'[c][i] \in New(c)
  <2>1. i \in DOMAIN ring[c] \/ i \in (Len(ring[c]) + 1)..Len(ring'[c])
    BY <1>1
  <2>2. ASSUME i \in (Len(ring[c]) + 1)..Len(ring'[c])
        PROVE  ring'[c][i] \in New(c)
    <3>1. /\ i - Len(ring[c]) \in DOMAIN num[c]
          /\ ring'[c][i].ch = c /\ ring'[c][i].n = num[c][i - Len(ring[c])]
      BY <1>1, <2>2
    <3> QED BY <3>1 DEF Range
  <2> QED BY <1>1, <2>1, <2>2
<1>3. ASSUME NEW c \in Channels
      PROVE  Range(ring'[c]) \subseteq Range(ring[c]) \cup New(c)
  BY <1>2 DEF Range
<1>4. InRings' \subseteq InRings \cup UNION {New(c) : c \in Channels}
  BY <1>3 DEF InRings
<1>5. PathInv'
  <2>1. ring' \in [Channels -> Seq(Frame)] /\ \A c \in Channels : Len(ring'[c]) <= RingLength
    BY <1>1
  <2>2. ASSUME NEW c \in Channels, NEW i \in DOMAIN ring'[c] PROVE ring'[c][i].ch = c
    BY <1>2 DEF PathInv
  <2> QED BY <2>1, <2>2 DEF PathInv
\* whatever is on the way comes before what is new
<1>6. ASSUME NEW A \in SUBSET Frames, NEW c \in Channels
      PROVE  AllBefore(A, New(c))
  <2> SUFFICES ASSUME NEW x \in A, NEW y \in New(c), x.ch = y.ch, y.n > 0
               PROVE  x.n < y.n
    BY DEF AllBefore, Before
  <2>1. PICK i \in DOMAIN num[c] : y.ch = c /\ y.n = num[c][i]
    OBVIOUS
  <2> QED BY <2>1 DEF Behind
<1>7. ASSUME NEW A \in SUBSET Frames, AllBefore(A, InRings)
      PROVE  AllBefore(A, InRings')
  <2>1. \A c \in Channels : AllBefore(A, New(c))
    BY <1>6
  <2> QED BY <1>4, <1>7, <2>1 DEF AllBefore
<1>8. ASSUME NEW c \in Channels
      PROVE  Sorted(ring'[c])
  <2> HIDE DEF New
  <2>1. ring[c] \in Seq(Frame) /\ num[c] \in Seq(Nat) /\ Sorted(ring[c])
    BY DEF PathInv, OrderInv
  <2>2. ASSUME NEW i \in DOMAIN ring[c]
        PROVE  ring[c][i].ch = c /\ ring[c][i] \in Frames
    BY <2>2 DEF PathInv, Frames, BehindLog, BehindReading, BehindBuffer, InRings, Range
  <2>3. \A i \in DOMAIN ring[c], j \in DOMAIN num[c] : num[c][j] > 0 => ring[c][i].n < num[c][j]
    BY <2>2 DEF Behind
  <2>4. \A i, j \in DOMAIN num[c] : i < j /\ num[c][j] > 0 => num[c][i] < num[c][j]
    BY DEF Behind
  <2>5. ring'[c] \in Seq(Frame) /\ \A i \in 1..Len(ring[c]) : ring'[c][i] = ring[c][i]
    BY <1>1
  <2>6. \A i \in (Len(ring[c]) + 1)..Len(ring'[c]) :
          i - Len(ring[c]) \in 1..Len(num[c]) /\ ring'[c][i].n = num[c][i - Len(ring[c])]
    BY <1>1
  <2> QED BY <2>1, <2>3, <2>4, <2>5, <2>6, GrownSorted
<1>9. /\ Range(page) \subseteq Frames /\ InBuffer \subseteq Frames
      /\ Range(reading) \subseteq Frames /\ Range(logged) \subseteq Frames
  BY DEF Frames, BehindLog, BehindReading, BehindBuffer
<1>10. InBuffer' = InBuffer /\ Range(page)' = Range(page)
  BY DEF InBuffer
<1>11. AllBefore(Range(page), InRings')
  BY <1>7, <1>9 DEF OrderInv
<1>12. AllBefore(InBuffer, BehindBuffer')
  <2>1. AllBefore(InBuffer, InRings) /\ AllBefore(InBuffer, Range(page))
    BY DEF OrderInv, BehindBuffer, AllBefore
  <2>2. AllBefore(InBuffer, InRings')
    BY <1>7, <1>9, <2>1
  <2> QED BY <1>10, <2>1, <2>2 DEF BehindBuffer, AllBefore
<1>13. AllBefore(Range(reading), BehindReading')
  <2>1. /\ AllBefore(Range(reading), InRings) /\ AllBefore(Range(reading), Range(page))
        /\ AllBefore(Range(reading), InBuffer)
    BY DEF OrderInv, BehindReading, BehindBuffer, AllBefore
  <2>2. AllBefore(Range(reading), InRings')
    BY <1>7, <1>9, <2>1
  <2> QED BY <1>10, <2>1, <2>2 DEF BehindReading, BehindBuffer, AllBefore
<1>14. AllBefore(Range(logged), BehindLog')
  <2>1. /\ AllBefore(Range(logged), InRings) /\ AllBefore(Range(logged), Range(page))
        /\ AllBefore(Range(logged), InBuffer) /\ AllBefore(Range(logged), Range(reading))
    BY DEF OrderInv, BehindLog, BehindReading, BehindBuffer, AllBefore
  <2>2. AllBefore(Range(logged), InRings')
    BY <1>7, <1>9, <2>1
  <2> QED BY <1>10, <2>1, <2>2 DEF BehindLog, BehindReading, BehindBuffer, AllBefore
<1>15. OrderInv'
  BY <1>8, <1>10, <1>11, <1>12, <1>13, <1>14 DEF OrderInv, Sorted
<1>16. \A f \in Frames' : f \in Frames \/ \E c \in Channels : f \in New(c)
  BY <1>4, <1>10 DEF Frames, BehindLog, BehindReading, BehindBuffer
<1> QED BY <1>5, <1>15, <1>16

-----------------------------------------------------------------------------
(* The bus and the interrupt                                               *)

LEMMA FrameArrivesKeeps ==
  ASSUME IInv, NEW c \in Channels, FrameArrives(c)
  PROVE  IInv'
<1>1. PollInv'
  BY PollKept DEF IInv, FrameArrives
<1>2. PathInv' /\ OrderInv' /\ Frames' = Frames
  BY PathKept DEF IInv, FrameArrives
<1>3. fifo[c] \in Seq(Nat) /\ arrived[c] \in Nat /\ FifoDepth \in Int
  BY RxAssumption DEF IInv, HwInv
<1>4. arrived' \in [Channels -> Nat] /\ arrived' = [arrived EXCEPT ![c] = @ + 1]
  BY <1>3 DEF IInv, HwInv, FrameArrives
<1>5. CASE Len(fifo[c]) < FifoDepth
  <2> DEFINE t == Append(fifo[c], arrived[c] + 1)
  <2>1. /\ t \in Seq(Nat) /\ Len(t) = Len(fifo[c]) + 1 /\ Len(fifo[c]) \in Nat
        /\ \A i \in 1..Len(fifo[c]) : t[i] = fifo[c][i]
        /\ t[Len(fifo[c]) + 1] = arrived[c] + 1
        /\ DOMAIN fifo[c] = 1..Len(fifo[c]) /\ DOMAIN t = 1..Len(t)
    BY <1>3
  <2>2. fifo' = [fifo EXCEPT ![c] = t]
    BY <1>5 DEF FrameArrives
  <2> HIDE DEF t
  <2>3. /\ fifo'[c] = t
        /\ \A d \in Channels : d # c => fifo'[d] = fifo[d] /\ arrived'[d] = arrived[d]
        /\ arrived'[c] = arrived[c] + 1
    BY <2>2, <1>4 DEF IInv, HwInv
  <2>4. HwInv'
    <3>1. fifo' \in [Channels -> Seq(Nat)]
      BY <2>1, <2>2 DEF IInv, HwInv
    <3>2. \A d \in Channels : Len(fifo'[d]) <= FifoDepth
      <4>1. Len(fifo'[c]) <= FifoDepth
        BY <1>3, <1>5, <2>1, <2>3
      <4>2. \A d \in Channels : d # c => Len(fifo'[d]) <= FifoDepth
        BY <2>3 DEF IInv, HwInv
      <4> QED BY <4>1, <4>2
    <3>3. watermarked' = [watermarked EXCEPT ![c] = @ \/ Len(fifo'[c]) = Watermark]
      BY <1>5 DEF FrameArrives
    <3>4. watermarked' \in [Channels -> BOOLEAN]
      BY <3>3 DEF IInv, HwInv
    <3>5. UNCHANGED <<overflowed, receiving, irqOn, driverState>>
      BY <1>5 DEF FrameArrives
    <3> QED BY <1>4, <3>1, <3>2, <3>4, <3>5 DEF IInv, HwInv
  <2>5. ASSUME NEW i \in DOMAIN t
        PROVE  /\ 0 < t[i] /\ t[i] <= arrived'[c]
               /\ \A j \in DOMAIN t : i < j => t[i] < t[j]
               /\ \A f \in Frames : f.ch = c => f.n < t[i]
    <3>1. CASE i \in 1..Len(fifo[c])
      <4>1. i \in DOMAIN fifo[c] /\ t[i] = fifo[c][i] /\ t[i] \in Nat
        BY <2>1, <3>1
      <4>2. 0 < t[i] /\ t[i] <= arrived[c] /\ \A f \in Frames : f.ch = c => f.n < t[i]
        BY <4>1 DEF IInv, FifoInv, Frames
      <4>3. ASSUME NEW j \in DOMAIN t, i < j
            PROVE  t[i] < t[j]
        <5>1. CASE j \in DOMAIN fifo[c]
          <6>1. fifo[c][i] < fifo[c][j]
            BY <4>1, <4>3, <5>1 DEF IInv, FifoInv
          <6> QED BY <2>1, <4>1, <5>1, <6>1
        <5>2. CASE j = Len(fifo[c]) + 1
          BY <1>3, <2>1, <4>1, <4>2, <5>2
        <5> QED BY <2>1, <5>1, <5>2
      <4> QED BY <1>3, <2>3, <4>1, <4>2, <4>3
    <3>2. CASE i = Len(fifo[c]) + 1
      <4>1. t[i] = arrived[c] + 1 /\ ~\E j \in DOMAIN t : i < j
        BY <2>1, <3>2
      <4>2. \A f \in Frames : f.ch = c => f.n \in Nat /\ f.n <= arrived[c]
        BY FramesType DEF IInv, FifoInv, Frames, Frame
      <4> QED BY <1>3, <2>3, <4>1, <4>2
    <3> QED BY <2>1, <3>1, <3>2
  <2>6. ASSUME NEW d \in Channels, NEW i \in DOMAIN fifo'[d]
        PROVE  /\ 0 < fifo'[d][i] /\ fifo'[d][i] <= arrived'[d]
               /\ \A j \in DOMAIN fifo'[d] : i < j => fifo'[d][i] < fifo'[d][j]
               /\ \A f \in Frames : f.ch = d => f.n < fifo'[d][i]
    <3>1. CASE d = c
      BY <2>3, <2>5, <3>1
    <3>2. CASE d # c
      BY <2>3, <3>2 DEF IInv, FifoInv, Frames
    <3> QED BY <3>1, <3>2
  <2>7. \A f \in Frames : f.ch \in Channels /\ f.n \in Nat /\ f.n <= arrived[f.ch]
    BY FramesType DEF IInv, FifoInv, Frames, Frame
  <2>8. \A f \in Frames : f.n <= arrived'[f.ch]
    BY <1>3, <2>3, <2>7
  <2>9. FifoInv'
    BY <1>2, <2>6, <2>7, <2>8 DEF FifoInv, Frames
  <2> QED BY <1>1, <1>2, <2>4, <2>9 DEF IInv
<1>6. CASE ~(Len(fifo[c]) < FifoDepth)
  <2>1. UNCHANGED <<fifo, watermarked>> /\ overflowed' = [overflowed EXCEPT ![c] = TRUE]
    BY <1>6 DEF FrameArrives
  <2>2. UNCHANGED <<receiving, irqOn, driverState>>
    BY DEF FrameArrives
  <2>3. HwInv'
    BY <1>4, <2>1, <2>2 DEF IInv, HwInv
  <2>4. \A d \in Channels : arrived[d] \in Nat /\ arrived'[d] \in Nat /\ arrived[d] <= arrived'[d]
    BY <1>3, <1>4 DEF IInv, HwInv
  <2>5. \A f \in Frames : f.ch \in Channels /\ f.n \in Nat /\ f.n <= arrived[f.ch]
    BY FramesType DEF IInv, FifoInv, Frames, Frame
  <2>6. \A f \in Frames : f.n <= arrived'[f.ch] /\ \A i \in DOMAIN fifo[f.ch] : f.n < fifo[f.ch][i]
    BY <2>4, <2>5 DEF IInv, FifoInv, Frames
  <2>7. ASSUME NEW d \in Channels, NEW i \in DOMAIN fifo[d]
        PROVE  /\ 0 < fifo[d][i] /\ fifo[d][i] <= arrived'[d]
               /\ \A j \in DOMAIN fifo[d] : i < j => fifo[d][i] < fifo[d][j]
    <3>1. fifo[d][i] \in Nat
      BY DEF IInv, HwInv
    <3> QED BY <2>4, <3>1 DEF IInv, FifoInv
  <2>8. FifoInv'
    BY <1>2, <2>1, <2>6, <2>7 DEF FifoInv, Frames
  <2> QED BY <1>1, <1>2, <2>3, <2>8 DEF IInv
<1> QED BY <1>5, <1>6

\* What the interrupt takes from a FIFO, and what it leaves.
LEMMA TakenIs ==
  ASSUME HwInv, FifoInv, NEW c \in Channels
  PROVE  LET taken == SubSeq(fifo[c], 1, Taken(c))
             rest == SubSeq(fifo[c], Taken(c) + 1, Len(fifo[c]))
         IN /\ Taken(c) \in Nat
            /\ taken \in Seq(Nat) /\ rest \in Seq(Nat) /\ Len(rest) <= Len(fifo[c])
            /\ DOMAIN taken = 1..Taken(c)
            /\ \A i \in DOMAIN taken : i \in DOMAIN fifo[c] /\ taken[i] = fifo[c][i]
            /\ \A j \in DOMAIN rest :
                 /\ Taken(c) + j \in DOMAIN fifo[c] /\ rest[j] = fifo[c][Taken(c) + j]
                 /\ j \in Nat
            /\ DOMAIN rest = 1..(Len(fifo[c]) - Taken(c))
<1> DEFINE s == fifo[c]
           k == Taken(c)
           taken == SubSeq(s, 1, k)
           rest == SubSeq(s, k + 1, Len(s))
<1>1. s \in Seq(Nat) /\ Len(s) \in Nat /\ DOMAIN s = 1..Len(s)
  BY DEF HwInv
<1>2. k \in Nat /\ k <= Len(s)
  <2>1. Watermark \in Nat
    BY RxAssumption
  <2>2. Reads(c) \in Nat /\ Reads(c) <= Len(s)
    BY <1>1, <2>1 DEF Reads, AtMost
  <2> QED BY <1>1, <2>2 DEF Taken
<1> HIDE DEF s, k
<1>3. /\ taken \in Seq(Nat) /\ Len(taken) = k
      /\ \A i \in 1..k : taken[i] = s[i]
  BY <1>1, <1>2
<1>4. /\ rest \in Seq(Nat) /\ Len(rest) = Len(s) - k
      /\ \A j \in 1..(Len(s) - k) : rest[j] = s[k + j]
  <2>1. k + 1 \in 1..Len(s) + 1 /\ Len(s) \in k + 1 - 1..Len(s) /\ Len(s) - (k + 1) + 1 = Len(s) - k
    BY <1>1, <1>2
  <2>2. /\ rest \in Seq(Nat) /\ Len(rest) = Len(s) - k
        /\ \A j \in 1..(Len(s) - k) : rest[j] = s[k + 1 + j - 1]
    <3>1. \A i \in k + 1 .. Len(s) : s[i] \in Nat
      BY <1>1, <1>2
    <3>2. /\ rest \in Seq(Nat)
          /\ Len(rest) = IF k + 1 <= Len(s) THEN Len(s) - (k + 1) + 1 ELSE 0
          /\ \A i \in 1 .. Len(s) - (k + 1) + 1 : rest[i] = s[k + 1 + i - 1]
      <4>1. k + 1 \in Int /\ Len(s) \in Int
        BY <1>1, <1>2
      <4> QED BY <3>1, <4>1, SubSeqProperties
    <3>3. (IF k + 1 <= Len(s) THEN Len(s) - (k + 1) + 1 ELSE 0) = Len(s) - k
      <4>1. CASE k + 1 <= Len(s)
        BY <1>1, <1>2, <4>1
      <4>2. CASE ~(k + 1 <= Len(s))
        <5>1. k = Len(s) /\ Len(s) - k = 0
          <6>1. \A a, b \in Nat : a <= b /\ ~(a + 1 <= b) => a = b /\ b - a = 0
            OBVIOUS
          <6> QED BY <1>1, <1>2, <4>2, <6>1
        <5> QED BY <4>2, <5>1
      <4> QED BY <4>1, <4>2
    <3> HIDE DEF rest
    <3> QED BY <2>1, <3>2, <3>3
  <2>3. \A j \in 1..(Len(s) - k) : k + 1 + j - 1 = k + j
    BY <1>1, <1>2
  <2> QED BY <2>2, <2>3
<1>5. DOMAIN taken = 1..k /\ DOMAIN rest = 1..(Len(s) - k)
  BY <1>2, <1>3, <1>4
<1> HIDE DEF taken, rest
<1>6. \A i \in DOMAIN taken : i \in DOMAIN s /\ taken[i] = s[i]
  BY <1>1, <1>2, <1>3, <1>5
<1>7. \A j \in DOMAIN rest : k + j \in DOMAIN s /\ rest[j] = s[k + j] /\ j \in Nat
  BY <1>1, <1>2, <1>4, <1>5
<1>8. Len(rest) <= Len(s)
  BY <1>1, <1>2, <1>4
<1> QED BY <1>2, <1>3, <1>4, <1>5, <1>6, <1>7, <1>8 DEF s, k, taken, rest

LEMMA RxInterruptKeeps ==
  ASSUME IInv, NEW c \in Channels, RxInterrupt(c)
  PROVE  IInv'
<1> DEFINE num == [d \in Channels |-> SubSeq(fifo[d], 1, Taken(d))]
<1>1. HwInv /\ FifoInv /\ PathInv /\ OrderInv /\ PollInv
  BY DEF IInv
<1>2. ASSUME NEW d \in Channels
      PROVE  /\ Taken(d) \in Nat
             /\ num[d] \in Seq(Nat) /\ fifo'[d] \in Seq(Nat) /\ Len(fifo'[d]) <= Len(fifo[d])
             /\ DOMAIN num[d] = 1..Taken(d)
             /\ \A i \in DOMAIN num[d] : i \in DOMAIN fifo[d] /\ num[d][i] = fifo[d][i]
             /\ \A j \in DOMAIN fifo'[d] :
                  /\ Taken(d) + j \in DOMAIN fifo[d] /\ fifo'[d][j] = fifo[d][Taken(d) + j]
                  /\ j \in Nat
  <2>1. /\ num[d] = SubSeq(fifo[d], 1, Taken(d))
        /\ fifo'[d] = SubSeq(fifo[d], Taken(d) + 1, Len(fifo[d]))
    BY DEF RxInterrupt
  <2> QED BY <1>1, <2>1, TakenIs
<1>3. /\ DOMAIN fifo' = Channels
      /\ ring' = [d \in Channels |-> PutAll(d, num[d])]
      /\ seqIndex' = [d \in Channels |-> seqIndex[d] + Taken(d)]
  BY DEF RxInterrupt
<1>4. num \in [Channels -> Seq(Nat)]
  BY <1>2
<1> HIDE DEF num
<1>5. \A d \in Channels : fifo[d] \in Seq(Nat) /\ arrived[d] \in Nat
                          /\ \A i \in DOMAIN fifo[d] : i \in Nat /\ fifo[d][i] \in Nat
  BY <1>1 DEF HwInv
<1>6. Behind(num)
  <2>1. ASSUME NEW d \in Channels, NEW i \in DOMAIN num[d], NEW f \in Frames, f.ch = d
        PROVE  f.n < num[d][i]
    BY <1>1, <1>2, <2>1 DEF FifoInv, Frames
  <2>2. ASSUME NEW d \in Channels, NEW i \in DOMAIN num[d], NEW j \in DOMAIN num[d], i < j
        PROVE  num[d][i] < num[d][j]
    BY <1>1, <1>2, <2>2 DEF FifoInv
  <2> QED BY <2>1, <2>2 DEF Behind
<1>7. /\ PathInv' /\ OrderInv'
      /\ \A f \in Frames' : f \in Frames \/
           \E d \in Channels : \E i \in DOMAIN num[d] : f.ch = d /\ f.n = num[d][i]
  <2>1. seqIndex' \in [Channels -> Nat]
    BY <1>1, <1>2, <1>3 DEF PathInv
  <2>2. notified' \in BOOLEAN /\ UNCHANGED <<draining, page, mbuf, reading, logged>>
    BY <1>1 DEF RxInterrupt, histVars, PathInv
  <2> QED BY <1>1, <1>3, <1>4, <1>6, <2>1, <2>2, RingsGrow
<1>8. HwInv'
  <2>1. fifo' \in [Channels -> Seq(Nat)]
    <3>1. fifo' = [d \in Channels |-> SubSeq(fifo[d], Taken(d) + 1, Len(fifo[d]))]
      BY DEF RxInterrupt
    <3>2. \A d \in Channels : SubSeq(fifo[d], Taken(d) + 1, Len(fifo[d])) \in Seq(Nat)
      BY <1>1, TakenIs
    <3> QED BY <3>1, <3>2
  <2>2. \A d \in Channels : Len(fifo'[d]) <= FifoDepth
    <3>1. \A d \in Channels : Len(fifo[d]) <= FifoDepth /\ Len(fifo[d]) \in Nat /\ Len(fifo'[d]) \in Nat
      BY <1>1, <1>2, <1>5 DEF HwInv
    <3>2. FifoDepth \in Int
      BY RxAssumption
    <3>3. \A d \in Channels : Len(fifo'[d]) <= Len(fifo[d])
      BY <1>2
    <3>4. \A x, y, z \in Int : x <= y /\ y <= z => x <= z
      OBVIOUS
    <3>5. Nat \subseteq Int
      OBVIOUS
    <3> QED BY <3>1, <3>2, <3>3, <3>4, <3>5, Zenon
  <2>3. /\ overflowed' = [d \in Channels |-> FALSE]
        /\ irqOn' = [d \in Channels |-> irqOn[d] \/ Taken(d) > 0]
        /\ watermarked' = [d \in Channels |->
                      d # c /\ watermarked[d] /\ (fifo'[d] # <<>> \/ ~irqOn'[d])]
        /\ UNCHANGED <<receiving, driverState, arrived>>
    BY DEF RxInterrupt, histVars
  <2>4. /\ overflowed' \in [Channels -> BOOLEAN] /\ irqOn' \in [Channels -> BOOLEAN]
        /\ watermarked' \in [Channels -> BOOLEAN]
    BY <2>3
  <2> QED BY <1>1, <2>1, <2>2, <2>3, <2>4 DEF HwInv
<1>9. PollInv'
  <2>1. drops' \subseteq drops \cup {"rx", "abs"}
    BY DEF RxInterrupt, OverflowSeen
  <2>2. UNCHANGED <<pollVars, bridgeCount, managerCount, framesLost>>
    BY DEF RxInterrupt
  <2> QED BY <1>1, <2>1, <2>2 DEF PollInv, pollVars
<1>10. FifoInv'
  <2>1. arrived' = arrived
    BY DEF RxInterrupt, histVars
  <2>2. ASSUME NEW d \in Channels, NEW i \in DOMAIN fifo'[d]
        PROVE  /\ 0 < fifo'[d][i] /\ fifo'[d][i] <= arrived'[d]
               /\ \A j \in DOMAIN fifo'[d] : i < j => fifo'[d][i] < fifo'[d][j]
    <3>1. Taken(d) + i \in DOMAIN fifo[d] /\ fifo'[d][i] = fifo[d][Taken(d) + i]
      BY <1>2
    <3>2. 0 < fifo'[d][i] /\ fifo'[d][i] <= arrived'[d]
      BY <1>1, <2>1, <3>1 DEF FifoInv
    <3>3. ASSUME NEW j \in DOMAIN fifo'[d], i < j
          PROVE  fifo'[d][i] < fifo'[d][j]
      <4>1. /\ Taken(d) + j \in DOMAIN fifo[d] /\ fifo'[d][j] = fifo[d][Taken(d) + j]
            /\ Taken(d) + i < Taken(d) + j
        BY <1>2, <3>3
      <4> QED BY <1>1, <3>1, <4>1 DEF FifoInv
    <3> QED BY <3>2, <3>3
  <2>3. ASSUME NEW f \in Frames'
        PROVE  f.n <= arrived'[f.ch] /\ \A i \in DOMAIN fifo'[f.ch] : f.n < fifo'[f.ch][i]
    <3>1. CASE f \in Frames
      <4>1. /\ f.ch \in Channels /\ f.n <= arrived[f.ch]
            /\ \A i \in DOMAIN fifo[f.ch] : f.n < fifo[f.ch][i]
        BY <1>1, <3>1, FramesType DEF FifoInv, Frames, Frame
      <4> QED BY <1>2, <2>1, <4>1
    <3>2. CASE \E d \in Channels : \E i \in DOMAIN num[d] : f.ch = d /\ f.n = num[d][i]
      <4>1. PICK i \in DOMAIN num[f.ch] : f.ch \in Channels /\ f.n = num[f.ch][i]
        BY <3>2
      <4>2. i \in DOMAIN fifo[f.ch] /\ f.n = fifo[f.ch][i]
        BY <1>2, <4>1
      <4>3. f.n <= arrived'[f.ch]
        BY <1>1, <2>1, <4>1, <4>2 DEF FifoInv
      <4>4. ASSUME NEW j \in DOMAIN fifo'[f.ch]
            PROVE  f.n < fifo'[f.ch][j]
        <5>1. /\ Taken(f.ch) + j \in DOMAIN fifo[f.ch] /\ j \in Nat
              /\ fifo'[f.ch][j] = fifo[f.ch][Taken(f.ch) + j]
          BY <1>2, <4>1
        <5>2. i < Taken(f.ch) + j
          <6>1. i \in 1..Taken(f.ch) /\ Taken(f.ch) \in Nat /\ j > 0
            <7>1. fifo'[f.ch] \in Seq(Nat)
              BY <1>2, <4>1
            <7>2. j > 0
              BY <7>1
            <7> QED BY <1>2, <4>1, <7>2
          <6> QED BY <5>1, <6>1
        <5> QED BY <1>1, <4>1, <4>2, <5>1, <5>2 DEF FifoInv
      <4> QED BY <4>3, <4>4
    <3> QED BY <1>7, <3>1, <3>2
  <2> QED BY <2>2, <2>3 DEF FifoInv, Frames
<1> QED BY <1>7, <1>8, <1>9, <1>10 DEF IInv

\* CanAbs_Drain puts frames that were read from nowhere.
LEMMA DrainKeeps ==
  ASSUME IInv, Drain
  PROVE  IInv'
<1> DEFINE num == [c \in Channels |-> [i \in 1..Reads(c) |-> 0]]
<1>1. HwInv /\ FifoInv /\ PathInv /\ OrderInv /\ PollInv
  BY DEF IInv
<1>2. ASSUME NEW c \in Channels
      PROVE  Reads(c) \in Nat /\ num[c] \in Seq(Nat) /\ \A i \in DOMAIN num[c] : num[c][i] = 0
  <2>1. Watermark \in Nat /\ Len(fifo[c]) \in Nat
    BY <1>1, RxAssumption DEF HwInv
  <2>2. Reads(c) \in Nat
    BY <2>1 DEF Reads, AtMost
  <2>3. [i \in 1..Reads(c) |-> 0] \in Seq(Nat)
    BY <2>2
  <2> QED BY <2>2, <2>3
<1>3. /\ ring' = [c \in Channels |-> PutAll(c, num[c])]
      /\ seqIndex' = [c \in Channels |-> seqIndex[c] + Reads(c)]
  BY DEF Drain
<1>4. num \in [Channels -> Seq(Nat)]
  BY <1>2
<1> HIDE DEF num
<1>5. Behind(num)
  BY <1>2 DEF Behind
<1>6. /\ PathInv' /\ OrderInv'
      /\ \A f \in Frames' : f \in Frames \/
           \E c \in Channels : \E i \in DOMAIN num[c] : f.ch = c /\ f.n = num[c][i]
  <2>1. seqIndex' \in [Channels -> Nat]
    BY <1>1, <1>2, <1>3 DEF PathInv
  <2>2. notified' \in BOOLEAN /\ UNCHANGED <<draining, page, mbuf, reading, logged>>
    BY DEF Drain, histVars
  <2> QED BY <1>1, <1>3, <1>4, <1>5, <2>1, <2>2, RingsGrow
<1>7. HwInv'
  <2>1. overflowed' \in [Channels -> BOOLEAN]
    BY DEF Drain
  <2> QED BY <1>1, <2>1 DEF HwInv, Drain, histVars
<1>8. PollInv'
  <2>1. drops' \subseteq drops \cup {"rx", "abs"}
    BY DEF Drain, OverflowSeen
  <2> QED BY <1>1, <2>1 DEF PollInv, Drain
<1>9. FifoInv'
  <2>1. fifo' = fifo /\ arrived' = arrived
    BY DEF Drain, histVars
  <2>2. ASSUME NEW f \in Frames'
        PROVE  f.n <= arrived'[f.ch] /\ \A i \in DOMAIN fifo'[f.ch] : f.n < fifo'[f.ch][i]
    <3>1. CASE f \in Frames
      BY <1>1, <2>1, <3>1 DEF FifoInv, Frames
    <3>2. CASE \E c \in Channels : \E i \in DOMAIN num[c] : f.ch = c /\ f.n = num[c][i]
      <4>1. f.ch \in Channels /\ f.n = 0
        BY <1>2, <3>2
      <4>2. arrived[f.ch] \in Nat
        BY <1>1, <4>1 DEF HwInv
      <4> QED BY <1>1, <2>1, <4>1, <4>2 DEF FifoInv
    <3> QED BY <1>6, <3>1, <3>2
  <2> QED BY <1>1, <2>1, <2>2 DEF FifoInv, Frames
<1> QED BY <1>6, <1>7, <1>8, <1>9 DEF IInv

-----------------------------------------------------------------------------
(* CanBridgeTask                                                           *)

\* A frame leaves its ring: it comes before all that stay in the rings, those of
\* the other channels having numbers of their own.
LEMMA PopIs ==
  ASSUME PathInv, OrderInv, NEW d \in Channels, ring[d] # <<>>,
         ring' = [ring EXCEPT ![d] = Tail(@)]
  PROVE  /\ ring' \in [Channels -> Seq(Frame)]
         /\ \A c \in Channels : /\ Len(ring'[c]) <= RingLength /\ Sorted(ring'[c])
                                /\ \A i \in DOMAIN ring'[c] : ring'[c][i].ch = c
         /\ Head(ring[d]) \in Frame /\ Head(ring[d]) \in InRings /\ InRings' \subseteq InRings
         /\ AllBefore({Head(ring[d])}, InRings')
<1> DEFINE x == Head(ring[d])
<1>1. ring[d] \in Seq(Frame) /\ Sorted(ring[d])
  BY DEF PathInv, OrderInv
<1>2. /\ x \in Frame /\ Tail(ring[d]) \in Seq(Frame) /\ Len(Tail(ring[d])) = Len(ring[d]) - 1
      /\ x \in Range(ring[d]) /\ Range(Tail(ring[d])) \subseteq Range(ring[d])
      /\ \A i \in DOMAIN Tail(ring[d]) :
           i + 1 \in DOMAIN ring[d] /\ Tail(ring[d])[i] = ring[d][i + 1]
      /\ Sorted(Tail(ring[d])) /\ AllBefore({x}, Range(Tail(ring[d])))
  BY <1>1, TailIs
<1> DEFINE t == Tail(ring[d])
<1>3. /\ ring'[d] = t /\ \A c \in Channels : c # d => ring'[c] = ring[c]
      /\ ring' = [ring EXCEPT ![d] = t]
  BY DEF PathInv
<1>4. x.ch = d /\ \A y \in Range(t) : y.ch = d
  BY <1>1, <1>2 DEF PathInv, Range
<1> HIDE DEF t, x
<1>5. \A c \in Channels : Range(ring'[c]) \subseteq Range(ring[c])
  BY <1>2, <1>3 DEF t
<1>6. InRings' \subseteq InRings /\ x \in InRings
  <2>1. x \in Range(ring[d])
    BY <1>2
  <2> QED BY <1>5, <2>1 DEF InRings
<1>7. ring' \in [Channels -> Seq(Frame)]
  BY <1>2, <1>3 DEF PathInv, t
<1>8. ASSUME NEW c \in Channels
      PROVE  /\ Len(ring'[c]) <= RingLength /\ Sorted(ring'[c])
             /\ \A i \in DOMAIN ring'[c] : ring'[c][i].ch = c
  <2>1. CASE c = d
    <3>1. Len(ring[d]) \in Nat /\ Len(t) = Len(ring[d]) - 1 /\ Len(ring[d]) <= RingLength
          /\ RingLength \in Nat
      BY <1>1, <1>2, RxAssumption DEF PathInv, t
    <3>2. Len(t) <= RingLength
      BY <3>1
    <3>3. Sorted(t)
      BY <1>2 DEF t
    <3>4. \A i \in DOMAIN t : t[i].ch = d
      BY <1>4 DEF Range
    <3> QED BY <1>3, <2>1, <3>2, <3>3, <3>4
  <2>2. CASE c # d
    BY <1>3, <2>2 DEF PathInv, OrderInv
  <2> QED BY <2>1, <2>2
<1>9. AllBefore({x}, InRings')
  <2> SUFFICES ASSUME NEW c \in Channels, NEW y \in Range(ring'[c]) PROVE Before(x, y)
    BY DEF AllBefore, InRings
  <2>1. CASE c = d
    BY <1>2, <1>3, <2>1 DEF AllBefore, t
  <2>2. CASE c # d
    <3>1. y.ch = c
      BY <1>8 DEF Range
    <3> QED BY <1>4, <2>2, <3>1 DEF Before
  <2> QED BY <2>1, <2>2
<1> QED BY <1>2, <1>6, <1>7, <1>8, <1>9 DEF x

\* A page goes behind the pages of the buffer.
LEMMA PageIsSent ==
  ASSUME PathInv, OrderInv, page # <<>>, mbuf' = Append(mbuf, page)
  PROVE  /\ mbuf' \in Seq(Seq(Frame)) /\ Len(mbuf') = Len(mbuf) + 1
         /\ \A k \in DOMAIN mbuf' : mbuf'[k] # <<>> /\ Sorted(mbuf'[k])
         /\ InBuffer' = InBuffer \cup Range(page)
         /\ \A k, l \in DOMAIN mbuf' : k < l => AllBefore(Range(mbuf'[k]), Range(mbuf'[l]))
<1>1. /\ mbuf' \in Seq(Seq(Frame)) /\ Len(mbuf') = Len(mbuf) + 1
      /\ \A k \in DOMAIN mbuf' : mbuf'[k] # <<>>
      /\ DOMAIN mbuf' = 1..Len(mbuf) + 1 /\ DOMAIN mbuf = 1..Len(mbuf) /\ Len(mbuf) \in Nat
      /\ \A k \in 1..Len(mbuf) : mbuf'[k] = mbuf[k]
      /\ mbuf'[Len(mbuf) + 1] = page
  <2>1. mbuf \in Seq(Seq(Frame)) /\ page \in Seq(Frame) /\ \A k \in DOMAIN mbuf : mbuf[k] # <<>>
    BY DEF PathInv
  <2> QED BY <2>1, SendIs
<1>2. \A k \in DOMAIN mbuf' : k \in DOMAIN mbuf \/ k = Len(mbuf) + 1
  BY <1>1
<1>3. Len(mbuf) + 1 \in DOMAIN mbuf' /\ \A k \in DOMAIN mbuf : k \in DOMAIN mbuf'
  BY <1>1
<1>4. \A k \in DOMAIN mbuf' : Sorted(mbuf'[k])
  BY <1>1, <1>2 DEF OrderInv
<1>5. InBuffer' = InBuffer \cup Range(page)
  BY <1>1, <1>2, <1>3 DEF InBuffer
<1>6. ASSUME NEW k \in DOMAIN mbuf', NEW l \in DOMAIN mbuf', k < l
      PROVE  AllBefore(Range(mbuf'[k]), Range(mbuf'[l]))
  <2>1. k \in DOMAIN mbuf /\ mbuf'[k] = mbuf[k]
    BY <1>1, <1>6
  <2>2. CASE l \in DOMAIN mbuf
    BY <1>1, <1>6, <2>1, <2>2 DEF OrderInv
  <2>3. CASE l = Len(mbuf) + 1
    <3>1. AllBefore(InBuffer, BehindBuffer) /\ Range(mbuf[k]) \subseteq InBuffer
          /\ Range(page) \subseteq BehindBuffer
      BY <2>1 DEF OrderInv, InBuffer, BehindBuffer
    <3>2. AllBefore(Range(mbuf[k]), Range(page))
      BY <3>1 DEF AllBefore
    <3> QED BY <1>1, <2>1, <2>3, <3>2
  <2> QED BY <1>2, <2>2, <2>3
<1> QED BY <1>1, <1>4, <1>5, <1>6

\* What is behind the page being read, and behind the log, only loses frames.
LEMMA BehindShrinks ==
  ASSUME OrderInv, UNCHANGED <<reading, logged>>, BehindReading' \subseteq BehindReading
  PROVE  /\ AllBefore(Range(reading), BehindReading)' /\ AllBefore(Range(logged), BehindLog)'
         /\ Frames' \subseteq Frames
<1>1. BehindLog' \subseteq BehindLog
  BY DEF BehindLog
<1>2. AllBefore(Range(reading), BehindReading') /\ AllBefore(Range(logged), BehindLog')
  BY <1>1, BeforeSubset DEF OrderInv
<1> QED BY <1>1, <1>2 DEF Frames, AllBefore

LEMMA BridgeWakesKeeps ==
  ASSUME IInv, BridgeWakes
  PROVE  IInv'
<1>1. HwInv' /\ PollInv'
  BY HwKept, PollKept DEF IInv, BridgeWakes, histVars
<1>2. PathInv'
  <2>1. 1 \in 0..NumChannels
    BY RxAssumption
  <2> QED BY <2>1 DEF IInv, PathInv, BridgeWakes, histVars
<1>3. OrderInv' /\ Frames' = Frames
  BY DEF IInv, OrderInv, BridgeWakes, histVars, Frames, BehindLog, BehindReading, BehindBuffer,
         InBuffer, InRings, Sorted
<1>4. FifoInv'
  BY <1>3, FifoKept DEF IInv, BridgeWakes, hwVars, histVars
<1> QED BY <1>1, <1>2, <1>3, <1>4 DEF IInv

LEMMA BridgeNextRingKeeps ==
  ASSUME IInv, BridgeNextRing
  PROVE  IInv'
<1>1. HwInv' /\ PollInv'
  BY HwKept, PollKept DEF IInv, BridgeNextRing, histVars
<1>2. PathInv'
  <2>1. draining' \in 0..NumChannels
    BY RxAssumption DEF IInv, PathInv, BridgeNextRing
  <2> QED BY <2>1 DEF IInv, PathInv, BridgeNextRing, histVars
<1>3. OrderInv' /\ Frames' = Frames
  BY DEF IInv, OrderInv, BridgeNextRing, histVars, Frames, BehindLog, BehindReading, BehindBuffer,
         InBuffer, InRings, Sorted
<1>4. FifoInv'
  BY <1>3, FifoKept DEF IInv, BridgeNextRing, hwVars, histVars
<1> QED BY <1>1, <1>2, <1>3, <1>4 DEF IInv

\* Wherever the frame goes, it stays behind what came before it.
LEMMA BridgeMovesFrameKeeps ==
  ASSUME IInv, BridgeMovesFrame
  PROVE  IInv'
<1> DEFINE x == Head(ring[draining])
<1>1. HwInv /\ FifoInv /\ PathInv /\ OrderInv /\ PollInv
  BY DEF IInv
<1>2. draining \in Channels /\ ring[draining] # <<>> /\ ring' = [ring EXCEPT ![draining] = Tail(@)]
  BY <1>1 DEF BridgeMovesFrame, PathInv, Channels
<1>3. /\ ring' \in [Channels -> Seq(Frame)]
      /\ \A c \in Channels : /\ Len(ring'[c]) <= RingLength /\ Sorted(ring'[c])
                             /\ \A i \in DOMAIN ring'[c] : ring'[c][i].ch = c
      /\ x \in Frame /\ x \in InRings /\ InRings' \subseteq InRings
      /\ AllBefore({x}, InRings')
  BY <1>1, <1>2, PopIs
<1>4. UNCHANGED <<hwVars, seqIndex, notified, draining, reading, pollVars,
                  managerCount, framesLost, histVars>>
  BY DEF BridgeMovesFrame
<1>5. \/ Len(page) < PageFrames /\ page' = Append(page, x) /\ UNCHANGED <<mbuf, drops>>
      \/ /\ Len(page) = PageFrames /\ Len(mbuf) < MaxPages
         /\ mbuf' = Append(mbuf, page) /\ page' = <<x>> /\ UNCHANGED drops
      \/ drops' = drops \cup {"port"} /\ UNCHANGED <<mbuf, page>>
  BY DEF BridgeMovesFrame
<1>6. HwInv'
  BY <1>1, <1>4, HwKept DEF histVars
<1>7. PollInv'
  <2>1. bridgeCount' = bridgeCount + 1
    BY DEF BridgeMovesFrame
  <2>2. drops' \subseteq drops \cup {"port"}
    BY <1>5
  <2>3. bridgeCount' \in Nat
    BY <1>1, <2>1 DEF PollInv
  <2> QED BY <1>1, <1>4, <2>2, <2>3 DEF PollInv, pollVars
<1>8. PageFrames \in Nat \ {0} /\ MaxPages \in Nat
  BY RxAssumption
<1> HIDE DEF x
<1>9. AllBefore(Range(page), InRings) /\ AllBefore(InBuffer, BehindBuffer)
  BY <1>1 DEF OrderInv
<1>10. x \in BehindBuffer /\ InRings' \subseteq BehindBuffer /\ Range(page) \subseteq BehindBuffer
  BY <1>3 DEF BehindBuffer
<1>11. AllBefore(Range(page), {x}) /\ AllBefore(Range(page), InRings')
  BY <1>3, <1>9, BeforeSubset
\* the page, the buffer and what is behind them
<1>12. /\ page' \in Seq(Frame) /\ Len(page') <= PageFrames /\ Sorted(page')
       /\ mbuf' \in Seq(Seq(Frame)) /\ Len(mbuf') <= MaxPages
       /\ \A k \in DOMAIN mbuf' : mbuf'[k] # <<>> /\ Sorted(mbuf'[k])
       /\ \A k, l \in DOMAIN mbuf' : k < l => AllBefore(Range(mbuf'[k]), Range(mbuf'[l]))
       /\ AllBefore(Range(page'), InRings')
       /\ AllBefore(InBuffer', Range(page') \cup InRings')
       /\ InBuffer' \cup Range(page') \cup InRings' \subseteq BehindReading
  <2>0. page \in Seq(Frame) /\ Len(page) \in Nat /\ Sorted(page) /\ Len(page) <= PageFrames
        /\ mbuf \in Seq(Seq(Frame)) /\ Len(mbuf) \in Nat
    BY <1>1 DEF PathInv, OrderInv
  <2>a. CASE Len(page) < PageFrames /\ page' = Append(page, x) /\ UNCHANGED <<mbuf, drops>>
    <3>1. /\ page' \in Seq(Frame) /\ Len(page') = Len(page) + 1
          /\ Range(page') = Range(page) \cup {x} /\ Sorted(page')
      BY <1>3, <1>11, <2>0, <2>a, AppendIs
    <3>2. Len(page') <= PageFrames
      BY <1>8, <2>0, <2>a, <3>1
    <3>3. AllBefore(Range(page'), InRings')
      BY <1>3, <1>11, <3>1, BeforeUnion
    <3>4. InBuffer' = InBuffer /\ Range(page') \cup InRings' \subseteq BehindBuffer
      BY <1>10, <2>a, <3>1 DEF InBuffer
    <3>5. AllBefore(InBuffer', Range(page') \cup InRings')
      BY <1>9, <3>4, BeforeSubset
    <3>6. /\ \A k \in DOMAIN mbuf : mbuf[k] # <<>> /\ Sorted(mbuf[k])
          /\ \A k, l \in DOMAIN mbuf : k < l => AllBefore(Range(mbuf[k]), Range(mbuf[l]))
          /\ Len(mbuf) <= MaxPages
      BY <1>1 DEF PathInv, OrderInv
    <3>7. mbuf' = mbuf
      BY <2>a
    <3> QED BY <2>0, <3>1, <3>2, <3>3, <3>4, <3>5, <3>6, <3>7 DEF BehindReading
  <2>b. CASE /\ Len(page) = PageFrames /\ Len(mbuf) < MaxPages
             /\ mbuf' = Append(mbuf, page) /\ page' = <<x>> /\ UNCHANGED drops
    <3>1. page # <<>>
      BY <1>8, <2>0, <2>b
    <3>2. /\ mbuf' \in Seq(Seq(Frame)) /\ Len(mbuf') = Len(mbuf) + 1
          /\ \A k \in DOMAIN mbuf' : mbuf'[k] # <<>> /\ Sorted(mbuf'[k])
          /\ InBuffer' = InBuffer \cup Range(page)
          /\ \A k, l \in DOMAIN mbuf' : k < l => AllBefore(Range(mbuf'[k]), Range(mbuf'[l]))
      BY <1>1, <2>b, <3>1, PageIsSent
    <3>3. /\ page' \in Seq(Frame) /\ Len(page') = 1 /\ Range(page') = {x} /\ Sorted(page')
      <4>1. page' = Append(<<>>, x)
        BY <2>b
      <4>2. AllBefore(Range(<<>>), {x})
        BY EmptyIs DEF AllBefore
      <4>3. /\ page' \in Seq(Frame) /\ Len(page') = Len(<<>>) + 1
            /\ Range(page') = Range(<<>>) \cup {x} /\ Sorted(page')
        BY <1>3, <4>1, <4>2, EmptyIs, AppendIs
      <4> QED BY <4>3, EmptyIs
    <3>4. Len(page') <= PageFrames /\ Len(mbuf') <= MaxPages
      BY <1>8, <2>0, <2>b, <3>2, <3>3
    <3>5. AllBefore(InBuffer', {x} \cup InRings')
      <4>1. AllBefore(InBuffer, {x} \cup InRings')
        <5>1. {x} \cup InRings' \subseteq BehindBuffer
          BY <1>10
        <5> QED BY <1>9, <5>1, BeforeSubset
      <4>2. AllBefore(Range(page), {x} \cup InRings')
        BY <1>11 DEF AllBefore
      <4> QED BY <3>2, <4>1, <4>2, BeforeUnion
    <3>6. InBuffer' \cup Range(page') \cup InRings' \subseteq BehindReading
      BY <1>10, <3>2, <3>3 DEF BehindReading
    <3> QED BY <1>3, <3>2, <3>3, <3>4, <3>5, <3>6
  <2>c. CASE drops' = drops \cup {"port"} /\ UNCHANGED <<mbuf, page>>
    <3>1. InBuffer' = InBuffer /\ Range(page) \cup InRings' \subseteq BehindBuffer
      BY <1>10, <2>c DEF InBuffer
    <3>2. AllBefore(InBuffer', Range(page) \cup InRings')
      BY <1>9, <3>1, BeforeSubset
    <3>3. /\ \A k \in DOMAIN mbuf : mbuf[k] # <<>> /\ Sorted(mbuf[k])
          /\ \A k, l \in DOMAIN mbuf : k < l => AllBefore(Range(mbuf[k]), Range(mbuf[l]))
          /\ Len(mbuf) <= MaxPages
      BY <1>1 DEF PathInv, OrderInv
    <3>4. mbuf' = mbuf /\ page' = page
      BY <2>c
    <3> QED BY <1>11, <2>0, <3>1, <3>2, <3>3, <3>4 DEF BehindReading
  <2> QED BY <1>5, <2>a, <2>b, <2>c
<1>13. PathInv'
  BY <1>1, <1>3, <1>4, <1>12 DEF PathInv, histVars
<1>14. reading' = reading /\ logged' = logged
  BY <1>4 DEF histVars
<1>15. BehindReading' \subseteq BehindReading
  BY <1>12 DEF BehindReading, BehindBuffer
<1>16. /\ AllBefore(Range(reading), BehindReading)' /\ AllBefore(Range(logged), BehindLog)'
       /\ Frames' \subseteq Frames
  BY <1>1, <1>14, <1>15, BehindShrinks
<1>17. OrderInv'
  <2>1. AllBefore(InBuffer, BehindBuffer)' /\ AllBefore(Range(page), InRings)'
    BY <1>12 DEF BehindBuffer, AllBefore
  <2>2. Sorted(logged)' /\ Sorted(reading)'
    BY <1>1, <1>14 DEF OrderInv, Sorted
  <2>3. /\ Sorted(page)' /\ (\A k \in DOMAIN mbuf : Sorted(mbuf[k]))'
        /\ (\A c \in Channels : Sorted(ring[c]))'
        /\ (\A k, l \in DOMAIN mbuf : k < l => AllBefore(Range(mbuf[k]), Range(mbuf[l])))'
    BY <1>3, <1>12 DEF Sorted, AllBefore
  <2> QED BY <1>16, <2>1, <2>2, <2>3 DEF OrderInv
<1>18. FifoInv'
  BY <1>1, <1>4, <1>16, FifoKept DEF hwVars, histVars
<1> QED BY <1>6, <1>7, <1>13, <1>17, <1>18 DEF IInv

LEMMA BridgeKeeps ==
  ASSUME IInv, Bridge
  PROVE  IInv'
BY BridgeWakesKeeps, BridgeMovesFrameKeeps, BridgeNextRingKeeps DEF Bridge

-----------------------------------------------------------------------------
(* Core0Task1 and Core0Task0                                               *)

\* Steps that move no frame.
LEMMA NoFrameMoves ==
  ASSUME IInv, UNCHANGED <<hwVars, seqIndex, pathVars, arrived, logged>>, PollInv'
  PROVE  IInv'
<1>1. HwInv'
  BY HwKept DEF IInv
<1>2. PathInv' /\ OrderInv' /\ Frames' = Frames
  BY PathKept DEF IInv
<1>3. FifoInv'
  BY <1>2, FifoKept DEF IInv, hwVars
<1> QED BY <1>1, <1>2, <1>3 DEF IInv

LEMMA PollStepsKeep ==
  ASSUME IInv, PollBegins \/ StartBegins \/ StopBegins \/ LoopEnds \/ PollEnds
                 \/ Request \/ Rotation
  PROVE  IInv'
<1>1. UNCHANGED <<hwVars, seqIndex, pathVars, arrived, logged>>
  BY DEF PollBegins, StartBegins, StopBegins, LoopEnds, PollEnds, Request, Rotation, histVars
<1>2. 1 \in Channels
  BY RxAssumption DEF Channels
<1>3. CASE PollBegins
  <2>1. PollInv'
    BY <1>3 DEF IInv, PollInv, PollBegins, checkVars
  <2> QED BY <1>1, <2>1, NoFrameMoves
<1>4. CASE StartBegins
  <2>1. PollInv'
    BY <1>2, <1>4 DEF IInv, PollInv, StartBegins
  <2> QED BY <1>1, <2>1, NoFrameMoves
<1>5. CASE StopBegins
  <2>1. PollInv'
    BY <1>2, <1>5 DEF IInv, PollInv, StopBegins, checkVars
  <2> QED BY <1>1, <2>1, NoFrameMoves
<1>6. CASE LoopEnds
  <2>1. PollInv'
    BY <1>6 DEF IInv, PollInv, LoopEnds, checkVars
  <2> QED BY <1>1, <2>1, NoFrameMoves
<1>7. CASE PollEnds
  <2>1. drops' \subseteq drops \cup {"store", "missing"}
    BY <1>7 DEF PollEnds, SyncEntryDropped
  <2>2. gap' \in [Channels -> BOOLEAN]
    BY <1>7 DEF PollEnds
  <2>3. framesLost' \in BOOLEAN
    <3>1. framesLost' = (framesLost \/ drops' # {} \/ DeltaTooLarge(bridgeCount - managerCount))
      BY <1>7 DEF PollEnds
    <3> QED BY <3>1, Zenon
  <2>4. /\ commitLog' = FALSE /\ pc' = "poll"
        /\ UNCHANGED <<chan, run, runOld, batch, prevSeq, openFailed, bridgeCount, managerCount>>
    BY <1>7 DEF PollEnds
  <2>5. PollInv'
    BY <2>1, <2>2, <2>3, <2>4 DEF IInv, PollInv
  <2> QED BY <1>1, <2>5, NoFrameMoves
<1>8. CASE Request
  <2>1. PollInv'
    BY <1>8 DEF IInv, PollInv, Request, checkVars
  <2> QED BY <1>1, <2>1, NoFrameMoves
<1>9. CASE Rotation
  <2>1. PollInv'
    BY <1>9 DEF IInv, PollInv, Rotation, checkVars
  <2> QED BY <1>1, <2>1, NoFrameMoves
<1> QED BY <1>3, <1>4, <1>5, <1>6, <1>7, <1>8, <1>9

\* A channel that is started or stopped moves no frame on; a stop may empty its FIFO.
LEMMA StartChannelKeeps ==
  ASSUME IInv, StartChannel
  PROVE  IInv'
<1>1. NumChannels \in Nat /\ chan \in 1..NumChannels /\ 1 \in Channels
  BY RxAssumption DEF IInv, PollInv, Channels
<1>2. /\ receiving' \in [Channels -> BOOLEAN] /\ irqOn' \in [Channels -> BOOLEAN]
      /\ driverState' \in [Channels -> {"initialized", "started", "stopped"}]
      /\ run' \in BOOLEAN
  BY DEF StartChannel, IInv, HwInv, PollInv
<1>3. HwInv'
  BY <1>2 DEF IInv, HwInv, StartChannel
<1>4. /\ chan' \in Channels /\ pc' \in {pc, "read"} /\ runOld' \in {runOld, run'}
      /\ batch' \in {batch, 0}
  <2>1. chan < NumChannels => chan + 1 \in Channels
    BY <1>1 DEF Channels
  <2>2. CASE chan < NumChannels
    BY <2>1, <2>2 DEF StartChannel
  <2>3. CASE ~(chan < NumChannels)
    BY <1>1, <2>3 DEF StartChannel
  <2> QED BY <2>2, <2>3
<1>5. UNCHANGED <<commitLog, prevSeq, gap, openFailed, checkVars>>
  BY DEF StartChannel
<1>6. PollInv'
  BY <1>2, <1>4, <1>5 DEF IInv, PollInv, checkVars
<1>7. PathInv' /\ OrderInv' /\ Frames' = Frames
  BY PathKept DEF IInv, StartChannel
<1>8. FifoInv'
  BY <1>7, FifoKept DEF IInv, StartChannel
<1> QED BY <1>3, <1>6, <1>7, <1>8 DEF IInv

LEMMA StopChannelKeeps ==
  ASSUME IInv, StopChannel
  PROVE  IInv'
<1>1. NumChannels \in Nat /\ chan \in 1..NumChannels /\ 1 \in Channels /\ chan \in Channels
      /\ FifoDepth \in Nat
  BY RxAssumption DEF IInv, PollInv, Channels
<1>2. \/ fifo' = fifo
      \/ fifo' = [fifo EXCEPT ![chan] = fifo[chan]]
      \/ fifo' = [fifo EXCEPT ![chan] = <<>>]
  BY DEF StopChannel, hwVars
<1>3. fifo' = fifo \/ fifo' = [fifo EXCEPT ![chan] = <<>>]
  <2>1. [fifo EXCEPT ![chan] = fifo[chan]] = fifo
    BY DEF IInv, HwInv
  <2> QED BY <1>2, <2>1
<1>4. \A c \in Channels : fifo'[c] = fifo[c] \/ fifo'[c] = <<>>
  BY <1>3 DEF IInv, HwInv
<1>5. HwInv'
  <2>1. /\ receiving' \in [Channels -> BOOLEAN] /\ irqOn' \in [Channels -> BOOLEAN]
        /\ watermarked' \in [Channels -> BOOLEAN] /\ overflowed' \in [Channels -> BOOLEAN]
        /\ driverState' \in [Channels -> {"initialized", "started", "stopped"}]
    BY DEF StopChannel, IInv, HwInv, hwVars
  <2>2. <<>> \in Seq(Nat) /\ Len(<<>>) = 0
    OBVIOUS
  <2>3. fifo' \in [Channels -> Seq(Nat)]
    BY <1>1, <1>3, <2>2 DEF IInv, HwInv
  <2>4. \A c \in Channels : Len(fifo'[c]) <= FifoDepth
    BY <1>1, <1>4, <2>2 DEF IInv, HwInv
  <2>5. arrived' = arrived
    BY DEF StopChannel
  <2> QED BY <2>1, <2>3, <2>4, <2>5 DEF IInv, HwInv
<1>6. /\ chan' \in Channels /\ pc' \in {pc, "drain"} /\ runOld' \in {runOld, run}
      /\ commitLog' \in {commitLog, TRUE}
  <2>1. chan < NumChannels => chan + 1 \in Channels
    BY <1>1 DEF Channels
  <2>2. CASE chan < NumChannels
    BY <2>1, <2>2 DEF StopChannel
  <2>3. CASE ~(chan < NumChannels)
    BY <1>1, <2>3 DEF StopChannel
  <2> QED BY <2>2, <2>3
<1>7. UNCHANGED <<run, batch, prevSeq, gap, openFailed, checkVars>>
  BY DEF StopChannel
<1>8. PollInv'
  BY <1>6, <1>7 DEF IInv, PollInv, checkVars
<1>9. PathInv' /\ OrderInv' /\ Frames' = Frames
  BY PathKept DEF IInv, StopChannel
<1>10. FifoInv'
  <2>1. arrived' = arrived
    BY DEF StopChannel
  <2>2. \A c \in Channels : \A i \in DOMAIN fifo'[c] : i \in DOMAIN fifo[c] /\ fifo'[c] = fifo[c]
    <3>1. DOMAIN <<>> = {}
      OBVIOUS
    <3> QED BY <1>4, <3>1
  <2>3. \A c \in Channels : \A i \in DOMAIN fifo'[c] :
          /\ 0 < fifo'[c][i] /\ fifo'[c][i] <= arrived'[c]
          /\ \A j \in DOMAIN fifo'[c] : i < j => fifo'[c][i] < fifo'[c][j]
    BY <2>1, <2>2 DEF IInv, FifoInv
  <2>4. \A f \in Frames : f.ch \in Channels /\ f.n <= arrived[f.ch]
                          /\ \A i \in DOMAIN fifo[f.ch] : f.n < fifo[f.ch][i]
    BY FramesType DEF IInv, FifoInv, Frames, Frame
  <2>5. \A f \in Frames : f.n <= arrived'[f.ch] /\ \A i \in DOMAIN fifo'[f.ch] : f.n < fifo'[f.ch][i]
    BY <2>1, <2>2, <2>4
  <2> QED BY <1>9, <2>3, <2>5 DEF FifoInv, Frames
<1> QED BY <1>5, <1>8, <1>9, <1>10 DEF IInv

LEMMA FlushKeeps ==
  ASSUME IInv, Flush
  PROVE  IInv'
<1>1. HwInv /\ FifoInv /\ PathInv /\ OrderInv /\ PollInv
  BY DEF IInv
<1>2. PollInv'
  BY <1>1 DEF PollInv, Flush, checkVars
<1>3. CASE page = <<>>
  <2>1. UNCHANGED <<hwVars, seqIndex, pathVars, arrived, logged>>
    BY <1>3 DEF Flush, pathVars, histVars
  <2> QED BY <1>2, <2>1, NoFrameMoves
<1>4. CASE page # <<>>
  <2>1. /\ mbuf' = Append(mbuf, page) /\ page' = <<>> /\ Len(mbuf) < MaxPages
        /\ UNCHANGED <<hwVars, seqIndex, ring, notified, draining, reading, histVars>>
    BY <1>4 DEF Flush
  <2>2. /\ mbuf' \in Seq(Seq(Frame)) /\ Len(mbuf') = Len(mbuf) + 1
        /\ \A k \in DOMAIN mbuf' : mbuf'[k] # <<>> /\ Sorted(mbuf'[k])
        /\ InBuffer' = InBuffer \cup Range(page)
        /\ \A k, l \in DOMAIN mbuf' : k < l => AllBefore(Range(mbuf'[k]), Range(mbuf'[l]))
    BY <1>1, <1>4, <2>1, PageIsSent
  <2>3. /\ page' \in Seq(Frame) /\ Len(page') = 0 /\ Range(page') = {} /\ Sorted(page')
        /\ InRings' = InRings
    BY <2>1, EmptyIs DEF InRings
  <2>4. PathInv'
    <3>1. Len(mbuf') <= MaxPages /\ Len(page') <= PageFrames
      <4>1. Len(mbuf) \in Nat /\ MaxPages \in Nat /\ PageFrames \in Nat
        BY <1>1, RxAssumption DEF PathInv
      <4> QED BY <2>1, <2>2, <2>3, <4>1
    <3> QED BY <1>1, <2>1, <2>2, <2>3, <3>1 DEF PathInv, histVars
  <2>5. AllBefore(InBuffer', BehindBuffer')
    <3>1. AllBefore(InBuffer, InRings) /\ AllBefore(Range(page), InRings)
      BY <1>1 DEF OrderInv, BehindBuffer, AllBefore
    <3>2. BehindBuffer' = InRings
      BY <2>3 DEF BehindBuffer
    <3> QED BY <2>2, <3>1, <3>2, BeforeUnion
  <2>6. BehindReading' \subseteq BehindReading
    BY <2>2, <2>3 DEF BehindReading, BehindBuffer
  <2>7. reading' = reading /\ logged' = logged
    BY <2>1 DEF histVars
  <2>8. /\ AllBefore(Range(reading), BehindReading)' /\ AllBefore(Range(logged), BehindLog)'
        /\ Frames' \subseteq Frames
    BY <1>1, <2>6, <2>7, BehindShrinks
  <2>9. OrderInv'
    <3>1. AllBefore(InBuffer, BehindBuffer)' /\ AllBefore(Range(page), InRings)'
      BY <2>3, <2>5 DEF AllBefore
    <3>2. Sorted(logged)' /\ Sorted(reading)' /\ (\A c \in Channels : Sorted(ring[c]))'
      BY <1>1, <2>1, <2>7 DEF OrderInv, Sorted
    <3>3. /\ Sorted(page)' /\ (\A k \in DOMAIN mbuf : Sorted(mbuf[k]))'
          /\ (\A k, l \in DOMAIN mbuf : k < l => AllBefore(Range(mbuf[k]), Range(mbuf[l])))'
      BY <2>2, <2>3 DEF Sorted, AllBefore
    <3> QED BY <2>8, <3>1, <3>2, <3>3 DEF OrderInv
  <2>10. FifoInv'
    BY <1>1, <2>1, <2>8, FifoKept DEF hwVars, histVars
  <2>11. HwInv'
    BY <1>1, <2>1, HwKept DEF histVars
  <2> QED BY <1>2, <2>4, <2>9, <2>10, <2>11 DEF IInv
<1> QED BY <1>3, <1>4

\* The page the ingest loop reads from: the one it has begun, or the buffer's first.
Current == IF reading # <<>> THEN reading ELSE Head(mbuf)

\* It is in front of the rest, in order.
LEMMA CurrentIs ==
  ASSUME PathInv, OrderInv, reading # <<>> \/ mbuf # <<>>,
         mbuf' = IF reading # <<>> THEN mbuf ELSE Tail(mbuf),
         UNCHANGED <<ring, page>>
  PROVE  /\ Current \in Seq(Frame) /\ Current # <<>> /\ Sorted(Current)
         /\ mbuf' \in Seq(Seq(Frame)) /\ Len(mbuf') <= MaxPages
         /\ \A k \in DOMAIN mbuf' : mbuf'[k] # <<>> /\ Sorted(mbuf'[k])
         /\ \A k, l \in DOMAIN mbuf' : k < l => AllBefore(Range(mbuf'[k]), Range(mbuf'[l]))
         /\ AllBefore(InBuffer', BehindBuffer') /\ BehindBuffer' = BehindBuffer
         /\ AllBefore(Range(Current), BehindReading')
         /\ Range(Current) \cup BehindReading' \subseteq BehindLog
<1>1. BehindBuffer' = BehindBuffer
  BY DEF BehindBuffer, InRings
<1>2. CASE reading # <<>>
  <2>1. Current = reading /\ mbuf' = mbuf
    BY <1>2 DEF Current
  <2>2. InBuffer' = InBuffer
    BY <2>1 DEF InBuffer
  <2>3. BehindReading' = BehindReading
    BY <1>1, <2>2 DEF BehindReading
  <2>4. AllBefore(InBuffer, BehindBuffer) /\ AllBefore(Range(reading), BehindReading)
    BY DEF OrderInv
  <2>5. /\ \A k \in DOMAIN mbuf : mbuf[k] # <<>> /\ Sorted(mbuf[k])
        /\ \A k, l \in DOMAIN mbuf : k < l => AllBefore(Range(mbuf[k]), Range(mbuf[l]))
        /\ mbuf \in Seq(Seq(Frame)) /\ Len(mbuf) <= MaxPages
        /\ reading \in Seq(Frame) /\ Sorted(reading)
    BY DEF OrderInv, PathInv
  <2>6. AllBefore(InBuffer', BehindBuffer') /\ AllBefore(Range(Current), BehindReading')
    BY <1>1, <2>1, <2>2, <2>3, <2>4
  <2>7. Range(Current) \cup BehindReading' \subseteq BehindLog
    BY <2>1, <2>3 DEF BehindLog
  <2> QED BY <1>1, <1>2, <2>1, <2>5, <2>6, <2>7
<1>3. CASE reading = <<>>
  <2>1. Current = Head(mbuf) /\ mbuf' = Tail(mbuf) /\ mbuf # <<>>
    BY <1>3 DEF Current
  <2>2. /\ mbuf' \in Seq(Seq(Frame)) /\ Len(mbuf') <= Len(mbuf)
        /\ \A k \in DOMAIN mbuf' :
             k + 1 \in DOMAIN mbuf /\ mbuf'[k] = mbuf[k + 1] /\ mbuf'[k] # <<>>
        /\ DOMAIN mbuf' \subseteq Nat /\ 1 \in DOMAIN mbuf
        /\ Current = mbuf[1] /\ Current \in Seq(Frame) /\ Current # <<>>
    <3>1. mbuf \in Seq(Seq(Frame)) /\ \A k \in DOMAIN mbuf : mbuf[k] # <<>>
      BY DEF PathInv
    <3> QED BY <2>1, <3>1, FetchIs
  <2>3. Len(mbuf') <= MaxPages
    <3>1. Len(mbuf) \in Nat /\ Len(mbuf) <= MaxPages /\ MaxPages \in Nat /\ Len(mbuf') \in Nat
      BY <2>2, RxAssumption DEF PathInv
    <3> QED BY <2>2, <3>1
  <2>4. Sorted(Current) /\ \A k \in DOMAIN mbuf' : Sorted(mbuf'[k])
    BY <2>2 DEF OrderInv
  <2>5. ASSUME NEW k \in DOMAIN mbuf', NEW l \in DOMAIN mbuf', k < l
        PROVE  AllBefore(Range(mbuf'[k]), Range(mbuf'[l]))
    <3>1. k + 1 < l + 1
      BY <2>2, <2>5
    <3> QED BY <2>2, <3>1 DEF OrderInv
  <2>6. ASSUME NEW k \in DOMAIN mbuf'
        PROVE  AllBefore(Range(Current), Range(mbuf'[k])) /\ Range(mbuf'[k]) \subseteq InBuffer
    <3>1. 1 < k + 1
      <4>1. k \in Nat /\ k # 0
        <5>1. DOMAIN mbuf' = 1..Len(mbuf')
          BY <2>2
        <5> QED BY <2>2, <5>1
      <4> QED BY <4>1
    <3> QED BY <2>2, <3>1 DEF OrderInv, InBuffer
  <2>7. /\ InBuffer' \subseteq InBuffer /\ Range(Current) \subseteq InBuffer
        /\ AllBefore(Range(Current), InBuffer')
    <3>1. InBuffer' = UNION {Range(mbuf'[k]) : k \in DOMAIN mbuf'}
      BY DEF InBuffer
    <3>2. Range(Current) \subseteq InBuffer
      BY <2>2 DEF InBuffer
    <3>3. \A y \in InBuffer' : \E k \in DOMAIN mbuf' : y \in Range(mbuf'[k])
      BY <3>1
    <3>4. \A y \in InBuffer' : y \in InBuffer /\ AllBefore(Range(Current), {y})
      BY <2>6, <3>3 DEF AllBefore
    <3> QED BY <3>2, <3>4 DEF AllBefore
  <2>8. AllBefore(InBuffer, BehindBuffer)
    BY DEF OrderInv
  <2>9. AllBefore(InBuffer', BehindBuffer') /\ AllBefore(Range(Current), BehindBuffer')
    BY <1>1, <2>7, <2>8, BeforeSubset
  <2>10. AllBefore(Range(Current), BehindReading')
    BY <2>7, <2>9 DEF BehindReading, AllBefore
  <2>11. Range(Current) \cup BehindReading' \subseteq BehindLog
    BY <1>1, <2>7 DEF BehindReading, BehindLog
  <2> QED BY <1>1, <2>2, <2>3, <2>4, <2>5, <2>9, <2>10, <2>11
<1> QED BY <1>2, <1>3

LEMMA IngestKeeps ==
  ASSUME IInv, Ingest
  PROVE  IInv'
<1> DEFINE x == Head(Current)
<1>1. HwInv /\ FifoInv /\ PathInv /\ OrderInv /\ PollInv
  BY DEF IInv
<1>2. reading # <<>> \/ mbuf # <<>>
  BY DEF Ingest, Blocked
<1>3. /\ reading' = Tail(Current)
      /\ mbuf' = IF reading # <<>> THEN mbuf ELSE Tail(mbuf)
      /\ gap' = [gap EXCEPT ![x.ch] = @ \/ x.seq # prevSeq[x.ch] + 1]
      /\ prevSeq' = [prevSeq EXCEPT ![x.ch] = x.seq]
      /\ managerCount' = managerCount + 1 /\ batch' = batch + 1
      /\ \/ /\ logged' = Append(logged, x) /\ drops' \in SyncEntryDropped
            /\ IF openFailed THEN run' = FALSE /\ pc' = "end" ELSE UNCHANGED <<run, pc>>
         \/ drops' = drops \cup {"store"} /\ run' = FALSE /\ pc' = "end" /\ UNCHANGED logged
  BY DEF Ingest, NextOfPage, Current
<1>4. UNCHANGED <<hwVars, seqIndex, ring, notified, draining, page, chan, runOld,
                  commitLog, openFailed, bridgeCount, framesLost, arrived>>
  BY DEF Ingest
<1>5. /\ Current \in Seq(Frame) /\ Current # <<>> /\ Sorted(Current)
      /\ mbuf' \in Seq(Seq(Frame)) /\ Len(mbuf') <= MaxPages
      /\ \A k \in DOMAIN mbuf' : mbuf'[k] # <<>> /\ Sorted(mbuf'[k])
      /\ \A k, l \in DOMAIN mbuf' : k < l => AllBefore(Range(mbuf'[k]), Range(mbuf'[l]))
      /\ AllBefore(InBuffer', BehindBuffer') /\ BehindBuffer' = BehindBuffer
      /\ AllBefore(Range(Current), BehindReading')
      /\ Range(Current) \cup BehindReading' \subseteq BehindLog
  BY <1>1, <1>2, <1>3, <1>4, CurrentIs
<1>6. /\ x \in Frame /\ Tail(Current) \in Seq(Frame)
      /\ x \in Range(Current) /\ Range(Tail(Current)) \subseteq Range(Current)
      /\ Sorted(Tail(Current)) /\ AllBefore({x}, Range(Tail(Current)))
  BY <1>5, TailIs
<1> HIDE DEF x
<1>7. HwInv'
  BY <1>1, <1>4, HwKept
<1>8. PollInv'
  <2>1. x.ch \in Channels /\ x.seq \in Nat
    BY <1>6 DEF Frame
  <2>2. prevSeq' \in [Channels -> Nat]
    BY <1>1, <1>3, <2>1 DEF PollInv
  <2>3. gap' \in [Channels -> BOOLEAN]
    BY <1>1, <1>3, <2>1 DEF PollInv
  <2>4. drops' \subseteq drops \cup {"store"}
    BY <1>3 DEF SyncEntryDropped
  <2>5. run' \in BOOLEAN /\ pc' \in {pc, "end"}
    BY <1>1, <1>3 DEF PollInv
  <2>6. managerCount' \in Nat /\ batch' \in Nat
    BY <1>1, <1>3 DEF PollInv
  <2> QED BY <1>1, <1>4, <2>2, <2>3, <2>4, <2>5, <2>6 DEF PollInv
\* the log and what is left of the page being read
<1>9. logged' = logged \/ logged' = Append(logged, x)
  BY <1>3
<1>10. /\ AllBefore(Range(logged), Range(Current) \cup BehindReading')
       /\ logged \in Seq(Frame) /\ Sorted(logged)
  BY <1>1, <1>5, BeforeSubset DEF OrderInv, PathInv
<1>11. /\ reading' \in Seq(Frame) /\ Sorted(reading') /\ Range(reading') \subseteq Range(Current)
       /\ AllBefore(Range(reading'), BehindReading')
  BY <1>3, <1>5, <1>6, BeforeSubset
<1>12. BehindLog' = Range(reading') \cup BehindReading'
  BY DEF BehindLog
<1>13. AllBefore({x}, BehindLog')
  <2>1. AllBefore({x}, Range(reading'))
    BY <1>3, <1>6
  <2>2. AllBefore({x}, BehindReading')
    BY <1>5, <1>6, BeforeSubset
  <2> QED BY <1>12, <2>1, <2>2 DEF AllBefore
<1>14. AllBefore(Range(logged), BehindLog') /\ AllBefore(Range(logged), {x})
  <2>1. BehindLog' \subseteq Range(Current) \cup BehindReading'
    BY <1>11, <1>12
  <2> QED BY <1>6, <1>10, <2>1, BeforeSubset
<1>15. /\ logged' \in Seq(Frame) /\ Sorted(logged') /\ AllBefore(Range(logged'), BehindLog')
       /\ Range(logged') \subseteq Range(logged) \cup {x}
  <2>1. CASE logged' = logged
    BY <1>10, <1>14, <2>1
  <2>2. CASE logged' = Append(logged, x)
    <3>1. logged' \in Seq(Frame) /\ Range(logged') = Range(logged) \cup {x} /\ Sorted(logged')
      BY <1>6, <1>10, <1>14, <2>2, AppendIs
    <3> QED BY <1>13, <1>14, <3>1, BeforeUnion
  <2> QED BY <1>9, <2>1, <2>2
<1>16. PathInv'
  BY <1>1, <1>4, <1>5, <1>11, <1>15 DEF PathInv
<1>17. OrderInv'
  <2>1. Sorted(page)' /\ (\A c \in Channels : Sorted(ring[c]))' /\ AllBefore(Range(page), InRings)'
    BY <1>1, <1>4 DEF OrderInv, Sorted, InRings
  <2>2. /\ Sorted(logged)' /\ Sorted(reading)' /\ (\A k \in DOMAIN mbuf : Sorted(mbuf[k]))'
        /\ (\A k, l \in DOMAIN mbuf : k < l => AllBefore(Range(mbuf[k]), Range(mbuf[l])))'
    BY <1>5, <1>11, <1>15 DEF Sorted, AllBefore
  <2>3. /\ AllBefore(InBuffer, BehindBuffer)' /\ AllBefore(Range(reading), BehindReading)'
        /\ AllBefore(Range(logged), BehindLog)'
    BY <1>5, <1>11, <1>15 DEF AllBefore
  <2> QED BY <2>1, <2>2, <2>3 DEF OrderInv
<1>18. Frames' \subseteq Frames
  <2>1. BehindLog' \subseteq BehindLog
    BY <1>5, <1>11, <1>12
  <2> QED BY <1>5, <1>6, <1>15, <2>1 DEF Frames
<1>19. FifoInv'
  BY <1>1, <1>4, <1>18, FifoKept DEF hwVars
<1> QED BY <1>7, <1>8, <1>16, <1>17, <1>19 DEF IInv

LEMMA Core0Task1Keeps ==
  ASSUME IInv, Core0Task1
  PROVE  IInv'
BY PollStepsKeep, StartChannelKeeps, StopChannelKeeps, DrainKeeps, FlushKeeps, IngestKeeps
   DEF Core0Task1

-----------------------------------------------------------------------------
(* The commit at the end of a recording                                    *)

Quiet(c) == ~irqOn[c] /\ ~receiving[c]

\* Frames in a ring are announced, or the bridge will come to that ring.
RingsServed ==
  \A c \in Channels : ring[c] # <<>> => notified \/ (draining # 0 /\ draining <= c)

\* A driver that does not believe to be started has a controller that is quiet.
DriversKnow == faults = 0 => \A c \in Channels : driverState[c] = "started" \/ Quiet(c)

\* The stop of a recording silences one controller after the other.
StopInv ==
  /\ faults \in Nat
  /\ commitLog => pc \in {"drain", "flush", "read", "end"}
  /\ pc \in {"stop", "drain"} => ~run
  /\ faults = 0 /\ pc = "stop" => \A c \in Channels : c < chan => Quiet(c)
  /\ faults = 0 /\ (pc = "drain" \/ commitLog) => \A c \in Channels : Quiet(c)

\* Nothing is left in front of the message buffer.
NothingBefore == page = <<>> /\ draining = 0 /\ ~notified

\* Behind the flush only the buffer and its page are left, and behind the loop not
\* even they, unless it ended for another reason.  A new start is requested when
\* nothing is left, or while the flush waits for ever.
EmptyInv ==
  /\ pc = "flush" /\ run => page # <<>> /\ Len(mbuf) = MaxPages
  /\ faults = 0 /\ commitLog /\ pc = "read" =>
       NothingBefore /\ (run => reading = <<>> /\ mbuf = <<>>)
  /\ faults = 0 /\ commitLog /\ pc = "end" /\ "store" \notin drops /\ ~openFailed =>
       NothingBefore /\ reading = <<>> /\ mbuf = <<>>

CommitInv == RingsServed /\ DriversKnow /\ StopInv /\ EmptyInv

\* The variables that CommitInv speaks of.
commitVars == <<ring, notified, draining, irqOn, receiving, driverState, pc, chan, run,
                commitLog, page, mbuf, reading, openFailed, drops, faults>>

LEMMA CommitKept ==
  ASSUME CommitInv, UNCHANGED commitVars
  PROVE  CommitInv'
BY DEF CommitInv, commitVars, RingsServed, DriversKnow, StopInv, EmptyInv, NothingBefore, Quiet

\* Behind the stop no controller interrupts, and behind the flush no bridge runs.
LEMMA NobodyRuns ==
  ASSUME CommitInv, faults = 0, commitLog
  PROVE  /\ \A c \in Channels : ~Raised(c)
         /\ pc = "read" \/ (pc = "end" /\ "store" \notin drops /\ ~openFailed)
              => draining = 0 /\ ~notified
BY DEF CommitInv, StopInv, EmptyInv, NothingBefore, Quiet, Raised

LEMMA CommitFrameArrives ==
  ASSUME CommitInv, NEW c \in Channels, FrameArrives(c)
  PROVE  CommitInv'
<1>1. UNCHANGED commitVars
  BY DEF FrameArrives, commitVars, pathVars, pollVars, checkVars
<1> QED BY <1>1, CommitKept

\* A ring that is given nothing stays as it is.
LEMMA NothingPut ==
  ASSUME NEW c \in Channels, NEW num \in Seq(Nat), Len(num) = 0, PathInv
  PROVE  PutAll(c, num) = ring[c]
<1> DEFINE room == AtMost(Len(num), RingLength - Len(ring[c]))
<1>1. ring[c] \in Seq(Frame) /\ Len(ring[c]) \in Nat /\ RingLength \in Nat
      /\ Len(ring[c]) <= RingLength
  BY RxAssumption DEF PathInv
<1>2. room = 0
  BY <1>1 DEF AtMost
<1>3. PutAll(c, num) = ring[c] \o [i \in 1..room |->
                [ch |-> c, n |-> num[i], seq |-> seqIndex[c] + i]]
  BY DEF PutAll
<1> HIDE DEF room
<1>4. [i \in 1..room |-> [ch |-> c, n |-> num[i], seq |-> seqIndex[c] + i]] = <<>>
  BY <1>2
<1> QED BY <1>1, <1>3, <1>4, ConcatEmptySeq

LEMMA CommitRxInterrupt ==
  ASSUME IInv, CommitInv, NEW c \in Channels, RxInterrupt(c)
  PROVE  CommitInv'
<1>1. HwInv /\ FifoInv /\ PathInv
  BY DEF IInv
<1>2. /\ ring' = [d \in Channels |-> PutAll(d, SubSeq(fifo[d], 1, Taken(d)))]
      /\ irqOn' = [d \in Channels |-> irqOn[d] \/ Taken(d) > 0]
      /\ notified' = (notified \/ \E d \in Channels : Taken(d) > 0)
      /\ drops \subseteq drops'
      /\ UNCHANGED <<receiving, driverState, draining, page, mbuf, reading, pc, chan, run,
                     commitLog, openFailed, faults>>
  BY DEF RxInterrupt, pollVars, histVars
<1>3. ASSUME NEW d \in Channels
      PROVE  Taken(d) = 0 => ring'[d] = ring[d]
  <2>1. SubSeq(fifo[d], 1, Taken(d)) \in Seq(Nat) /\ DOMAIN SubSeq(fifo[d], 1, Taken(d)) = 1..Taken(d)
    BY <1>1, TakenIs
  <2>2. Taken(d) = 0 => Len(SubSeq(fifo[d], 1, Taken(d))) = 0
    BY <2>1
  <2> QED BY <1>1, <1>2, <2>1, <2>2, NothingPut
<1>4. \A d \in Channels : Taken(d) \in Nat
  BY <1>1, TakenIs
<1>5. RingsServed'
  <2> SUFFICES ASSUME NEW d \in Channels, ring'[d] # <<>>, ~notified'
               PROVE  draining # 0 /\ draining <= d
    BY <1>2 DEF RingsServed
  <2>1. Taken(d) = 0 /\ ~notified
    <3>1. ~notified /\ ~(Taken(d) > 0)
      BY <1>2, Zenon
    <3>2. Taken(d) \in Nat
      BY <1>4
    <3> QED BY <3>1, <3>2
  <2> QED BY <1>3, <2>1 DEF CommitInv, RingsServed
<1>6. ASSUME NEW d \in Channels, Quiet(d)
      PROVE  Quiet(d)'
  <2>1. Taken(d) = 0
    BY <1>6 DEF Quiet, Taken
  <2>2. irqOn'[d] = (irqOn[d] \/ Taken(d) > 0)
    BY <1>2
  <2>3. ~irqOn'[d]
    <3>1. ~(Taken(d) > 0)
      BY <2>1
    <3> QED BY <1>6, <2>2, <3>1, Zenon DEF Quiet
  <2> QED BY <1>2, <1>6, <2>3 DEF Quiet
<1>7. DriversKnow'
  BY <1>2, <1>6 DEF CommitInv, DriversKnow
<1>8. StopInv'
  <2>1. faults \in Nat /\ (commitLog => pc \in {"drain", "flush", "read", "end"})
        /\ (pc \in {"stop", "drain"} => ~run)
    BY DEF CommitInv, StopInv
  <2>2. /\ faults = 0 /\ pc = "stop" => \A d \in Channels : d < chan => Quiet(d)
        /\ faults = 0 /\ (pc = "drain" \/ commitLog) => \A d \in Channels : Quiet(d)
    BY DEF CommitInv, StopInv
  <2>3. faults' = faults /\ pc' = pc /\ chan' = chan /\ commitLog' = commitLog /\ run' = run
    BY <1>2
  <2>4. /\ faults' = 0 /\ pc' = "stop" => \A d \in Channels : d < chan' => Quiet(d)'
        /\ faults' = 0 /\ (pc' = "drain" \/ commitLog') => \A d \in Channels : Quiet(d)'
    BY <1>6, <2>2, <2>3
  <2> QED BY <2>1, <2>3, <2>4 DEF StopInv
<1>9. EmptyInv'
  <2>1. ~(faults = 0 /\ commitLog)
    BY NobodyRuns DEF RxInterrupt
  <2>2. pc = "flush" /\ run => page # <<>> /\ Len(mbuf) = MaxPages
    BY DEF CommitInv, EmptyInv
  <2> QED BY <1>2, <2>1, <2>2 DEF EmptyInv
<1> QED BY <1>5, <1>7, <1>8, <1>9 DEF CommitInv

\* The bridge runs on to the ring that is not empty; at the end of a commit it does not run.
LEMMA CommitBridge ==
  ASSUME IInv, CommitInv, Bridge
  PROVE  CommitInv'
<1>1. HwInv /\ PathInv /\ NumChannels \in Nat
  BY RxAssumption DEF IInv
<1>2. /\ draining # 0 \/ notified
      /\ UNCHANGED <<irqOn, receiving, driverState, pc, chan, run, commitLog, reading,
                     openFailed, faults>>
      /\ drops \subseteq drops'
  BY DEF Bridge, BridgeWakes, BridgeMovesFrame, BridgeNextRing, hwVars, pollVars, checkVars, histVars
<1>3. DriversKnow' /\ StopInv'
  BY <1>2 DEF CommitInv, DriversKnow, StopInv, Quiet
<1>4. ~(faults = 0 /\ commitLog /\ (pc = "read" \/ (pc = "end" /\ "store" \notin drops /\ ~openFailed)))
  BY <1>2, NobodyRuns
<1>5. RingsServed'
  <2>1. CASE BridgeWakes
    <3> SUFFICES ASSUME NEW c \in Channels PROVE draining' # 0 /\ draining' <= c
      BY DEF RingsServed
    <3>1. draining' = 1 /\ c \in Nat /\ 1 <= c
      BY <2>1, <1>1 DEF BridgeWakes, Channels
    <3> QED BY <3>1
  <2>2. CASE BridgeMovesFrame
    <3>1. draining \in Channels /\ ring[draining] # <<>>
          /\ ring' = [ring EXCEPT ![draining] = Tail(@)]
          /\ UNCHANGED <<draining, notified>>
      BY <2>2, <1>1 DEF BridgeMovesFrame, PathInv, Channels
    <3>2. \A c \in Channels : ring'[c] # <<>> => ring[c] # <<>>
      BY <1>1, <3>1 DEF PathInv
    <3> QED BY <3>1, <3>2 DEF CommitInv, RingsServed
  <2>3. CASE BridgeNextRing
    <3> SUFFICES ASSUME NEW c \in Channels, ring'[c] # <<>>, ~notified'
                 PROVE  draining' # 0 /\ draining' <= c
      BY DEF RingsServed
    <3>1. UNCHANGED <<ring, notified>> /\ ring[draining] = <<>>
          /\ draining' = IF draining < NumChannels THEN draining + 1 ELSE 0
      BY <2>3 DEF BridgeNextRing
    <3>2. draining # 0 /\ draining <= c /\ draining # c
      BY <3>1 DEF CommitInv, RingsServed
    <3>3. draining \in 0..NumChannels /\ c \in 1..NumChannels
      BY <1>1 DEF PathInv, Channels
    <3>4. draining < c /\ draining < NumChannels
      BY <3>2, <3>3, <1>1
    <3>5. draining' = draining + 1
      BY <3>1, <3>4
    <3> QED BY <3>3, <3>4, <3>5
  <2> QED BY <2>1, <2>2, <2>3 DEF Bridge
<1>6. pc' = "flush" /\ run' => page' # <<>> /\ Len(mbuf') = MaxPages
  <2> SUFFICES ASSUME pc = "flush", run PROVE page' # <<>> /\ Len(mbuf') = MaxPages
    BY <1>2
  <2>1. page # <<>> /\ Len(mbuf) = MaxPages /\ MaxPages \in Nat /\ page \in Seq(Frame)
    BY <1>1, RxAssumption DEF CommitInv, EmptyInv, PathInv
  <2>2. CASE BridgeMovesFrame
    <3>1. /\ ~(Len(mbuf) < MaxPages)
          /\ \/ page' = Append(page, Head(ring[draining])) /\ UNCHANGED mbuf
             \/ Len(mbuf) < MaxPages
             \/ UNCHANGED <<mbuf, page>>
      BY <2>1, <2>2 DEF BridgeMovesFrame
    <3>2. Append(page, Head(ring[draining])) # <<>>
      <4>1. Head(ring[draining]) \in Frame
        <5>1. draining \in Channels /\ ring[draining] # <<>>
          BY <2>2, <1>1 DEF BridgeMovesFrame, PathInv, Channels
        <5>2. ring[draining] \in Seq(Frame)
          BY <1>1, <5>1 DEF PathInv
        <5> QED BY <5>1, <5>2
      <4> QED BY <2>1, <4>1
    <3> QED BY <2>1, <3>1, <3>2
  <2>3. CASE BridgeWakes \/ BridgeNextRing
    BY <2>1, <2>3 DEF BridgeWakes, BridgeNextRing
  <2> QED BY <2>2, <2>3 DEF Bridge
<1>7. EmptyInv'
  BY <1>2, <1>4, <1>6 DEF EmptyInv
<1> QED BY <1>3, <1>5, <1>7 DEF CommitInv

\* Steps of Core0Task1 that end a poll, begin one, or begin a start or a stop.
LEMMA CommitPollSteps ==
  ASSUME IInv, CommitInv, PollBegins \/ StartBegins \/ StopBegins \/ LoopEnds \/ PollEnds
                 \/ Request \/ Rotation
  PROVE  CommitInv'
<1>1. UNCHANGED <<hwVars, pathVars>>
  BY DEF PollBegins, StartBegins, StopBegins, LoopEnds, PollEnds, Request, Rotation
<1>2. RingsServed'
  BY <1>1 DEF CommitInv, RingsServed, pathVars
<1>3. faults' = faults
  BY DEF PollBegins, StartBegins, StopBegins, LoopEnds, PollEnds, Request, Rotation, histVars
<1>4. DriversKnow' /\ \A c \in Channels : Quiet(c)' <=> Quiet(c)
  BY <1>1, <1>3 DEF CommitInv, DriversKnow, Quiet, hwVars
<1>5. pc = "poll" => ~commitLog
  BY DEF CommitInv, StopInv
<1>6. CASE PollBegins
  <2>1. ~commitLog' /\ pc' = "read"
    BY <1>5, <1>6 DEF PollBegins
  <2> QED BY <1>2, <1>3, <1>4, <2>1 DEF CommitInv, StopInv, EmptyInv
<1>7. CASE StartBegins
  <2>1. ~commitLog' /\ pc' = "start"
    BY <1>5, <1>7 DEF StartBegins
  <2> QED BY <1>2, <1>3, <1>4, <2>1 DEF CommitInv, StopInv, EmptyInv
<1>8. CASE StopBegins
  <2>1. ~commitLog' /\ pc' = "stop" /\ ~run' /\ chan' = 1
    BY <1>5, <1>8 DEF StopBegins
  <2>2. \A c \in Channels : ~(c < chan')
    BY <2>1, RxAssumption DEF Channels
  <2> QED BY <1>2, <1>3, <1>4, <2>1, <2>2 DEF CommitInv, StopInv, EmptyInv
<1>9. CASE LoopEnds
  <2>1. pc = "read" /\ pc' = "end" /\ draining = 0 /\ ~notified
        /\ UNCHANGED <<commitLog, run, chan, drops, openFailed>>
    BY <1>9 DEF LoopEnds, TaskMayRun, checkVars
  <2>2. (reading = <<>> /\ mbuf = <<>>) \/ run
    BY <1>9 DEF LoopEnds, Blocked, MayRead
  <2>3. UNCHANGED <<page, mbuf, reading, draining, notified>>
    BY <1>1 DEF pathVars
  <2>4. EmptyInv'
    BY <1>3, <2>1, <2>2, <2>3 DEF CommitInv, EmptyInv, NothingBefore
  <2> QED BY <1>2, <1>3, <1>4, <2>1, <2>4 DEF CommitInv, StopInv
<1>10. CASE PollEnds
  <2>1. ~commitLog' /\ pc' = "poll"
    BY <1>10 DEF PollEnds
  <2> QED BY <1>2, <1>3, <1>4, <2>1 DEF CommitInv, StopInv, EmptyInv
<1>11. CASE Request
  <2>1. \/ pc = "read" /\ reading = <<>> /\ mbuf = <<>>
        \/ pc = "flush" /\ page # <<>> /\ Len(mbuf) = MaxPages
    BY <1>11 DEF Request, Blocked, MayRead
  <2>2. UNCHANGED <<pc, chan, commitLog, drops, openFailed, page, mbuf, reading, draining, notified>>
    BY <1>1, <1>11 DEF Request, checkVars, pathVars
  <2>3. StopInv'
    BY <1>3, <1>4, <2>1, <2>2 DEF CommitInv, StopInv
  <2>4. EmptyInv'
    BY <1>3, <2>1, <2>2 DEF CommitInv, EmptyInv, NothingBefore
  <2> QED BY <1>2, <1>4, <2>3, <2>4 DEF CommitInv
<1>12. CASE Rotation
  <2>1. pc = "read" /\ UNCHANGED <<pc, chan, run, commitLog, drops>>
    BY <1>12 DEF Rotation, Blocked, MayRead, checkVars
  <2>2. UNCHANGED <<page, mbuf, reading, draining, notified>>
    BY <1>1 DEF pathVars
  <2>3. StopInv'
    BY <1>3, <1>4, <2>1 DEF CommitInv, StopInv
  <2>4. EmptyInv'
    BY <1>3, <2>1, <2>2 DEF CommitInv, EmptyInv, NothingBefore
  <2> QED BY <1>2, <1>4, <2>3, <2>4 DEF CommitInv
<1> QED BY <1>6, <1>7, <1>8, <1>9, <1>10, <1>11, <1>12

LEMMA CommitStartChannel ==
  ASSUME IInv, CommitInv, StartChannel
  PROVE  CommitInv'
<1>1. chan \in Channels /\ faults \in Nat
  BY DEF IInv, PollInv, CommitInv, StopInv
<1>2. ~commitLog' /\ pc' \in {"start", "read"}
  BY DEF StartChannel, CommitInv, StopInv
<1>3. RingsServed'
  BY DEF StartChannel, CommitInv, RingsServed, pathVars
<1>4. faults' \in Nat /\ (faults' = 0 => faults = 0)
  BY <1>1 DEF StartChannel
<1>5. ASSUME faults' = 0, NEW c \in Channels
      PROVE  driverState'[c] = "started" \/ Quiet(c)'
  <2>1. driverState[c] = "started" \/ Quiet(c)
    BY <1>4, <1>5 DEF CommitInv, DriversKnow
  <2>2. \/ UNCHANGED <<receiving, irqOn, driverState>>
        \/ /\ receiving' = [receiving EXCEPT ![chan] = TRUE]
           /\ irqOn' = [irqOn EXCEPT ![chan] = TRUE]
           /\ driverState' = [driverState EXCEPT ![chan] = "started"]
    BY DEF StartChannel
  <2>3. CASE UNCHANGED <<receiving, irqOn, driverState>>
    BY <2>1, <2>3 DEF Quiet
  <2>4. CASE /\ receiving' = [receiving EXCEPT ![chan] = TRUE]
             /\ irqOn' = [irqOn EXCEPT ![chan] = TRUE]
             /\ driverState' = [driverState EXCEPT ![chan] = "started"]
    <3>1. CASE c = chan
      BY <1>1, <2>4, <3>1 DEF IInv, HwInv
    <3>2. CASE c # chan
      BY <1>1, <2>1, <2>4, <3>2 DEF IInv, HwInv, Quiet
    <3> QED BY <3>1, <3>2
  <2> QED BY <2>2, <2>3, <2>4
<1>6. DriversKnow'
  BY <1>5 DEF DriversKnow
<1>7. StopInv' /\ EmptyInv'
  BY <1>2, <1>4 DEF StopInv, EmptyInv
<1> QED BY <1>3, <1>6, <1>7 DEF CommitInv

\* A controller that stopped as told is quiet, like those before it.
LEMMA CommitStopChannel ==
  ASSUME IInv, CommitInv, StopChannel
  PROVE  CommitInv'
<1>1. chan \in Channels /\ faults \in Nat /\ NumChannels \in Nat /\ chan \in 1..NumChannels
  BY RxAssumption DEF IInv, PollInv, CommitInv, StopInv, Channels
<1>2. pc = "stop" /\ ~commitLog /\ ~run /\ run' = run
  BY DEF StopChannel, CommitInv, StopInv
<1>3. RingsServed'
  BY DEF StopChannel, CommitInv, RingsServed, pathVars
<1>4. faults' \in Nat /\ (faults' = 0 => faults = 0)
  BY <1>1 DEF StopChannel, hwVars
<1>5. ASSUME faults' = 0
      PROVE  /\ \A c \in Channels : c = chan \/ Quiet(c) => Quiet(c)'
             /\ \A c \in Channels : driverState'[c] = "started" => driverState[c] = "started"
             /\ \A c \in Channels \ {chan} : driverState'[c] = driverState[c]
  <2>1. \/ driverState[chan] # "started" /\ UNCHANGED <<receiving, irqOn, driverState>>
        \/ /\ irqOn' = [irqOn EXCEPT ![chan] = FALSE]
           /\ receiving' = [receiving EXCEPT ![chan] = FALSE]
           /\ driverState' = [driverState EXCEPT ![chan] = "stopped"]
        \/ faults' = faults + 1
    BY DEF StopChannel, hwVars
  <2>2. CASE driverState[chan] # "started" /\ UNCHANGED <<receiving, irqOn, driverState>>
    <3>1. Quiet(chan)
      BY <1>1, <1>4, <1>5, <2>2 DEF CommitInv, DriversKnow
    <3> QED BY <2>2, <3>1 DEF Quiet
  <2>3. CASE /\ irqOn' = [irqOn EXCEPT ![chan] = FALSE]
             /\ receiving' = [receiving EXCEPT ![chan] = FALSE]
             /\ driverState' = [driverState EXCEPT ![chan] = "stopped"]
    <3>1. \A c \in Channels \ {chan} : /\ irqOn'[c] = irqOn[c] /\ receiving'[c] = receiving[c]
                                       /\ driverState'[c] = driverState[c]
      BY <2>3 DEF IInv, HwInv
    <3>2. irqOn'[chan] = FALSE /\ receiving'[chan] = FALSE /\ driverState'[chan] = "stopped"
      BY <1>1, <2>3 DEF IInv, HwInv
    <3> QED BY <3>1, <3>2 DEF Quiet
  <2>4. CASE faults' = faults + 1
    BY <1>1, <1>5, <2>4
  <2> QED BY <2>1, <2>2, <2>3, <2>4
<1>6. DriversKnow'
  <2> SUFFICES ASSUME faults' = 0, NEW c \in Channels
               PROVE  driverState'[c] = "started" \/ Quiet(c)'
    BY DEF DriversKnow
  <2>1. driverState[c] = "started" \/ Quiet(c)
    BY <1>4 DEF CommitInv, DriversKnow
  <2>2. c # chan => driverState'[c] = driverState[c]
    BY <1>5
  <2> QED BY <1>5, <2>1, <2>2
<1>7. CASE chan < NumChannels
  <2>1. chan' = chan + 1 /\ pc' = "stop" /\ commitLog' = commitLog
    BY <1>2, <1>7 DEF StopChannel
  <2>2. ASSUME faults' = 0, NEW c \in Channels, c < chan'
        PROVE  Quiet(c)'
    <3>1. c = chan \/ c < chan
      BY <1>1, <2>1, <2>2 DEF Channels
    <3>2. c < chan => Quiet(c)
      BY <1>2, <1>4, <2>2 DEF CommitInv, StopInv
    <3> QED BY <1>5, <2>2, <3>1, <3>2
  <2>3. StopInv' /\ EmptyInv'
    BY <1>2, <1>4, <2>1, <2>2 DEF StopInv, EmptyInv
  <2> QED BY <1>3, <1>6, <2>3 DEF CommitInv
<1>8. CASE ~(chan < NumChannels)
  <2>1. pc' = "drain" /\ commitLog' = TRUE
    BY <1>8 DEF StopChannel
  <2>2. ASSUME faults' = 0, NEW c \in Channels
        PROVE  Quiet(c)'
    <3>1. c = chan \/ c < chan
      BY <1>1, <1>8 DEF Channels
    <3>2. c < chan => Quiet(c)
      BY <1>2, <1>4, <2>2 DEF CommitInv, StopInv
    <3> QED BY <1>5, <2>2, <3>1, <3>2
  <2>3. StopInv' /\ EmptyInv'
    BY <1>2, <1>4, <2>1, <2>2 DEF StopInv, EmptyInv
  <2> QED BY <1>3, <1>6, <2>3 DEF CommitInv
<1> QED BY <1>7, <1>8

LEMMA CommitDrain ==
  ASSUME IInv, CommitInv, Drain
  PROVE  CommitInv'
<1>1. HwInv /\ PathInv
  BY DEF IInv
<1>2. /\ pc = "drain" /\ pc' = "flush" /\ draining = 0 /\ ~notified
      /\ ring' = [c \in Channels |-> PutAll(c, [i \in 1..Reads(c) |-> 0])]
      /\ notified' = \E c \in Channels : Reads(c) > 0
      /\ UNCHANGED <<receiving, irqOn, driverState, draining, page, mbuf, reading, chan, run,
                     commitLog, openFailed, faults>>
  BY DEF Drain, TaskMayRun, histVars
<1>3. ~run /\ ~run'
  BY <1>2 DEF CommitInv, StopInv
<1>4. RingsServed'
  <2> SUFFICES ASSUME NEW c \in Channels, ~notified' PROVE ring'[c] = <<>>
    BY DEF RingsServed
  <2>1. ring[c] = <<>>
    BY <1>2 DEF CommitInv, RingsServed
  <2>2. ~(Reads(c) > 0)
    BY <1>2, Zenon
  <2>3. Reads(c) = 0
    <3>1. Watermark \in Nat /\ Len(fifo[c]) \in Nat
      BY <1>1, RxAssumption DEF HwInv
    <3>2. Reads(c) \in Nat
      BY <3>1 DEF Reads, AtMost
    <3> QED BY <2>2, <3>2
  <2>4. [i \in 1..Reads(c) |-> 0] \in Seq(Nat) /\ Len([i \in 1..Reads(c) |-> 0]) = 0
    BY <2>3
  <2>5. ring'[c] = PutAll(c, [i \in 1..Reads(c) |-> 0])
    BY <1>2
  <2> QED BY <1>1, <2>1, <2>4, <2>5, NothingPut
<1>5. DriversKnow' /\ StopInv'
  BY <1>2 DEF CommitInv, DriversKnow, StopInv, Quiet
<1>6. EmptyInv'
  BY <1>2, <1>3 DEF EmptyInv
<1> QED BY <1>4, <1>5, <1>6 DEF CommitInv

\* A flush does not go through while a start is requested.
LEMMA FlushUnasked ==
  ASSUME IInv, CommitInv, Flush
  PROVE  ~run
<1> SUFFICES ASSUME run PROVE FALSE
  OBVIOUS
<1>1. page # <<>> /\ Len(mbuf) = MaxPages
  BY DEF Flush, CommitInv, EmptyInv
<1>2. Len(mbuf) < MaxPages /\ MaxPages \in Nat
  BY <1>1, RxAssumption DEF Flush
<1> QED BY <1>1, <1>2

\* A flush that goes through leaves no page.
LEMMA CommitFlush ==
  ASSUME IInv, CommitInv, Flush
  PROVE  CommitInv'
<1>1. /\ pc = "flush" /\ pc' = "read" /\ draining = 0 /\ ~notified
      /\ UNCHANGED <<hwVars, ring, notified, draining, reading, chan, run, commitLog,
                     openFailed, faults>>
  BY DEF Flush, TaskMayRun, histVars
<1>2. page' = <<>> /\ ~run
  BY FlushUnasked DEF Flush
<1>3. RingsServed' /\ DriversKnow' /\ StopInv'
  BY <1>1 DEF CommitInv, RingsServed, DriversKnow, StopInv, Quiet, hwVars
<1>4. EmptyInv'
  BY <1>1, <1>2 DEF EmptyInv, NothingBefore
<1> QED BY <1>3, <1>4 DEF CommitInv

LEMMA CommitIngest ==
  ASSUME IInv, CommitInv, Ingest
  PROVE  CommitInv'
<1>1. /\ pc = "read" /\ draining = 0 /\ ~notified /\ (reading # <<>> \/ mbuf # <<>>)
      /\ UNCHANGED <<hwVars, ring, notified, draining, page, chan, commitLog, openFailed, faults>>
  BY DEF Ingest, MayRead, TaskMayRun, Blocked
<1>2. \/ openFailed /\ run' = FALSE /\ pc' = "end"
      \/ UNCHANGED <<run, pc>>
      \/ "store" \in drops' /\ run' = FALSE /\ pc' = "end"
  BY DEF Ingest
<1>3. RingsServed' /\ DriversKnow'
  BY <1>1 DEF CommitInv, RingsServed, DriversKnow, Quiet, hwVars
<1>4. StopInv'
  BY <1>1, <1>2 DEF CommitInv, StopInv, Quiet, hwVars
<1>5. faults = 0 /\ commitLog => NothingBefore /\ ~run
  BY <1>1 DEF CommitInv, EmptyInv
<1>6. EmptyInv'
  BY <1>1, <1>2, <1>5 DEF EmptyInv, NothingBefore
<1> QED BY <1>3, <1>4, <1>6 DEF CommitInv

-----------------------------------------------------------------------------
(* The frame counters                                                      *)

\* While nothing is being recorded the controllers are quiet and nothing is on the way
\* to the buffer; a start is not requested before the ingest has emptied that, too.
RestInv ==
  /\ faults = 0 /\ pc = "start" => run
  /\ faults = 0 /\ ~runOld =>
       /\ pc # "stop"
       /\ pc # "start" => \A c \in Channels : Quiet(c)
       /\ pc \in {"poll", "read", "end"} =>
            NothingBefore /\ (run => reading = <<>> /\ mbuf = <<>>)

\* The bus, the interrupt and the bridge find the controllers silent while nothing is
\* being recorded.
LEMMA RestBelow ==
  ASSUME RestInv, (\E c \in Channels : FrameArrives(c) \/ RxInterrupt(c)) \/ Bridge
  PROVE  RestInv'
<1>1. CASE \E c \in Channels : FrameArrives(c)
  <2>1. UNCHANGED <<irqOn, receiving, pc, run, runOld, faults, pathVars>>
    BY <1>1 DEF FrameArrives, pollVars
  <2> QED BY <2>1 DEF RestInv, Quiet, NothingBefore, pathVars
<1>2. CASE \E c \in Channels : RxInterrupt(c)
  <2>1. UNCHANGED <<pc, run, runOld, faults>>
    BY <1>2 DEF RxInterrupt, pollVars, histVars
  <2>2. ~(faults = 0 /\ ~runOld /\ pc # "start")
    BY <1>2 DEF RxInterrupt, Raised, RestInv, Quiet
  <2> QED BY <2>1, <2>2 DEF RestInv
<1>3. CASE Bridge
  <2>1. UNCHANGED <<irqOn, receiving, pc, run, runOld, faults>> /\ (draining # 0 \/ notified)
    BY <1>3 DEF Bridge, BridgeWakes, BridgeMovesFrame, BridgeNextRing, hwVars, pollVars, histVars
  <2>2. ~(faults = 0 /\ ~runOld /\ pc \in {"poll", "read", "end"})
    BY <2>1 DEF RestInv, NothingBefore
  <2> QED BY <2>1, <2>2 DEF RestInv, Quiet
<1> QED BY <1>1, <1>2, <1>3

\* Core0Task1 starts what was at rest, and rests when it has stopped and emptied it.
LEMMA RestTask ==
  ASSUME IInv, CommitInv, CommitInv', RestInv, Core0Task1
  PROVE  RestInv'
<1>1. CASE PollBegins \/ LoopEnds \/ PollEnds
  <2>1. /\ UNCHANGED <<irqOn, receiving, run, runOld, faults, page, draining, notified,
                       reading, mbuf>>
        /\ pc \in {"poll", "read", "end"} /\ pc' \in {"poll", "read", "end"}
    BY <1>1 DEF PollBegins, LoopEnds, PollEnds, hwVars, pathVars, histVars
  <2> QED BY <2>1 DEF RestInv, Quiet, NothingBefore
<1>2. CASE StartBegins
  <2>1. run' /\ pc' = "start"
    BY <1>2 DEF StartBegins
  <2> QED BY <2>1 DEF RestInv
<1>3. CASE StartChannel
  <2>1. pc = "start" /\ faults \in Nat /\ (pc' = "start" \/ runOld' = run')
        /\ ((run' = run /\ faults' = faults) \/ faults' = faults + 1)
    BY <1>3 DEF StartChannel, CommitInv, StopInv
  <2>2. faults' = 0 => run'
    BY <2>1 DEF RestInv
  <2>3. pc' # "stop"
    BY <1>3 DEF StartChannel
  <2> QED BY <2>1, <2>2, <2>3 DEF RestInv
<1>4. CASE StopBegins
  <2>1. runOld' /\ pc' = "stop"
    BY <1>4 DEF StopBegins
  <2> QED BY <2>1 DEF RestInv
<1>5. CASE StopChannel
  <2>1. pc = "stop" /\ faults \in Nat /\ (faults' = faults \/ faults' = faults + 1)
        /\ ((pc' = pc /\ runOld' = runOld) \/ pc' = "drain")
    BY <1>5 DEF StopChannel, CommitInv, StopInv, hwVars
  <2>2. CASE pc' = pc /\ runOld' = runOld
    <3>1. faults' = 0 => faults = 0
      BY <2>1
    <3> QED BY <2>1, <2>2, <3>1 DEF RestInv
  <2>3. CASE pc' = "drain"
    <3>1. faults' = 0 => \A c \in Channels : Quiet(c)'
      BY <2>3 DEF CommitInv, StopInv
    <3> QED BY <2>3, <3>1 DEF RestInv
  <2> QED BY <2>1, <2>2, <2>3
<1>6. CASE Drain
  <2>1. pc = "drain" /\ pc' = "flush" /\ UNCHANGED <<irqOn, receiving, run, runOld, faults>>
    BY <1>6 DEF Drain, histVars
  <2> QED BY <2>1 DEF RestInv, Quiet
<1>7. CASE Flush
  <2>1. /\ pc = "flush" /\ pc' = "read" /\ page' = <<>> /\ draining' = 0 /\ ~notified'
        /\ UNCHANGED <<irqOn, receiving, run, runOld, faults>>
    BY <1>7 DEF Flush, TaskMayRun, hwVars, histVars
  <2>2. ~run
    BY <1>7, FlushUnasked
  <2> QED BY <2>1, <2>2 DEF RestInv, Quiet, NothingBefore
<1>8. CASE Ingest
  <2>1. /\ pc = "read" /\ pc' \in {"read", "end"} /\ (reading # <<>> \/ mbuf # <<>>)
        /\ (run' = run \/ run' = FALSE)
        /\ UNCHANGED <<irqOn, receiving, runOld, faults, page, draining, notified>>
    BY <1>8 DEF Ingest, MayRead, Blocked, hwVars
  <2>2. faults = 0 /\ ~runOld => NothingBefore /\ ~run
    BY <2>1 DEF RestInv
  <2> QED BY <2>1, <2>2 DEF RestInv, Quiet, NothingBefore
<1> QED BY <1>1, <1>2, <1>3, <1>4, <1>5, <1>6, <1>7, <1>8 DEF Core0Task1

LEMMA RestStep ==
  ASSUME IInv, CommitInv, CommitInv', RestInv, [Next]_vars
  PROVE  RestInv'
<1>1. CASE Request \/ Rotation
  <2>1. /\ UNCHANGED <<irqOn, receiving, pc, runOld, faults, page, draining, notified, reading, mbuf>>
        /\ (run' = run \/ (reading = <<>> /\ mbuf = <<>>) \/ pc = "flush")
    BY <1>1 DEF Request, Rotation, Blocked, hwVars, pathVars, histVars
  <2>2. pc # "start"
    BY <1>1 DEF Request, Rotation, Blocked, MayRead
  <2> QED BY <2>1, <2>2 DEF RestInv, Quiet, NothingBefore
<1>2. CASE UNCHANGED vars
  <2>1. UNCHANGED <<irqOn, receiving, pc, run, runOld, faults, page, draining, notified,
                    reading, mbuf>>
    BY <1>2 DEF vars, hwVars, pathVars, pollVars, histVars
  <2> QED BY <2>1 DEF RestInv, Quiet, NothingBefore
<1> QED BY <1>1, <1>2, RestBelow, RestTask DEF Next

\* f[k]: how many frames the ingest will have counted when page k of the buffer is read.
Counting(f) ==
  /\ f \in [0..Len(mbuf) -> Nat]
  /\ f[0] = managerCount + Len(reading)
  /\ \A k \in 1..Len(mbuf) : f[k] = f[k - 1] + Len(mbuf[k])
  /\ \A k \in 0..Len(mbuf) : f[k] + Len(page) <= bridgeCount

\* The bridge has counted every frame that the ingest has counted or will count.
DeltaInv == faults = 0 => \E f \in [0..Len(mbuf) -> Nat] : Counting(f)

LEMMA CountingKept ==
  ASSUME DeltaInv, faults' = 0 => faults = 0,
         UNCHANGED <<page, mbuf, reading, managerCount, bridgeCount>>
  PROVE  DeltaInv'
BY DEF DeltaInv, Counting

\* Behind the start nothing is on the way, and nothing is counted.
LEMMA CountingFromZero ==
  ASSUME reading' = <<>>, mbuf' = <<>>, page' = <<>>, managerCount' = 0, bridgeCount' = 0
  PROVE  DeltaInv'
<1> DEFINE f == [k \in 0..0 |-> 0]
<1>1. Len(<<>>) = 0 /\ f \in [0..0 -> Nat] /\ f[0] = 0
  OBVIOUS
<1>2. \A k \in 1..0 : FALSE
  OBVIOUS
<1>3. \A k \in 0..0 : k = 0
  OBVIOUS
<1> HIDE DEF f
<1>4. Counting(f)'
  BY <1>1, <1>2, <1>3 DEF Counting
<1> QED BY <1>1, <1>4 DEF DeltaInv

\* A page is put behind the buffer, and what comes behind it is counted.
LEMMA CountingSent ==
  ASSUME PathInv, PollInv, page # <<>>, mbuf' = Append(mbuf, page), NEW more \in Nat,
         Len(page') = more, bridgeCount' = bridgeCount + more,
         UNCHANGED <<reading, managerCount>>, DeltaInv, faults' = faults
  PROVE  DeltaInv'
<1> SUFFICES ASSUME faults = 0 PROVE \E g \in [0..Len(mbuf') -> Nat] : Counting(g)'
  BY DEF DeltaInv
<1>1. PICK f \in [0..Len(mbuf) -> Nat] : Counting(f)
  BY DEF DeltaInv
<1>2. PICK n \in Nat : n = Len(mbuf)
  BY DEF PathInv
<1>3. PICK m \in Nat : m = Len(page) /\ bridgeCount \in Nat
  BY DEF PathInv, PollInv
<1>4. Len(mbuf') = n + 1 /\ (\A k \in 1..n : mbuf'[k] = mbuf[k]) /\ mbuf'[n + 1] = page
  BY <1>2, SendIs DEF PathInv
<1> DEFINE g == [k \in 0..(n + 1) |-> IF k <= n THEN f[k] ELSE f[n] + m]
<1>5. \A k \in 0..n : k \in 0..(n + 1) /\ k <= n /\ f[k] \in Nat /\ f[k] + m <= bridgeCount
  BY <1>1, <1>2, <1>3 DEF Counting
<1>6. n \in 0..n /\ n + 1 \in 0..(n + 1) /\ ~(n + 1 <= n)
  OBVIOUS
<1>7. (\A k \in 0..n : g[k] = f[k]) /\ g[n + 1] = f[n] + m
  BY <1>5, <1>6
<1>8. \A k \in 0..(n + 1) : k \in 0..n \/ k = n + 1
  OBVIOUS
<1>9. g \in [0..(n + 1) -> Nat]
  <2>1. f[n] + m \in Nat
    BY <1>3, <1>5, <1>6
  <2> QED BY <1>5, <1>8, <2>1
<1> HIDE DEF g
<1>10. g[0] = managerCount' + Len(reading')
  <2>1. 0 \in 0..n
    OBVIOUS
  <2> QED BY <1>1, <1>7, <2>1 DEF Counting
<1>11. ASSUME NEW k \in 1..(n + 1)
       PROVE  g[k] = g[k - 1] + Len(mbuf'[k])
  <2>1. k - 1 \in 0..n /\ (k \in 1..n \/ k = n + 1)
    OBVIOUS
  <2>2. CASE k \in 1..n
    <3>1. k \in 0..n /\ f[k] = f[k - 1] + Len(mbuf[k])
      BY <1>1, <1>2, <2>2 DEF Counting
    <3> QED BY <1>4, <1>7, <2>1, <2>2, <3>1
  <2>3. CASE k = n + 1
    <3>1. k - 1 = n
      BY <2>3
    <3> QED BY <1>3, <1>4, <1>6, <1>7, <2>3, <3>1
  <2> QED BY <2>1, <2>2, <2>3
<1>12. ASSUME NEW k \in 0..(n + 1)
       PROVE  g[k] + Len(page') <= bridgeCount'
  <2>1. CASE k \in 0..n
    <3>1. g[k] \in Nat /\ g[k] + m <= bridgeCount
      BY <1>5, <1>7, <2>1
    <3> QED BY <1>3, <3>1
  <2>2. CASE k = n + 1
    <3>1. f[n] \in Nat /\ f[n] + m <= bridgeCount /\ g[k] = f[n] + m
      BY <1>5, <1>6, <1>7, <2>2
    <3> QED BY <1>3, <3>1
  <2> QED BY <1>8, <2>1, <2>2
<1>13. Counting(g)'
  BY <1>4, <1>9, <1>10, <1>11, <1>12 DEF Counting
<1> QED BY <1>4, <1>9, <1>13

\* A frame is counted that joins the page, or is lost.
LEMMA CountingMore ==
  ASSUME PathInv, PollInv, bridgeCount' = bridgeCount + 1,
         NEW more \in Nat, more <= 1, Len(page') = Len(page) + more,
         UNCHANGED <<mbuf, reading, managerCount>>, DeltaInv, faults' = faults
  PROVE  DeltaInv'
<1> SUFFICES ASSUME faults = 0 PROVE \E g \in [0..Len(mbuf') -> Nat] : Counting(g)'
  BY DEF DeltaInv
<1>1. PICK f \in [0..Len(mbuf) -> Nat] : Counting(f)
  BY DEF DeltaInv
<1>2. Len(page) \in Nat /\ bridgeCount \in Nat
  BY DEF PathInv, PollInv
<1>3. ASSUME NEW k \in 0..Len(mbuf)
      PROVE  f[k] + Len(page') <= bridgeCount'
  <2>1. f[k] \in Nat /\ f[k] + Len(page) <= bridgeCount
    BY <1>1 DEF Counting
  <2> QED BY <1>2, <2>1
<1>4. Counting(f)'
  BY <1>1, <1>3 DEF Counting
<1> QED BY <1>4

\* The ingest counts a frame of the page it reads.
LEMMA CountingRead ==
  ASSUME PathInv, PollInv, Ingest, DeltaInv
  PROVE  DeltaInv'
<1> SUFFICES ASSUME faults = 0 PROVE \E g \in [0..Len(mbuf') -> Nat] : Counting(g)'
  BY DEF DeltaInv, Ingest
<1>1. PICK f \in [0..Len(mbuf) -> Nat] : Counting(f)
  BY DEF DeltaInv
<1>2. /\ reading' = IF reading # <<>> THEN Tail(reading) ELSE Tail(Head(mbuf))
      /\ mbuf' = IF reading # <<>> THEN mbuf ELSE Tail(mbuf)
      /\ reading # <<>> \/ mbuf # <<>>
      /\ managerCount' = managerCount + 1 /\ UNCHANGED <<bridgeCount, page>>
  BY DEF Ingest, NextOfPage, Blocked
<1>3. managerCount \in Nat /\ reading \in Seq(Frame)
  BY DEF PathInv, PollInv
<1>4. CASE reading # <<>>
  <2>1. Len(reading') = Len(reading) - 1 /\ Len(reading) \in Nat
    BY <1>2, <1>3, <1>4, TailIs
  <2>2. managerCount' + Len(reading') = managerCount + Len(reading)
    <3>1. managerCount' = managerCount + 1 /\ managerCount \in Nat
      BY <1>2, <1>3
    <3> QED BY <2>1, <3>1
  <2>3. mbuf' = mbuf /\ page' = page /\ bridgeCount' = bridgeCount
    BY <1>2, <1>4
  <2>4. Counting(f)'
    BY <1>1, <2>2, <2>3 DEF Counting
  <2> QED BY <2>3, <2>4
<1>5. CASE reading = <<>>
  <2>1. mbuf # <<>> /\ mbuf' = Tail(mbuf) /\ reading' = Tail(Head(mbuf)) /\ Len(reading) = 0
    BY <1>2, <1>5
  <2>2. mbuf \in Seq(Seq(Frame)) /\ \A k \in DOMAIN mbuf : mbuf[k] # <<>>
    BY DEF PathInv
  <2>3. PICK n \in Nat : n = Len(mbuf')
    BY <2>1, <2>2, FetchIs
  <2>4. Len(mbuf) = n + 1 /\ \A k \in 1..n : mbuf'[k] = mbuf[k + 1]
    BY <2>1, <2>2, <2>3
  <2>5. Head(mbuf) = mbuf[1] /\ mbuf[1] \in Seq(Frame) /\ mbuf[1] # <<>>
    BY <2>1, <2>2, FetchIs
  <2>6. Len(mbuf[1]) \in Nat /\ Len(reading') = Len(mbuf[1]) - 1
    BY <2>1, <2>5, TailIs
  <2> DEFINE g == [k \in 0..n |-> f[k + 1]]
  <2>7. \A k \in 0..n : g[k] = f[k + 1] /\ k + 1 \in 0..(n + 1)
    OBVIOUS
  <2>8. g \in [0..n -> Nat]
    BY <1>1, <2>4, <2>7 DEF Counting
  <2> HIDE DEF g
  <2>9. g[0] = managerCount' + Len(reading')
    <3>1. 1 \in 1..(n + 1) /\ 1 - 1 = 0 /\ 0 \in 0..n /\ 0 + 1 = 1
      OBVIOUS
    <3>2. f[1] = f[0] + Len(mbuf[1]) /\ f[0] = managerCount
      BY <1>1, <1>3, <2>1, <2>4, <3>1 DEF Counting
    <3>3. g[0] = f[1]
      BY <2>7, <3>1
    <3>4. managerCount' + Len(reading') = managerCount + Len(mbuf[1])
      <4>1. managerCount' = managerCount + 1 /\ managerCount \in Nat
        BY <1>2, <1>3
      <4> QED BY <2>6, <4>1
    <3> QED BY <3>2, <3>3, <3>4
  <2>10. ASSUME NEW k \in 1..n
         PROVE  g[k] = g[k - 1] + Len(mbuf'[k])
    <3>1. k + 1 \in 1..(n + 1) /\ (k + 1) - 1 = k /\ k \in 0..n /\ k - 1 \in 0..n /\ (k - 1) + 1 = k
      OBVIOUS
    <3>2. f[k + 1] = f[k] + Len(mbuf[k + 1])
      BY <1>1, <2>4, <3>1 DEF Counting
    <3>3. g[k] = f[k + 1] /\ g[k - 1] = f[k]
      BY <2>7, <3>1
    <3> QED BY <2>4, <3>2, <3>3
  <2>11. \A k \in 0..n : g[k] + Len(page') <= bridgeCount'
    BY <1>1, <1>2, <2>4, <2>7 DEF Counting
  <2>12. Counting(g)'
    BY <2>3, <2>8, <2>9, <2>10, <2>11 DEF Counting
  <2> QED BY <2>3, <2>8, <2>12
<1> QED BY <1>4, <1>5

LEMMA DeltaStep ==
  ASSUME IInv, CommitInv, RestInv, DeltaInv, [Next]_vars
  PROVE  DeltaInv'
<1>1. PathInv /\ PollInv /\ faults \in Nat
  BY DEF IInv, CommitInv, StopInv
<1>2. CASE \/ \E c \in Channels : FrameArrives(c) \/ RxInterrupt(c)
           \/ BridgeWakes \/ BridgeNextRing \/ PollBegins \/ StartChannel \/ StopBegins
           \/ StopChannel \/ Drain \/ LoopEnds \/ PollEnds \/ Request \/ Rotation
           \/ UNCHANGED vars
  <2>1. UNCHANGED <<page, mbuf, reading, managerCount, bridgeCount>>
    BY <1>2 DEF FrameArrives, RxInterrupt, BridgeWakes, BridgeNextRing, PollBegins, StartChannel,
       StopBegins, StopChannel, Drain, LoopEnds, PollEnds, Request, Rotation, vars, pathVars,
       checkVars
  <2>2. faults' = faults \/ faults' = faults + 1
    BY <1>2 DEF FrameArrives, RxInterrupt, BridgeWakes, BridgeNextRing, PollBegins, StartChannel,
       StopBegins, StopChannel, Drain, LoopEnds, PollEnds, Request, Rotation, vars, hwVars,
       histVars
  <2>3. faults' = 0 => faults = 0
    BY <1>1, <2>2
  <2> QED BY <2>1, <2>3, CountingKept
<1>3. CASE BridgeMovesFrame
  <2> DEFINE x == Head(ring[draining])
  <2>1. x \in Frame
    <3>1. draining \in Channels /\ ring[draining] # <<>>
      BY <1>1, <1>3, RxAssumption DEF BridgeMovesFrame, PathInv, Channels
    <3>2. ring[draining] \in Seq(Frame)
      BY <1>1, <3>1 DEF PathInv
    <3> QED BY <3>1, <3>2
  <2>2. /\ bridgeCount' = bridgeCount + 1 /\ UNCHANGED <<reading, managerCount, faults>>
        /\ \/ page' = Append(page, x) /\ mbuf' = mbuf
           \/ Len(page) = PageFrames /\ mbuf' = Append(mbuf, page) /\ page' = <<x>>
           \/ UNCHANGED <<mbuf, page>>
    BY <1>3 DEF BridgeMovesFrame, histVars
  <2>3. page \in Seq(Frame) /\ PageFrames \in Nat \ {0} /\ Len(page) \in Nat
    BY <1>1, RxAssumption DEF PathInv
  <2> HIDE DEF x
  <2>4. CASE page' = Append(page, x) /\ mbuf' = mbuf
    <3>1. Len(page') = Len(page) + 1 /\ 1 \in Nat /\ 1 <= 1
      BY <2>1, <2>3, <2>4
    <3> QED BY <1>1, <2>2, <2>4, <3>1, CountingMore
  <2>5. CASE Len(page) = PageFrames /\ mbuf' = Append(mbuf, page) /\ page' = <<x>>
    <3>1. page # <<>> /\ Len(page') = 1 /\ 1 \in Nat
      <4>1. Len(<<>>) = 0 /\ Len(page) # 0
        BY <2>3, <2>5
      <4> QED BY <2>5, <4>1
    <3> QED BY <1>1, <2>2, <2>5, <3>1, CountingSent
  <2>6. CASE UNCHANGED <<mbuf, page>>
    <3>1. Len(page') = Len(page) + 0 /\ 0 \in Nat /\ 0 <= 1
      BY <2>3, <2>6
    <3> QED BY <1>1, <2>2, <2>6, <3>1, CountingMore
  <2> QED BY <2>2, <2>4, <2>5, <2>6
<1>4. CASE StartBegins
  <2>1. /\ pc = "poll" /\ run /\ ~runOld /\ managerCount' = 0 /\ bridgeCount' = 0
        /\ UNCHANGED <<page, mbuf, reading, faults>>
    BY <1>4 DEF StartBegins, pathVars
  <2>2. CASE faults = 0
    BY <2>1, <2>2, CountingFromZero DEF RestInv, NothingBefore
  <2>3. CASE faults # 0
    BY <2>1, <2>3 DEF DeltaInv
  <2> QED BY <2>2, <2>3
<1>5. CASE Flush
  <2>1. UNCHANGED <<bridgeCount, reading, managerCount, faults>>
    BY <1>5 DEF Flush, checkVars, histVars
  <2>2. CASE page = <<>>
    <3>1. UNCHANGED <<mbuf, page>>
      BY <1>5, <2>2 DEF Flush
    <3> QED BY <2>1, <3>1, CountingKept
  <2>3. CASE page # <<>>
    <3>1. mbuf' = Append(mbuf, page) /\ page' = <<>>
      BY <1>5, <2>3 DEF Flush
    <3>2. 0 \in Nat /\ Len(page') = 0 /\ bridgeCount' = bridgeCount + 0
      BY <1>1, <2>1, <3>1 DEF PollInv
    <3> QED BY <1>1, <2>1, <2>3, <3>1, <3>2, CountingSent
  <2> QED BY <2>2, <2>3
<1>6. CASE Ingest
  BY <1>1, <1>6, CountingRead
<1> QED BY <1>2, <1>3, <1>4, <1>5, <1>6 DEF Next, Bridge, Core0Task1

-----------------------------------------------------------------------------
(* The frames that are lost                                                *)

\* Frame n of channel c is in the controller or was left there, is on the way or logged.
Kept(c, n) ==
  n \in Range(fifo[c]) \/ n \in left[c] \/ \E f \in Frames : f.ch = c /\ f.n = n

Noticed == drops # {} \/ framesLost

HistInv == session \in [Channels -> Nat] /\ left \in [Channels -> SUBSET Nat]

\* A frame that is lost has been noticed, or the interrupt is raised that will.
LossesNoticed ==
  \A c \in Channels : \A n \in (session[c] + 1)..arrived[c] :
    Kept(c, n) \/ Noticed \/ (overflowed[c] /\ irqOn[c])

\* When a poll has ended with the controllers silenced, framesLost says what was noticed.
NoticeReported ==
  pc = "poll" /\ (\A c \in Channels : ~irqOn[c]) =>
    draining = 0 /\ ~notified /\ (drops # {} => framesLost)

LossInv == HistInv /\ LossesNoticed /\ NoticeReported

LEMMA NoticesKept ==
  ASSUME LossesNoticed, UNCHANGED <<session, arrived>>, Noticed => Noticed',
         \A c \in Channels : \A n \in (session[c] + 1)..arrived[c] :
           Kept(c, n) => Kept(c, n)' \/ Noticed',
         \A c \in Channels : overflowed[c] /\ irqOn[c] => Noticed'
  PROVE  LossesNoticed'
BY DEF LossesNoticed

\* Below the interrupts nothing is raised, so that frames need only stay on the way.
LEMMA NoticesBelow ==
  ASSUME LossesNoticed, NoInterrupt, UNCHANGED <<session, arrived>>, Noticed => Noticed',
         UNCHANGED <<fifo, left>>, Frames \subseteq Frames' \/ Noticed'
  PROVE  LossesNoticed'
<1>1. \A c \in Channels : ~(overflowed[c] /\ irqOn[c])
  BY DEF NoInterrupt, Raised
<1>2. ASSUME NEW c \in Channels, NEW n, Kept(c, n)
      PROVE  Kept(c, n)' \/ Noticed'
  BY <1>2 DEF Kept
<1> QED BY <1>1, <1>2, NoticesKept

\* A sequence that is not empty holds its head and what its tail holds.
LEMMA HeadAndTail ==
  ASSUME NEW S, NEW s \in Seq(S), s # <<>>, NEW i \in DOMAIN s
  PROVE  s[i] = Head(s) \/ (i - 1 \in DOMAIN Tail(s) /\ s[i] = Tail(s)[i - 1])
<1>1. /\ Len(s) \in Nat /\ DOMAIN s = 1..Len(s) /\ Head(s) = s[1] /\ Len(s) > 0
      /\ Tail(s) \in Seq(S) /\ Len(Tail(s)) = Len(s) - 1
      /\ \A j \in 1..Len(s) - 1 : Tail(s)[j] = s[j + 1]
  OBVIOUS
<1>2. DOMAIN Tail(s) = 1..Len(s) - 1
  BY <1>1
<1>3. CASE i = 1
  BY <1>1, <1>3
<1>4. CASE i # 1
  <2>1. i - 1 \in 1..Len(s) - 1 /\ (i - 1) + 1 = i
    BY <1>1, <1>4
  <2> QED BY <1>1, <1>2, <2>1
<1> QED BY <1>3, <1>4

\* The bridge takes one frame from a ring, and what it does not count stays on the way.
LEMMA BridgeLosesNone ==
  ASSUME PathInv, OrderInv, BridgeMovesFrame
  PROVE  Frames \subseteq Frames' \/ drops' # {}
<1> DEFINE x == Head(ring[draining])
           r == ring[draining]
<1>1. draining \in Channels /\ r # <<>> /\ ring' = [ring EXCEPT ![draining] = Tail(@)]
      /\ r \in Seq(Frame)
  BY RxAssumption DEF BridgeMovesFrame, PathInv, Channels
<1>2. x \in Frame
  BY <1>1
<1>3. ring' = [ring EXCEPT ![draining] = Tail(r)] /\ ring \in [Channels -> Seq(Frame)]
  BY <1>1 DEF PathInv
<1>4. UNCHANGED <<reading, logged>>
  BY DEF BridgeMovesFrame, histVars
<1>5. \/ page' = Append(page, x) /\ mbuf' = mbuf
      \/ Len(page) = PageFrames /\ mbuf' = Append(mbuf, page) /\ page' = <<x>>
      \/ drops' # {}
  BY DEF BridgeMovesFrame
<1> HIDE DEF x, r
<1>6. InRings \subseteq {x} \cup InRings'
  <2> SUFFICES ASSUME NEW c \in Channels, NEW i \in DOMAIN ring[c]
               PROVE  ring[c][i] = x \/ ring[c][i] \in InRings'
    BY DEF InRings, Range
  <2>1. CASE c = draining
    <3>1. r[i] = Head(r) \/ (i - 1 \in DOMAIN Tail(r) /\ r[i] = Tail(r)[i - 1])
      <4>1. i \in DOMAIN r
        BY <2>1 DEF r
      <4> QED BY <1>1, <4>1, HeadAndTail
    <3>2. ring'[c] = Tail(r)
      BY <1>1, <1>3, <2>1
    <3>3. r[i] = x \/ r[i] \in Range(ring'[c])
      BY <3>1, <3>2 DEF x, r, Range
    <3> QED BY <2>1, <3>3 DEF r, InRings
  <2>2. CASE c # draining
    <3>1. ring'[c] = ring[c]
      BY <1>3, <2>2
    <3> QED BY <3>1 DEF InRings, Range
  <2> QED BY <2>1, <2>2
<1>7. CASE page' = Append(page, x) /\ mbuf' = mbuf
  <2>1. page \in Seq(Frame)
    BY DEF PathInv
  <2>2. Range(page') = Range(page) \cup {x}
    BY <1>2, <1>7, <2>1, AppendIs
  <2>3. InBuffer' = InBuffer
    BY <1>7 DEF InBuffer
  <2> QED BY <1>4, <1>6, <2>2, <2>3 DEF Frames, BehindLog, BehindReading, BehindBuffer
<1>8. CASE Len(page) = PageFrames /\ mbuf' = Append(mbuf, page) /\ page' = <<x>>
  <2>1. page # <<>>
    <3>1. Len(<<>>) = 0 /\ PageFrames # 0
      BY RxAssumption
    <3> QED BY <1>8, <3>1
  <2>2. InBuffer' = InBuffer \cup Range(page)
    BY <1>8, <2>1, PageIsSent
  <2>3. x \in Range(page')
    <3>1. 1 \in DOMAIN page' /\ page'[1] = x
      BY <1>8
    <3> QED BY <3>1 DEF Range
  <2> QED BY <1>4, <1>6, <2>2, <2>3 DEF Frames, BehindLog, BehindReading, BehindBuffer
<1> QED BY <1>5, <1>7, <1>8

LEMMA FlushLosesNone ==
  ASSUME PathInv, OrderInv, Flush
  PROVE  Frames \subseteq Frames'
<1>1. UNCHANGED <<ring, reading, logged>>
  BY DEF Flush, histVars
<1>2. InRings' = InRings
  BY <1>1 DEF InRings
<1>3. CASE page = <<>>
  <2>1. UNCHANGED <<page, mbuf>>
    BY <1>3 DEF Flush
  <2> QED BY <1>1, <1>2, <2>1 DEF Frames, BehindLog, BehindReading, BehindBuffer, InBuffer
<1>4. CASE page # <<>>
  <2>1. mbuf' = Append(mbuf, page) /\ InBuffer' = InBuffer \cup Range(page)
    BY <1>4, PageIsSent DEF Flush
  <2> QED BY <1>1, <1>2, <2>1 DEF Frames, BehindLog, BehindReading, BehindBuffer
<1> QED BY <1>3, <1>4

\* The ingest takes one frame from its page; it is logged, or counted.
LEMMA IngestLosesNone ==
  ASSUME PathInv, OrderInv, Ingest
  PROVE  Frames \subseteq Frames' \/ drops' # {}
<1> DEFINE x == Head(Current)
<1>1. /\ reading' = Tail(Current)
      /\ mbuf' = IF reading # <<>> THEN mbuf ELSE Tail(mbuf)
      /\ reading # <<>> \/ mbuf # <<>>
      /\ logged' = Append(logged, x) \/ drops' # {}
      /\ UNCHANGED <<ring, page>>
  BY DEF Ingest, NextOfPage, Current, Blocked
<1>2. Current \in Seq(Frame) /\ Current # <<>>
  BY <1>1, CurrentIs
<1>3. x \in Frame
  BY <1>2
<1>4. Range(Current) \subseteq {x} \cup Range(reading')
  <2> SUFFICES ASSUME NEW i \in DOMAIN Current PROVE Current[i] \in {x} \cup Range(reading')
    BY DEF Range
  <2>1. Current[i] = Head(Current)
        \/ (i - 1 \in DOMAIN Tail(Current) /\ Current[i] = Tail(Current)[i - 1])
    BY <1>2, HeadAndTail
  <2> QED BY <1>1, <2>1 DEF Range
<1> HIDE DEF x
<1>5. Range(reading) \cup InBuffer \subseteq Range(Current) \cup InBuffer'
  <2>1. CASE reading # <<>>
    BY <1>1, <2>1 DEF Current, InBuffer
  <2>2. CASE reading = <<>>
    <3>1. Current = Head(mbuf) /\ mbuf' = Tail(mbuf) /\ mbuf # <<>> /\ Range(reading) = {}
      BY <1>1, <2>2, EmptyIs DEF Current
    <3>2. mbuf \in Seq(Seq(Frame))
      BY DEF PathInv
    <3>3. ASSUME NEW k \in DOMAIN mbuf
          PROVE  Range(mbuf[k]) \subseteq Range(Current) \cup InBuffer'
      <4>1. mbuf[k] = Head(mbuf) \/ (k - 1 \in DOMAIN Tail(mbuf) /\ mbuf[k] = Tail(mbuf)[k - 1])
        BY <3>1, <3>2, HeadAndTail
      <4> QED BY <3>1, <4>1 DEF InBuffer
    <3> QED BY <3>1, <3>3 DEF InBuffer
  <2> QED BY <2>1, <2>2
<1>6. CASE logged' = Append(logged, x)
  <2>1. logged \in Seq(Frame)
    BY DEF PathInv
  <2>2. Range(logged') = Range(logged) \cup {x}
    BY <1>3, <1>6, <2>1, AppendIs
  <2>3. InRings' = InRings /\ page' = page
    BY <1>1 DEF InRings
  <2> QED BY <1>4, <1>5, <2>2, <2>3 DEF Frames, BehindLog, BehindReading, BehindBuffer
<1> QED BY <1>1, <1>6

\* Rings that are only put to lose nothing.
LEMMA GrownKeeps ==
  ASSUME PathInv, NEW num \in [Channels -> Seq(Nat)],
         ring' = [c \in Channels |-> PutAll(c, num[c])],
         UNCHANGED <<page, mbuf, reading, logged>>
  PROVE  Frames \subseteq Frames'
<1>1. InRings \subseteq InRings'
  <2> SUFFICES ASSUME NEW c \in Channels
               PROVE  Range(ring[c]) \subseteq Range(ring'[c])
    BY DEF InRings
  <2> SUFFICES ASSUME NEW i \in DOMAIN ring[c]
               PROVE  ring[c][i] \in Range(ring'[c])
    BY DEF Range
  <2>1. num[c] \in Seq(Nat) /\ ring'[c] = PutAll(c, num[c])
    OBVIOUS
  <2>2. /\ Len(ring[c]) \in Nat /\ Len(ring'[c]) \in Nat /\ Len(ring[c]) <= Len(ring'[c])
        /\ DOMAIN ring'[c] = 1..Len(ring'[c])
        /\ \A j \in 1..Len(ring[c]) : ring'[c][j] = ring[c][j]
    BY <2>1, PutAllIs
  <2>3. i \in 1..Len(ring[c])
    BY DEF PathInv
  <2>4. i \in DOMAIN ring'[c]
    BY <2>2, <2>3
  <2> QED BY <2>2, <2>3, <2>4 DEF Range
<1> QED BY <1>1 DEF Frames, BehindLog, BehindReading, BehindBuffer, InBuffer

\* Rings that have room take every frame.
LEMMA PutIsThere ==
  ASSUME PathInv, NEW c \in Channels, NEW num \in Seq(Nat),
         Len(num) <= RingLength - Len(ring[c]), NEW i \in 1..Len(num)
  PROVE  \E f \in Range(PutAll(c, num)) : f.ch = c /\ f.n = num[i]
<1> DEFINE t == PutAll(c, num)
           m == Len(ring[c])
           k == m + i
<1>1. /\ m \in Nat /\ DOMAIN t = 1..Len(t) /\ Len(t) = m + Len(num)
      /\ \A l \in (m + 1)..Len(t) : t[l].ch = c /\ t[l].n = num[l - m]
  BY PutAllIs
<1>2. Len(num) \in Nat
  OBVIOUS
<1> HIDE DEF t, m
<1>3. k \in (m + 1)..Len(t) /\ k \in 1..Len(t) /\ k - m = i
  BY <1>1, <1>2
<1> HIDE DEF k
<1>4. t[k].ch = c /\ t[k].n = num[i] /\ t[k] \in Range(t)
  BY <1>1, <1>3 DEF Range
<1> QED BY <1>4 DEF t

-----------------------------------------------------------------------------
\* A frame that comes is stored or left, or raises the interrupt.
LEMMA LossArrives ==
  ASSUME IInv, LossInv, NEW c \in Channels, FrameArrives(c)
  PROVE  LossInv'
<1>1. HwInv /\ PathInv /\ OrderInv
  BY DEF IInv
<1>2. /\ arrived' = [arrived EXCEPT ![c] = @ + 1]
      /\ left' = IF irqOn[c] THEN left ELSE [left EXCEPT ![c] = @ \cup {arrived[c] + 1}]
      /\ \/ /\ Len(fifo[c]) < FifoDepth
            /\ fifo' = [fifo EXCEPT ![c] = Append(@, arrived[c] + 1)]
            /\ overflowed' = overflowed
         \/ overflowed' = [overflowed EXCEPT ![c] = TRUE] /\ fifo' = fifo
      /\ UNCHANGED <<irqOn, seqIndex, pathVars, pc, drops, framesLost, session, logged>>
  BY DEF FrameArrives, pollVars, checkVars
<1>3. Frames' = Frames
  BY <1>1, <1>2, PathKept
<1>4. arrived[c] \in Nat /\ fifo[c] \in Seq(Nat) /\ left[c] \in SUBSET Nat
  BY <1>1 DEF HwInv, LossInv, HistInv
<1>5. HistInv'
  <2>1. arrived[c] + 1 \in Nat
    BY <1>4
  <2>2. left[c] \cup {arrived[c] + 1} \in SUBSET Nat
    BY <1>4, <2>1
  <2> QED BY <1>2, <2>2 DEF LossInv, HistInv
<1>6. \A d \in Channels : Range(fifo[d]) \subseteq Range(fifo'[d]) /\ left[d] \subseteq left'[d]
                          /\ (overflowed[d] => overflowed'[d])
  <2>1. \A d \in Channels : left[d] \subseteq left'[d]
    BY <1>2 DEF LossInv, HistInv
  <2>2. \A d \in Channels : overflowed[d] => overflowed'[d]
    BY <1>1, <1>2 DEF HwInv
  <2>3. CASE fifo' = [fifo EXCEPT ![c] = Append(@, arrived[c] + 1)]
    <3>1. fifo'[c] = Append(fifo[c], arrived[c] + 1) /\ \A d \in Channels \ {c} : fifo'[d] = fifo[d]
      BY <1>1, <2>3 DEF HwInv
    <3>2. \A i \in DOMAIN fifo[c] : i \in DOMAIN fifo'[c] /\ fifo'[c][i] = fifo[c][i]
      BY <1>4, <3>1
    <3>3. Range(fifo[c]) \subseteq Range(fifo'[c])
      BY <3>2 DEF Range
    <3> QED BY <2>1, <2>2, <3>1, <3>3
  <2>4. CASE fifo' = fifo
    BY <2>1, <2>2, <2>4
  <2> QED BY <1>2, <2>3, <2>4
<1>7. ASSUME NEW d \in Channels, NEW n \in (session'[d] + 1)..arrived'[d]
      PROVE  Kept(d, n)' \/ Noticed' \/ (overflowed'[d] /\ irqOn'[d])
  <2>1. arrived[d] \in Nat /\ session[d] \in Nat /\ session' = session
    BY <1>1, <1>2 DEF HwInv, LossInv, HistInv
  <2>2. CASE n \in (session[d] + 1)..arrived[d]
    <3>1. Kept(d, n) \/ Noticed \/ (overflowed[d] /\ irqOn[d])
      BY <2>2 DEF LossInv, LossesNoticed
    <3>2. Kept(d, n) => Kept(d, n)'
      BY <1>3, <1>6 DEF Kept
    <3> QED BY <1>2, <1>6, <3>1, <3>2 DEF Noticed
  <2>3. CASE n \notin (session[d] + 1)..arrived[d]
    <3>1. d = c
      BY <1>1, <1>2, <2>1, <2>3 DEF HwInv
    <3>2. arrived'[c] = arrived[c] + 1
      BY <1>1, <1>2 DEF HwInv
    <3>3. n = arrived[c] + 1
      BY <1>4, <2>1, <2>3, <3>1, <3>2
    <3>4. CASE ~irqOn[c]
      <4>1. left'[c] = left[c] \cup {n}
        BY <1>2, <3>3, <3>4 DEF LossInv, HistInv
      <4> QED BY <3>1, <4>1 DEF Kept
    <3>5. CASE irqOn[c] /\ fifo' = [fifo EXCEPT ![c] = Append(@, arrived[c] + 1)]
      <4>1. fifo'[c] = Append(fifo[c], n)
        BY <1>1, <3>3, <3>5 DEF HwInv
      <4>2. Len(fifo[c]) + 1 \in DOMAIN fifo'[c] /\ fifo'[c][Len(fifo[c]) + 1] = n
        BY <1>4, <3>3, <4>1
      <4>3. n \in Range(fifo'[c])
        BY <4>2 DEF Range
      <4> QED BY <3>1, <4>3 DEF Kept
    <3>6. CASE irqOn[c] /\ overflowed' = [overflowed EXCEPT ![c] = TRUE]
      BY <1>1, <1>2, <3>1, <3>6 DEF HwInv
    <3> QED BY <1>2, <3>4, <3>5, <3>6
  <2> QED BY <2>2, <2>3
<1>8. NoticeReported'
  BY <1>2 DEF LossInv, NoticeReported, pathVars
<1> QED BY <1>5, <1>7, <1>8 DEF LossInv, LossesNoticed

\* What the interrupt takes gets into a ring, or is counted.
LEMMA LossInterrupt ==
  ASSUME IInv, LossInv, NEW c \in Channels, RxInterrupt(c)
  PROVE  LossInv'
<1> DEFINE num == [d \in Channels |-> SubSeq(fifo[d], 1, Taken(d))]
<1>1. HwInv /\ PathInv /\ FifoInv /\ HistInv
  BY DEF IInv, LossInv
<1>2. /\ ring' = [d \in Channels |-> PutAll(d, num[d])]
      /\ \A d \in Channels : fifo'[d] = SubSeq(fifo[d], Taken(d) + 1, Len(fifo[d]))
      /\ irqOn' = [d \in Channels |-> irqOn[d] \/ Taken(d) > 0]
      /\ UNCHANGED <<page, mbuf, reading, logged, session, arrived, left, framesLost, pc>>
  BY DEF RxInterrupt, pollVars, histVars
<1>3. /\ drops' = drops \cup OverflowSeen \cup
                (IF \/ RingOverflows([d \in Channels |-> Taken(d)])
                    \/ \E d \in Channels : ReadRefused(d) THEN {"abs"} ELSE {})
  BY DEF RxInterrupt
<1>4. /\ drops \subseteq drops'
      /\ (\E d \in Channels : overflowed[d]) => drops' # {}
      /\ RingOverflows([d \in Channels |-> Taken(d)]) => drops' # {}
  BY <1>3 DEF OverflowSeen
<1>5. ASSUME NEW d \in Channels
      PROVE  /\ Taken(d) \in Nat /\ num[d] \in Seq(Nat) /\ Len(num[d]) = Taken(d)
             /\ \A i \in DOMAIN num[d] : num[d][i] = fifo[d][i]
             /\ DOMAIN num[d] = 1..Taken(d)
             /\ \A j \in DOMAIN fifo'[d] : fifo'[d][j] = fifo[d][Taken(d) + j]
             /\ DOMAIN fifo'[d] = 1..(Len(fifo[d]) - Taken(d))
             /\ DOMAIN fifo[d] = 1..Len(fifo[d]) /\ Len(fifo[d]) \in Nat
  <2>1. /\ Taken(d) \in Nat /\ num[d] \in Seq(Nat)
        /\ \A i \in DOMAIN num[d] : num[d][i] = fifo[d][i]
        /\ DOMAIN num[d] = 1..Taken(d)
        /\ \A j \in DOMAIN fifo'[d] : fifo'[d][j] = fifo[d][Taken(d) + j]
        /\ DOMAIN fifo'[d] = 1..(Len(fifo[d]) - Taken(d))
    BY <1>1, <1>2, TakenIs
  <2>2. Len(num[d]) = Taken(d)
    <3> HIDE DEF num
    <3> QED BY <2>1
  <2>3. DOMAIN fifo[d] = 1..Len(fifo[d]) /\ Len(fifo[d]) \in Nat
    BY <1>1 DEF HwInv
  <2> QED BY <2>1, <2>2, <2>3
<1>6. num \in [Channels -> Seq(Nat)]
  BY <1>5
<1> HIDE DEF num
<1>7. Frames \subseteq Frames'
  BY <1>1, <1>2, <1>6, GrownKeeps
<1>8. ASSUME NEW d \in Channels, NEW n, Kept(d, n), drops' = {}
      PROVE  Kept(d, n)'
  <2>1. CASE n \in left[d] \/ \E f \in Frames : f.ch = d /\ f.n = n
    BY <1>2, <1>7, <2>1 DEF Kept
  <2>2. CASE n \in Range(fifo[d])
    <3>1. PICK i \in DOMAIN fifo[d] : n = fifo[d][i]
      BY <2>2 DEF Range
    <3>2. CASE i \in 1..Taken(d)
      <4>1. ring'[d] = PutAll(d, num[d]) /\ num[d] \in Seq(Nat)
        BY <1>2, <1>5
      <4>2. Len(num[d]) <= RingLength - Len(ring[d])
        <5>1. ~(Taken(d) > RingLength - Len(ring[d]))
          BY <1>4, <1>8 DEF RingOverflows
        <5>2. RingLength \in Nat /\ Len(ring[d]) \in Nat
          BY <1>1, RxAssumption DEF PathInv
        <5>3. Len(num[d]) = Taken(d) /\ Taken(d) \in Nat
          BY <1>5
        <5> QED BY <5>1, <5>2, <5>3
      <4>3. i \in 1..Len(num[d]) /\ num[d][i] = n
        BY <1>5, <3>1, <3>2
      <4>4. PICK f \in Range(ring'[d]) : f.ch = d /\ f.n = n
        BY <1>1, <4>1, <4>2, <4>3, PutIsThere
      <4>5. f \in InRings'
        BY <4>4 DEF InRings
      <4> QED BY <4>4, <4>5 DEF Frames, BehindLog, BehindReading, BehindBuffer, Kept
    <3>3. CASE i \notin 1..Taken(d)
      <4>1. i - Taken(d) \in DOMAIN fifo'[d] /\ Taken(d) + (i - Taken(d)) = i
        BY <1>5, <3>1, <3>3
      <4>2. n = fifo'[d][i - Taken(d)]
        BY <1>5, <3>1, <4>1
      <4> QED BY <4>1, <4>2 DEF Kept, Range
    <3> QED BY <3>2, <3>3
  <2> QED BY <1>8, <2>1, <2>2 DEF Kept
<1>9. LossesNoticed'
  <2>1. Noticed => Noticed'
    BY <1>2, <1>4 DEF Noticed
  <2>2. \A d \in Channels : overflowed[d] /\ irqOn[d] => Noticed'
    BY <1>4 DEF Noticed
  <2>3. \A d \in Channels : \A n \in (session[d] + 1)..arrived[d] :
          Kept(d, n) => Kept(d, n)' \/ Noticed'
    BY <1>8 DEF Noticed
  <2> QED BY <1>2, <2>1, <2>2, <2>3, NoticesKept DEF LossInv
<1>10. HistInv'
  BY <1>1, <1>2 DEF HistInv
<1>11. NoticeReported'
  <2>1. irqOn[c] /\ irqOn'[c] = (irqOn[c] \/ Taken(c) > 0)
    BY <1>2 DEF RxInterrupt, Raised
  <2>2. irqOn'[c]
    BY <2>1, Zenon
  <2> QED BY <2>2 DEF NoticeReported
<1> QED BY <1>9, <1>10, <1>11 DEF LossInv

LEMMA LossBridge ==
  ASSUME IInv, LossInv, Bridge
  PROVE  LossInv'
<1>1. PathInv /\ OrderInv
  BY DEF IInv
<1>2. /\ UNCHANGED <<fifo, irqOn, pc, session, arrived, left, framesLost, reading, logged>>
      /\ drops \subseteq drops' /\ NoInterrupt /\ (draining # 0 \/ notified)
  BY DEF Bridge, BridgeWakes, BridgeMovesFrame, BridgeNextRing, hwVars, pollVars, checkVars, histVars
<1>3. Frames \subseteq Frames' \/ drops' # {}
  <2>1. CASE BridgeMovesFrame
    BY <1>1, <2>1, BridgeLosesNone
  <2>2. CASE BridgeWakes \/ BridgeNextRing
    <3>1. UNCHANGED <<ring, page, mbuf>>
      BY <2>2 DEF BridgeWakes, BridgeNextRing
    <3>2. Frames' = Frames
      BY <1>2, <3>1 DEF Frames, BehindLog, BehindReading, BehindBuffer, InRings, InBuffer
    <3> QED BY <3>2
  <2> QED BY <2>1, <2>2 DEF Bridge
<1>4. LossesNoticed'
  BY <1>2, <1>3, NoticesBelow DEF LossInv, Noticed
<1>5. NoticeReported'
  BY <1>2 DEF LossInv, NoticeReported
<1>6. HistInv'
  BY <1>2 DEF LossInv, HistInv
<1> QED BY <1>4, <1>5, <1>6 DEF LossInv

\* The frames a stop leaves in the controller are left.
LEMMA LossStopChannel ==
  ASSUME IInv, LossInv, StopChannel
  PROVE  LossInv'
<1>1. HwInv /\ PathInv /\ OrderInv /\ HistInv /\ chan \in Channels
  BY DEF IInv, LossInv, PollInv
<1>2. /\ UNCHANGED <<session, arrived, seqIndex, pathVars, drops, framesLost, logged>>
      /\ NoInterrupt /\ pc = "stop" /\ pc' \in {pc, "drain"}
  BY DEF StopChannel, TaskMayRun, checkVars
<1>3. \/ left' = left /\ fifo' = fifo
      \/ /\ left' = [left EXCEPT ![chan] = @ \cup Range(fifo[chan])]
         /\ \/ fifo' = [fifo EXCEPT ![chan] = fifo[chan]]
            \/ fifo' = [fifo EXCEPT ![chan] = <<>>]
            \/ fifo' = fifo
  BY DEF StopChannel, hwVars
<1>4. fifo \in [Channels -> Seq(Nat)] /\ left \in [Channels -> SUBSET Nat]
  BY <1>1 DEF HwInv, HistInv
<1>5. HistInv'
  <2>1. Range(fifo[chan]) \subseteq Nat
    <3>1. fifo[chan] \in Seq(Nat)
      BY <1>1, <1>4
    <3> QED BY <3>1 DEF Range
  <2>2. left[chan] \cup Range(fifo[chan]) \in SUBSET Nat
    BY <1>1, <1>4, <2>1
  <2>3. left' \in [Channels -> SUBSET Nat]
    BY <1>3, <1>4, <2>2
  <2> QED BY <1>1, <1>2, <2>3 DEF HistInv
<1>6. Frames' = Frames
  BY <1>1, <1>2, PathKept
<1>7. ASSUME NEW c \in Channels, NEW n, Kept(c, n)
      PROVE  Kept(c, n)'
  <2>1. left[c] \subseteq left'[c]
    BY <1>3, <1>4
  <2>2. CASE c # chan
    <3>1. fifo'[c] = fifo[c]
      BY <1>3, <1>4, <2>2
    <3> QED BY <1>6, <1>7, <2>1, <3>1 DEF Kept
  <2>3. CASE c = chan
    <3>1. fifo'[c] = fifo[c] \/ Range(fifo[c]) \subseteq left'[c]
      BY <1>1, <1>3, <1>4, <2>3
    <3> QED BY <1>6, <1>7, <2>1, <3>1 DEF Kept
  <2> QED BY <2>2, <2>3
<1>8. LossesNoticed'
  <2>1. \A c \in Channels : ~(overflowed[c] /\ irqOn[c])
    BY <1>2 DEF NoInterrupt, Raised
  <2>2. Noticed' <=> Noticed
    BY <1>2 DEF Noticed
  <2> QED BY <1>2, <1>7, <2>1, <2>2, NoticesKept DEF LossInv
<1>9. NoticeReported'
  BY <1>2 DEF NoticeReported
<1> QED BY <1>5, <1>8, <1>9 DEF LossInv

\* CanAbs_Drain adds to the rings, and counts what overflowed.
LEMMA LossDrain ==
  ASSUME IInv, LossInv, Drain
  PROVE  LossInv'
<1> DEFINE num == [c \in Channels |-> [i \in 1..Reads(c) |-> 0]]
<1>1. HwInv /\ PathInv
  BY DEF IInv
<1>2. /\ ring' = [c \in Channels |-> PutAll(c, num[c])]
      /\ UNCHANGED <<fifo, page, mbuf, reading, logged, session, arrived, left, framesLost>>
      /\ drops \subseteq drops' /\ NoInterrupt /\ pc' = "flush"
  BY DEF Drain, TaskMayRun, histVars
<1>3. num \in [Channels -> Seq(Nat)]
  <2> SUFFICES ASSUME NEW c \in Channels PROVE [i \in 1..Reads(c) |-> 0] \in Seq(Nat)
    OBVIOUS
  <2>1. Watermark \in Nat /\ Len(fifo[c]) \in Nat
    BY <1>1, RxAssumption DEF HwInv
  <2>2. Reads(c) \in Nat
    BY <2>1 DEF Reads, AtMost
  <2> QED BY <2>2
<1> HIDE DEF num
<1>4. Frames \subseteq Frames'
  BY <1>1, <1>2, <1>3, GrownKeeps
<1>5. LossesNoticed'
  BY <1>2, <1>4, NoticesBelow DEF LossInv, Noticed
<1> QED BY <1>2, <1>5 DEF LossInv, HistInv, NoticeReported

\* Steps of Core0Task1 that move no frame: the start forgets what was noticed along with
\* the frames it was about, the end of a poll reports it.
LEMMA LossPollSteps ==
  ASSUME IInv, LossInv, PollBegins \/ StartBegins \/ StartChannel \/ StopBegins
                 \/ LoopEnds \/ PollEnds \/ Request \/ Rotation
  PROVE  LossInv'
<1>1. PathInv /\ OrderInv /\ HwInv /\ HistInv
  BY DEF IInv, LossInv
<1>2. /\ UNCHANGED <<fifo, seqIndex, pathVars, arrived, left, logged>>
  BY DEF PollBegins, StartBegins, StartChannel, StopBegins, LoopEnds, PollEnds, Request, Rotation,
         hwVars, histVars
<1>3. Frames' = Frames
  BY <1>1, <1>2, PathKept
<1>4. TaskMayRun
  BY DEF PollBegins, StartBegins, StartChannel, StopBegins, LoopEnds, PollEnds, Request, Rotation,
         Blocked, MayRead
<1>5. CASE StartBegins
  <2>1. session' = arrived /\ pc' = "start"
    BY <1>5 DEF StartBegins
  <2>2. HistInv'
    BY <1>1, <1>2, <2>1 DEF HistInv, HwInv
  <2>3. \A c \in Channels : session'[c] = arrived'[c] /\ arrived'[c] \in Nat
    BY <1>1, <1>2, <2>1 DEF HwInv
  <2>4. LossesNoticed'
    <3>1. \A m \in Nat : (m + 1)..m = {}
      OBVIOUS
    <3> QED BY <2>3, <3>1 DEF LossesNoticed
  <2> QED BY <2>1, <2>2, <2>4 DEF LossInv, NoticeReported
<1>6. CASE ~StartBegins
  <2>1. session' = session /\ (Noticed => Noticed')
    <3>1. CASE PollBegins \/ StartChannel \/ StopBegins \/ LoopEnds \/ Request \/ Rotation
      BY <3>1 DEF PollBegins, StartChannel, StopBegins, LoopEnds, Request, Rotation, checkVars,
         histVars, Noticed
    <3>2. CASE PollEnds
      <4>1. session' = session /\ drops \subseteq drops'
            /\ framesLost' = (framesLost \/ drops' # {} \/ DeltaTooLarge(bridgeCount - managerCount))
        BY <3>2 DEF PollEnds, SyncEntryDropped, histVars
      <4>2. framesLost => framesLost'
        BY <4>1, Zenon
      <4> QED BY <4>1, <4>2 DEF Noticed
    <3> QED BY <1>6, <3>1, <3>2
  <2>2. HistInv'
    BY <1>1, <1>2, <2>1 DEF HistInv
  <2>3. LossesNoticed'
    BY <1>2, <1>3, <1>4, <2>1, NoticesBelow DEF LossInv, TaskMayRun
  <2>4. CASE PollEnds
    <3>1. draining' = 0 /\ ~notified'
      BY <1>2, <1>4 DEF TaskMayRun, pathVars
    <3>2. framesLost' = (framesLost \/ drops' # {} \/ DeltaTooLarge(bridgeCount - managerCount))
      BY <2>4 DEF PollEnds
    <3>3. drops' # {} => framesLost'
      BY <3>2, Zenon
    <3> QED BY <2>2, <2>3, <3>1, <3>3 DEF LossInv, NoticeReported
  <2>5. CASE ~PollEnds
    <3>1. pc' # "poll"
      BY <1>6, <2>5 DEF PollBegins, StartChannel, StopBegins, LoopEnds, Request, Rotation, Blocked,
         MayRead
    <3> QED BY <2>2, <2>3, <3>1 DEF LossInv, NoticeReported
  <2> QED BY <2>4, <2>5
<1> QED BY <1>5, <1>6

LEMMA LossStep ==
  ASSUME IInv, LossInv, [Next]_vars
  PROVE  LossInv'
<1>1. PathInv /\ OrderInv
  BY DEF IInv
<1>2. CASE Flush \/ Ingest
  <2>1. /\ UNCHANGED <<fifo, session, arrived, left, framesLost>>
        /\ drops \subseteq drops' /\ NoInterrupt /\ pc' # "poll"
    BY <1>2 DEF Flush, Ingest, MayRead, TaskMayRun, hwVars, checkVars, histVars, SyncEntryDropped
  <2>2. Frames \subseteq Frames' \/ drops' # {}
    BY <1>1, <1>2, FlushLosesNone, IngestLosesNone
  <2>3. LossesNoticed'
    BY <2>1, <2>2, NoticesBelow DEF LossInv, Noticed
  <2> QED BY <2>1, <2>3 DEF LossInv, HistInv, NoticeReported
<1>3. CASE UNCHANGED vars
  <2>1. /\ UNCHANGED <<seqIndex, pathVars, logged, fifo, left, session, arrived>>
        /\ UNCHANGED <<overflowed, irqOn, drops, framesLost, pc, draining, notified>>
    BY <1>3 DEF vars, hwVars, pathVars, pollVars, checkVars, histVars
  <2>2. Frames' = Frames
    BY <1>1, <2>1, PathKept
  <2>3. \A c \in Channels : \A n : Kept(c, n)' <=> Kept(c, n)
    BY <2>1, <2>2 DEF Kept
  <2> QED BY <2>1, <2>3 DEF LossInv, HistInv, LossesNoticed, NoticeReported, Noticed
<1> QED BY <1>2, <1>3, LossArrives, LossInterrupt, LossBridge, LossStopChannel, LossDrain,
           LossPollSteps DEF Next, Core0Task1


-----------------------------------------------------------------------------
(* The theorems                                                            *)

LEMMA InitInv == Init => IInv
<1> SUFFICES ASSUME Init PROVE IInv
  OBVIOUS
<1>1. 1 \in Channels /\ {FifoDepth, RingLength, PageFrames, MaxPages} \subseteq Nat
      /\ NumChannels \in Nat
  BY RxAssumption DEF Channels
<1>2. /\ <<>> \in Seq(Nat) /\ <<>> \in Seq(Seq(Frame)) /\ Len(<<>>) = 0 /\ DOMAIN <<>> = {}
      /\ <<>> \in Seq(Frame) /\ Range(<<>>) = {} /\ Sorted(<<>>)
  BY EmptyIs
<1>3. HwInv
  BY <1>1, <1>2 DEF Init, HwInv
<1>4. PollInv
  BY <1>1 DEF Init, PollInv
<1>5. PathInv
  <2>1. \A c \in Channels : ring[c] = <<>>
    BY DEF Init
  <2>2. \A c \in Channels : Len(ring[c]) <= RingLength /\ DOMAIN ring[c] = {}
    BY <1>1, <1>2, <2>1
  <2>3. /\ seqIndex \in [Channels -> Nat] /\ ring \in [Channels -> Seq(Frame)]
        /\ notified \in BOOLEAN /\ draining \in 0..NumChannels
    <3>1. draining \in 0..NumChannels /\ notified \in BOOLEAN
      <4>1. draining = 0 /\ notified = FALSE
        BY DEF Init
      <4>2. 0 \in 0..NumChannels
        BY <1>1
      <4> QED BY <4>1, <4>2
    <3>2. ring = [c \in Channels |-> <<>>] /\ seqIndex = [c \in Channels |-> 0]
      BY DEF Init
    <3> QED BY <1>2, <3>1, <3>2
  <2>4. /\ page \in Seq(Frame) /\ Len(page) <= PageFrames
        /\ mbuf \in Seq(Seq(Frame)) /\ Len(mbuf) <= MaxPages /\ DOMAIN mbuf = {}
        /\ reading \in Seq(Frame) /\ logged \in Seq(Frame)
    BY <1>1, <1>2 DEF Init
  <2> QED BY <2>2, <2>3, <2>4 DEF PathInv
<1>6. InRings = {} /\ InBuffer = {} /\ Frames = {} /\ BehindLog = {} /\ Range(page) = {}
  BY <1>2 DEF Init, InRings, InBuffer, Frames, BehindLog, BehindReading, BehindBuffer
<1>7. FifoInv
  BY <1>2, <1>6 DEF Init, FifoInv, Frames
<1>8. OrderInv
  <2>1. Range(logged) = {} /\ Range(reading) = {}
    BY <1>2 DEF Init
  <2> QED BY <1>2, <1>6, <2>1 DEF Init, OrderInv, AllBefore
<1> QED BY <1>3, <1>4, <1>5, <1>7, <1>8 DEF IInv

LEMMA StepInv == IInv /\ [Next]_vars => IInv'
<1> SUFFICES ASSUME IInv, [Next]_vars PROVE IInv'
  OBVIOUS
<1>1. CASE \E c \in Channels : FrameArrives(c) \/ RxInterrupt(c)
  BY <1>1, FrameArrivesKeeps, RxInterruptKeeps
<1>2. CASE Bridge
  BY <1>2, BridgeKeeps
<1>3. CASE Core0Task1
  BY <1>3, Core0Task1Keeps
<1>4. CASE Request \/ Rotation
  BY <1>4, PollStepsKeep
<1>5. CASE UNCHANGED vars
  <2>1. UNCHANGED <<hwVars, seqIndex, pathVars, pollVars, checkVars, arrived, logged>>
    BY <1>5 DEF vars, histVars
  <2>2. PollInv'
    BY <2>1, PollKept DEF IInv
  <2> QED BY <2>1, <2>2, NoFrameMoves
<1> QED BY <1>1, <1>2, <1>3, <1>4, <1>5 DEF Next

\* What the proofs rest on holds in every state of the receive path.
THEOREM Invariance == Spec => []IInv
BY InitInv, StepInv, PTL DEF Spec

\* Rings, pages and the buffer keep their sizes and hold frames, whatever interrupts,
\* tasks, starts and stops do.
THEOREM TypeCorrect == Spec => []TypeOK
<1>1. IInv => TypeOK
  BY DEF IInv, HwInv, PollInv, PathInv, TypeOK
<1> QED BY <1>1, Invariance, PTL

\* The frames of a channel are logged in the order in which the bus carried them,
\* for any number of frames, channels, starts, stops and failures, and any sizes.
THEOREM FramesLoggedInOrder == Spec => []LoggedInOrder
<1>1. IInv => LoggedInOrder
  BY DEF IInv, OrderInv, Sorted, Before, LoggedInOrder
<1> QED BY <1>1, Invariance, PTL

LEMMA CommitInvariance == Spec => []CommitInv
<1>1. Init => CommitInv
  <2> SUFFICES ASSUME Init PROVE CommitInv
    OBVIOUS
  <2>1. RingsServed
    BY DEF Init, RingsServed
  <2>2. DriversKnow
    BY DEF Init, DriversKnow, Quiet
  <2>3. StopInv /\ EmptyInv
    BY DEF Init, StopInv, EmptyInv
  <2> QED BY <2>1, <2>2, <2>3 DEF CommitInv
<1>2. IInv /\ CommitInv /\ [Next]_vars => CommitInv'
  <2> SUFFICES ASSUME IInv, CommitInv, [Next]_vars PROVE CommitInv'
    OBVIOUS
  <2>1. CASE \E c \in Channels : FrameArrives(c) \/ RxInterrupt(c)
    BY <2>1, CommitFrameArrives, CommitRxInterrupt
  <2>2. CASE Bridge
    BY <2>2, CommitBridge
  <2>3. CASE Core0Task1
    BY <2>3, CommitPollSteps, CommitStartChannel, CommitStopChannel, CommitDrain,
       CommitFlush, CommitIngest DEF Core0Task1
  <2>4. CASE Request \/ Rotation
    BY <2>4, CommitPollSteps
  <2>5. CASE UNCHANGED vars
    <3>1. UNCHANGED commitVars
      BY <2>5 DEF vars, commitVars, hwVars, pathVars, pollVars, checkVars, histVars
    <3> QED BY <3>1, CommitKept
  <2> QED BY <2>1, <2>2, <2>3, <2>4, <2>5 DEF Next
<1> QED BY <1>1, <1>2, Invariance, PTL DEF Spec

\* The poll that commits a recording does so behind its last frame, whatever the
\* interrupts and the bridge were doing when the stop began, unless a controller, the
\* store or the card failed.
THEOREM CommitIsLast == Spec => []CommitCoversSession
<1>1. CommitInv => CommitCoversSession
  <2> SUFFICES ASSUME CommitInv, pc = "end", commitLog, "store" \notin drops, ~openFailed,
                      faults = 0
               PROVE  InTransit = {} /\ \A c \in Channels : ~irqOn[c]
    BY DEF CommitCoversSession
  <2>1. NothingBefore /\ reading = <<>> /\ mbuf = <<>>
    BY DEF CommitInv, EmptyInv
  <2>2. \A c \in Channels : ring[c] = <<>>
    BY <2>1 DEF CommitInv, RingsServed, NothingBefore
  <2>3. Range(<<>>) = {} /\ DOMAIN <<>> = {}
    BY EmptyIs
  <2>4. InTransit = {}
    BY <2>1, <2>2, <2>3 DEF InTransit, NothingBefore
  <2> QED BY <2>4 DEF CommitInv, StopInv, Quiet
<1> QED BY <1>1, CommitInvariance, PTL

LEMMA DeltaInvariance == Spec => [](RestInv /\ DeltaInv)
<1>1. Init => RestInv /\ DeltaInv
  <2> SUFFICES ASSUME Init PROVE RestInv /\ DeltaInv
    OBVIOUS
  <2>1. RestInv
    BY DEF Init, RestInv, Quiet, NothingBefore
  <2> DEFINE f == [k \in 0..0 |-> 0]
  <2>2. /\ Len(<<>>) = 0 /\ f \in [0..0 -> Nat] /\ f[0] = 0
        /\ (\A k \in 1..0 : FALSE) /\ \A k \in 0..0 : k = 0
    OBVIOUS
  <2> HIDE DEF f
  <2>3. Counting(f)
    BY <2>2 DEF Init, Counting
  <2>4. DeltaInv
    BY <2>2, <2>3 DEF Init, DeltaInv
  <2> QED BY <2>1, <2>4
<1>2. IInv /\ CommitInv /\ CommitInv' /\ RestInv /\ DeltaInv /\ [Next]_vars => (RestInv /\ DeltaInv)'
  BY RestStep, DeltaStep
<1> QED BY <1>1, <1>2, Invariance, CommitInvariance, PTL DEF Spec

\* The ingest never counts more frames than the bridge, over any number of recordings,
\* unless a controller failed: the difference RuntimeChecks takes of the two does not wrap.
THEOREM CountersInStep == Spec => []DeltaDoesNotWrap
<1>1. IInv /\ DeltaInv => DeltaDoesNotWrap
  <2> SUFFICES ASSUME IInv, DeltaInv, faults = 0 PROVE managerCount <= bridgeCount
    BY DEF DeltaDoesNotWrap
  <2>1. PICK f \in [0..Len(mbuf) -> Nat] : Counting(f)
    BY DEF DeltaInv
  <2>2. /\ managerCount \in Nat /\ bridgeCount \in Nat /\ Len(reading) \in Nat
        /\ Len(page) \in Nat /\ Len(mbuf) \in Nat
    BY DEF IInv, PollInv, PathInv
  <2>3. f[0] = managerCount + Len(reading) /\ f[0] + Len(page) <= bridgeCount
    <3>1. 0 \in 0..Len(mbuf)
      BY <2>2
    <3> QED BY <2>1, <3>1 DEF Counting
  <2> QED BY <2>2, <2>3
<1> QED BY <1>1, Invariance, DeltaInvariance, PTL

LEMMA LossInvariance == Spec => []LossInv
<1>1. Init => LossInv
  <2> SUFFICES ASSUME Init PROVE LossInv
    OBVIOUS
  <2>1. HistInv
    BY DEF Init, HistInv
  <2>2. \A c \in Channels : session[c] = 0 /\ arrived[c] = 0 /\ (0 + 1)..0 = {}
    BY DEF Init
  <2>3. LossesNoticed
    BY <2>2 DEF LossesNoticed
  <2>4. NoticeReported
    BY DEF Init, NoticeReported
  <2> QED BY <2>1, <2>3, <2>4 DEF LossInv
<1>2. IInv /\ LossInv /\ [Next]_vars => LossInv'
  BY LossStep
<1> QED BY <1>1, <1>2, Invariance, PTL DEF Spec

\* A frame that was lost between the bus and the log, at a full FIFO, ring, page buffer or
\* store, is reported by framesLost once its recording has been stopped and checked, for
\* any number of frames, channels, recordings and failures, and any sizes.
THEOREM LossesReported == Spec => []LossIsReported
<1>1. IInv /\ LossInv => LossIsReported
  <2> SUFFICES ASSUME IInv, LossInv, Stopped, NEW c \in Channels, Lost(c) # {}
               PROVE  framesLost
    BY DEF LossIsReported
  <2>1. PICK n \in (session[c] + 1)..arrived[c] :
          n \notin Range(fifo[c]) \cup Numbers(InTransit \cup Range(logged), c) \cup left[c]
    BY DEF Lost
  <2>2. Frames = InTransit \cup Range(logged)
    BY DEF Frames, BehindLog, BehindReading, BehindBuffer, InTransit, InRings, InBuffer
  <2>3. ~Kept(c, n)
    BY <2>1, <2>2 DEF Kept, Numbers
  <2>4. Noticed
    BY <2>3 DEF LossInv, LossesNoticed, Stopped
  <2> QED BY <2>4 DEF LossInv, NoticeReported, Noticed, Stopped
<1> QED BY <1>1, Invariance, LossInvariance, PTL
=============================================================================
