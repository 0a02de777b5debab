------------------------- MODULE CanLogStore_proofs -------------------------
(***************************************************************************)
(* Proofs about CanLogStore for every block size, ring size and set of     *)
(* entry lengths that satisfy LayoutAssumption: what the ring and the card *)
(* hold, and that both implement FrameLog.  The bounds of the              *)
(* model-checked instance play no role.                                    *)
(***************************************************************************)
EXTENDS CanLogStore, FiniteSetTheorems, FunctionTheorems, TLAPS

-----------------------------------------------------------------------------
(* Offsets inside blocks.                                                  *)

LEMMA ConstantFacts ==
  /\ BlockSize \in Nat \ {0} /\ NumBlocks \in Nat /\ NumBlocks >= 2
  /\ HeaderSize \in Nat \ {0} /\ HeaderSize < BlockSize
  /\ Capacity \in Nat /\ Capacity = BlockSize * NumBlocks
  /\ SyncLen \in EntryLens
  /\ \A len \in EntryLens : len \in Nat \ {0} /\ HeaderSize + len < BlockSize
  /\ CntModulus \in Nat \ {0}
<1>1. SyncLen \in EntryLens
  BY DEF EntryLens
<1>2. /\ BlockSize \in Nat /\ NumBlocks \in Nat /\ NumBlocks >= 2
      /\ HeaderSize \in Nat \ {0} /\ CntModulus \in Nat \ {0}
      /\ \A len \in EntryLens : len \in Nat \ {0} /\ HeaderSize + len < BlockSize
  BY LayoutAssumption
<1>3. HeaderSize < BlockSize
  BY <1>1, <1>2
<1> QED
  BY <1>1, <1>2, <1>3 DEF Capacity

LEMMA DivisionFacts ==
  ASSUME NEW p \in Nat
  PROVE  /\ Offset(p) \in 0..(BlockSize - 1)
         /\ \E q \in Nat : p = BlockSize * q + Offset(p)
<1>1. p \div BlockSize \in Nat /\ p = BlockSize * (p \div BlockSize) + Offset(p)
  BY ConstantFacts DEF Offset
<1>2. Offset(p) \in 0..(BlockSize - 1)
  BY ConstantFacts DEF Offset
<1>3. \E q \in Nat : p = BlockSize * q + Offset(p)
  BY <1>1
<1> QED
  BY <1>2, <1>3

LEMMA DivisionUnique ==
  ASSUME NEW p \in Nat, NEW q \in Nat, NEW r \in 0..(BlockSize - 1),
         p = BlockSize * q + r
  PROVE  Offset(p) = r
<1>0. BlockSize \in Nat \ {0}
  BY ConstantFacts
<1>1. Offset(p) \in 0..(BlockSize - 1)
  BY DivisionFacts
<1>2. PICK k \in Nat : p = BlockSize * k + Offset(p)
  BY DivisionFacts
<1>3. CASE k >= q + 1
  <2>1. BlockSize * k >= BlockSize * (q + 1)
    BY <1>0, <1>3
  <2> QED
    BY <1>0, <1>1, <1>2, <2>1
<1>4. CASE k <= q - 1
  <2>1. BlockSize * k <= BlockSize * (q - 1)
    BY <1>0, <1>4
  <2> QED
    BY <1>0, <1>1, <1>2, <2>1
<1>5. CASE k = q
  BY <1>0, <1>1, <1>2, <1>5
<1> QED
  BY <1>3, <1>4, <1>5

\* Advancing within a block moves the offset by as much; reaching its end
\* gives offset 0.
LEMMA OffsetStep ==
  ASSUME NEW p \in Nat, NEW n \in Nat, Offset(p) + n <= BlockSize
  PROVE  Offset(p + n) = IF Offset(p) + n = BlockSize THEN 0 ELSE Offset(p) + n
<1>0. BlockSize \in Nat \ {0}
  BY ConstantFacts
<1>1. Offset(p) \in 0..(BlockSize - 1)
  BY DivisionFacts
<1>2. PICK q \in Nat : p = BlockSize * q + Offset(p)
  BY DivisionFacts
<1>3. CASE Offset(p) + n = BlockSize
  <2>1. p + n \in Nat /\ q + 1 \in Nat /\ 0 \in 0..(BlockSize - 1)
    BY <1>0
  <2>2. p + n = BlockSize * (q + 1) + 0
    BY <1>0, <1>1, <1>2, <1>3
  <2>3. Offset(p + n) = 0
    BY <2>1, <2>2, DivisionUnique
  <2> QED
    BY <1>3, <2>3
<1>4. CASE Offset(p) + n # BlockSize
  <2> DEFINE r == Offset(p) + n
             s == p + n
  <2>1. s \in Nat /\ r \in 0..(BlockSize - 1)
    BY <1>0, <1>1, <1>4
  <2>2. s = BlockSize * q + r
    BY <1>0, <1>1, <1>2
  <2> HIDE DEF r, s
  <2>3. Offset(s) = r
    BY <2>1, <2>2, DivisionUnique
  <2> QED
    BY <1>4, <2>3 DEF r, s
<1> QED
  BY <1>3, <1>4

\* Two block boundaries less than the ring's capacity apart leave at least one
\* whole block of it.
LEMMA AlignedGap ==
  ASSUME NEW p \in Nat, NEW r \in Nat, Offset(p) = 0, Offset(r) = 0,
         r <= p, p - r < Capacity
  PROVE  p - r <= Capacity - BlockSize
<1>0. BlockSize \in Nat \ {0} /\ NumBlocks \in Nat /\ Capacity = BlockSize * NumBlocks
  BY ConstantFacts
<1>1. PICK a \in Nat : p = BlockSize * a + Offset(p)
  BY DivisionFacts
<1>2. PICK b \in Nat : r = BlockSize * b + Offset(r)
  BY DivisionFacts
<1>3. p = BlockSize * a /\ r = BlockSize * b
  BY <1>0, <1>1, <1>2
<1>4. p - r = BlockSize * (a - b)
  BY <1>0, <1>3
<1>5. a - b < NumBlocks
  <2>1. SUFFICES ASSUME a - b >= NumBlocks PROVE FALSE
    BY <1>0
  <2>2. BlockSize * (a - b) >= BlockSize * NumBlocks
    BY <1>0, <2>1
  <2>3. p - r >= Capacity
    BY <1>0, <1>4, <2>2
  <2> QED
    BY <1>0, <2>3
<1>6. BlockSize * (a - b) <= BlockSize * (NumBlocks - 1)
  BY <1>0, <1>5
<1>7. BlockSize * (NumBlocks - 1) = Capacity - BlockSize
  BY <1>0
<1> QED
  BY <1>4, <1>6, <1>7

-----------------------------------------------------------------------------
(* The layout of the ring.  Placed describes a ring holding the items of R *)
(* up to the write position w, so that the turns of AddEntry's loop can be *)
(* followed one at a time.                                                 *)

EntriesOf(R) == {x \in R : x.kind # "pad"}

PointersOK(w) ==
  /\ w \in Nat /\ rPtr \in Nat
  /\ Offset(rPtr) = 0 /\ rPtr <= w /\ w - rPtr < Capacity
  /\ Offset(w) = 0 \/ Offset(w) >= HeaderSize

ItemsOK(R, w) ==
  /\ R \in SUBSET Item
  /\ \A x \in R : /\ rPtr <= x.at /\ x.at + x.len <= w
                  /\ HeaderSize <= Offset(x.at) /\ Offset(x.at) + x.len <= BlockSize
                  /\ x.kind = "pad" => Offset(x.at) + x.len = BlockSize
  /\ \A x, y \in R : x # y => x.at + x.len <= y.at \/ y.at + y.len <= x.at

\* every block the write position has entered begins with an entry
BlocksOpened(R, w) ==
  \A s \in rPtr..w :
    Offset(s) = 0 /\ s < w => \E x \in EntriesOf(R) : x.at = s + HeaderSize

\* entries stand in the order of their numbers, 1..n at most
Ordered(R, n) ==
  /\ \A x \in EntriesOf(R) : x.id \in 1..n
  /\ \A x, y \in EntriesOf(R) : x.at < y.at => x.id < y.id

Placed(R, w, n) ==
  PointersOK(w) /\ ItemsOK(R, w) /\ BlocksOpened(R, w) /\ Ordered(R, n)

PadItem(w) == [kind |-> "pad", id |-> 0, at |-> w, len |-> ToBoundary(w)]

\* Padding to the boundary, from AddEntry or from FillBlockWithPadding.
LEMMA PadKeepsPlaced ==
  ASSUME NEW R, NEW w, NEW n \in Nat, Placed(R, w, n),
         Offset(w) # 0, ToBoundary(w) <= FreeAt(w)
  PROVE  /\ Placed(R \cup {PadItem(w)}, w + ToBoundary(w), n)
         /\ Offset(w + ToBoundary(w)) = 0
<1> DEFINE v == w + ToBoundary(w)
<1>0. /\ w \in Nat /\ rPtr \in Nat /\ rPtr <= w /\ Offset(rPtr) = 0
      /\ Offset(w) >= HeaderSize
  BY DEF Placed, PointersOK
<1>1. BlockSize \in Nat \ {0} /\ HeaderSize \in Nat \ {0} /\ Capacity \in Nat
  BY ConstantFacts
<1>2. Offset(w) \in 1..(BlockSize - 1)
  BY <1>0, <1>1, DivisionFacts
<1>3. ToBoundary(w) \in 1..(BlockSize - 1) /\ Offset(w) + ToBoundary(w) = BlockSize
  BY <1>1, <1>2 DEF ToBoundary
<1>4. v \in Nat /\ Offset(v) = 0
  BY <1>0, <1>1, <1>2, <1>3, OffsetStep
<1>5. PadItem(w) \in Item
  BY <1>0, <1>3 DEF PadItem, Item
<1>6. PointersOK(v)
  BY <1>0, <1>1, <1>3, <1>4 DEF PointersOK, FreeAt
<1>7. ItemsOK(R \cup {PadItem(w)}, v)
  BY <1>0, <1>1, <1>2, <1>3, <1>5 DEF Placed, ItemsOK, PadItem, Item
<1>8. EntriesOf(R \cup {PadItem(w)}) = EntriesOf(R)
  BY DEF EntriesOf, PadItem
<1>9. BlocksOpened(R \cup {PadItem(w)}, v)
  <2> SUFFICES ASSUME NEW s \in rPtr..v, Offset(s) = 0, s < v
               PROVE  \E x \in EntriesOf(R) : x.at = s + HeaderSize
    BY <1>8 DEF BlocksOpened
  <2>1. s < w
    <3> SUFFICES ASSUME s >= w PROVE FALSE
      BY <1>0
    <3>1. s - w \in Nat /\ Offset(w) + (s - w) < BlockSize /\ w + (s - w) = s
      BY <1>0, <1>1, <1>2, <1>3
    <3>2. Offset(w + (s - w)) = Offset(w) + (s - w)
      BY <1>0, <1>1, <1>2, <3>1, OffsetStep
    <3> QED
      BY <1>2, <3>1, <3>2
  <2> QED
    BY <2>1, <1>0 DEF Placed, BlocksOpened
<1>10. Ordered(R \cup {PadItem(w)}, n)
  BY <1>8 DEF Placed, Ordered
<1> QED
  BY <1>4, <1>6, <1>7, <1>9, <1>10 DEF Placed

\* Writing an entry at e: w itself inside a block, or behind the header of the
\* block w opens.
LEMMA EntryKeepsPlaced ==
  ASSUME NEW R, NEW w, NEW n \in Nat, Placed(R, w, n),
         NEW kind \in {"frame", "sync"}, NEW len \in Nat \ {0},
         NEW e, e = IF Offset(w) = 0 THEN w + HeaderSize ELSE w,
         Offset(e) >= HeaderSize, Offset(e) + len <= BlockSize,
         (e + len) - rPtr < Capacity
  PROVE  Placed(R \cup {[kind |-> kind, id |-> n + 1, at |-> e, len |-> len]},
                e + len, n + 1)
<1> DEFINE x0 == [kind |-> kind, id |-> n + 1, at |-> e, len |-> len]
           S == R \cup {x0}
<1>0. /\ w \in Nat /\ rPtr \in Nat /\ rPtr <= w /\ Offset(rPtr) = 0
  BY DEF Placed, PointersOK
<1>1. BlockSize \in Nat \ {0} /\ HeaderSize \in Nat \ {0} /\ Capacity \in Nat
  BY ConstantFacts
<1>2. e \in Nat /\ w <= e /\ Offset(e) \in 0..(BlockSize - 1)
  <2>1. e \in Nat /\ w <= e
    BY <1>0, <1>1
  <2> QED
    BY <2>1, DivisionFacts
<1>3. Offset(e + len) = IF Offset(e) + len = BlockSize THEN 0 ELSE Offset(e) + len
  BY <1>2, OffsetStep
<1>4. PointersOK(e + len)
  BY <1>0, <1>1, <1>2, <1>3 DEF PointersOK
<1>5. x0 \in Item /\ x0.kind # "pad"
  BY <1>2 DEF Item
<1>6. ItemsOK(S, e + len)
  BY <1>0, <1>1, <1>2, <1>5 DEF Placed, ItemsOK, Item
<1>7. EntriesOf(S) = EntriesOf(R) \cup {x0}
  BY <1>5 DEF EntriesOf
<1>8. BlocksOpened(S, e + len)
  <2>0. x0 \in EntriesOf(S) /\ x0.at = e /\ EntriesOf(R) \subseteq EntriesOf(S)
    BY <1>7
  <2> HIDE DEF x0, S
  <2> SUFFICES ASSUME NEW s \in rPtr..(e + len), Offset(s) = 0, s < e + len
               PROVE  \E x \in EntriesOf(S) : x.at = s + HeaderSize
    BY DEF BlocksOpened
  <2>1. CASE s < w
    BY <2>0, <2>1, <1>0 DEF Placed, BlocksOpened
  <2>2. CASE s >= w /\ s < e
    <3>1. Offset(w) = 0 /\ e = w + HeaderSize
      BY <2>2, <1>0
    <3>2. s = w
      <4>1. s - w \in Nat /\ s - w < BlockSize /\ w + (s - w) = s
        BY <3>1, <2>2, <1>0, <1>1, ConstantFacts
      <4>2. Offset(w + (s - w)) = Offset(w) + (s - w)
        <5> DEFINE d == s - w
        <5>1. d \in Nat /\ Offset(w) + d < BlockSize
          BY <3>1, <4>1, <1>1
        <5> HIDE DEF d
        <5>2. Offset(w + d) = Offset(w) + d
          BY <5>1, <1>0, <1>1, <3>1, OffsetStep
        <5> QED
          BY <5>2 DEF d
      <4> QED
        BY <4>1, <4>2, <3>1, <1>0
    <3> QED
      BY <2>0, <3>1, <3>2
  <2>3. CASE s >= e
    <3>1. s - e \in Nat /\ Offset(e) + (s - e) < BlockSize /\ e + (s - e) = s
      BY <2>3, <1>1, <1>2
    <3>2. Offset(e + (s - e)) = Offset(e) + (s - e)
      BY <3>1, <1>1, <1>2, OffsetStep
    <3> QED
      BY <3>1, <3>2, <1>1, <1>2
  <2> QED
    BY <2>1, <2>2, <2>3, <1>0, <1>1, <1>2
<1>9. Ordered(S, n + 1)
  BY <1>0, <1>2, <1>5, <1>7 DEF Placed, Ordered, ItemsOK, EntriesOf, Item
<1> QED
  BY <1>4, <1>6, <1>8, <1>9 DEF Placed

\* The turns of AddEntry's loop that precede the entry.  A block is opened only
\* when the entry fits behind its header: no block is left without one.
LEMMA PaddingKeepsPlaced ==
  ASSUME NEW len \in EntryLens, NEW n \in Nat, Placed(ring, wPtr, n)
  PROVE  /\ Placed(ring \cup Padding(len), PaddedPtr(len), n)
         /\ PadFits(len) => \/ Offset(PaddedPtr(len)) = 0
                            \/ Offset(PaddedPtr(len)) + len <= BlockSize
         /\ HeaderDue(len) => EntryFits(len)
<1> DEFINE R == ring \cup Padding(len)
           p == PaddedPtr(len)
<1>0. /\ BlockSize \in Nat \ {0} /\ HeaderSize \in Nat \ {0} /\ Capacity \in Nat
      /\ len \in Nat \ {0} /\ HeaderSize + len < BlockSize
  BY ConstantFacts
<1>1. wPtr \in Nat /\ Offset(wPtr) \in 0..(BlockSize - 1)
  BY DivisionFacts DEF Placed, PointersOK
<1>2. /\ Placed(R, p, n)
      /\ PadFits(len) => Offset(p) = 0 \/ Offset(p) + len <= BlockSize
  <2>1. CASE MustPad(len) /\ PadFits(len)
    <3>1. p = wPtr + ToBoundary(wPtr) /\ R = ring \cup {PadItem(wPtr)}
      BY <2>1 DEF PaddedPtr, Padding, PadItem
    <3>2. Offset(wPtr) # 0 /\ ToBoundary(wPtr) <= FreeAt(wPtr)
      BY <2>1 DEF MustPad, PadFits
    <3> QED
      BY <3>1, <3>2, PadKeepsPlaced
  <2>2. CASE ~(MustPad(len) /\ PadFits(len))
    <3>1. p = wPtr /\ R = ring
      BY <2>2 DEF PaddedPtr, Padding
    <3>2. PadFits(len) => Offset(wPtr) = 0 \/ len <= BlockSize - Offset(wPtr)
      BY <2>2, <1>0, <1>1 DEF MustPad, ToBoundary
    <3>3. Placed(R, p, n)
      BY <3>1
    <3>4. PadFits(len) => Offset(p) = 0 \/ Offset(p) + len <= BlockSize
      <4> HIDE DEF p
      <4> QED
        BY <3>1, <3>2, <1>0, <1>1
    <3> QED
      BY <3>3, <3>4
  <2> QED
    BY <2>1, <2>2
<1>3. /\ p \in Nat /\ rPtr \in Nat /\ rPtr <= p /\ p - rPtr < Capacity
      /\ Offset(rPtr) = 0 /\ Offset(p) \in 0..(BlockSize - 1)
      /\ Offset(p) = 0 \/ Offset(p) >= HeaderSize
  BY <1>2, DivisionFacts DEF Placed, PointersOK
<1> HIDE DEF R, p
<1>4. HeaderDue(len) => EntryFits(len)
  <2> SUFFICES ASSUME HeaderDue(len) PROVE EntryFits(len)
    OBVIOUS
  <2>1. PadFits(len) /\ Offset(p) = 0
    BY DEF HeaderDue, p
  <2>2. p - rPtr <= Capacity - BlockSize
    BY <2>1, <1>3, AlignedGap
  <2>3. FreeAt(p) >= HeaderSize + len
    BY <2>2, <1>0, <1>3 DEF FreeAt
  <2>4. HeaderFits(len)
    BY <2>3, <1>0, <1>3 DEF HeaderFits, FreeAt, p
  <2>5. EntryPtr(len) = p + HeaderSize
    BY <2>4 DEF EntryPtr, p
  <2>6. len <= FreeAt(p + HeaderSize)
    BY <2>3, <1>0, <1>3 DEF FreeAt
  <2> QED
    BY <2>1, <2>4, <2>5, <2>6 DEF EntryFits
<1> QED
  BY <1>2, <1>4 DEF R, p

\* CanLogBuffer_AddEntry, whichever of its returns it takes.
LEMMA AddEntryKeepsPlaced ==
  ASSUME NEW len \in EntryLens, NEW n \in Nat, Placed(ring, wPtr, n),
         NEW kind \in {"frame", "sync"}
  PROVE  /\ EntryFits(len) =>
              Placed(ring \cup Padding(len)
                       \cup {[kind |-> kind, id |-> n + 1, at |-> EntryPtr(len), len |-> len]},
                     EntryPtr(len) + len, n + 1)
         /\ ~EntryFits(len) => Placed(ring \cup Padding(len), EntryPtr(len), n)
<1> DEFINE R == ring \cup Padding(len)
           p == PaddedPtr(len)
           e == EntryPtr(len)
<1>0. /\ BlockSize \in Nat \ {0} /\ HeaderSize \in Nat \ {0} /\ Capacity \in Nat
      /\ len \in Nat \ {0} /\ HeaderSize + len < BlockSize
  BY ConstantFacts
<1>2. /\ Placed(R, p, n)
      /\ PadFits(len) => Offset(p) = 0 \/ Offset(p) + len <= BlockSize
  BY PaddingKeepsPlaced
<1>3. /\ p \in Nat /\ rPtr \in Nat /\ rPtr <= p /\ p - rPtr < Capacity
      /\ Offset(rPtr) = 0 /\ Offset(p) \in 0..(BlockSize - 1)
      /\ Offset(p) = 0 \/ Offset(p) >= HeaderSize
  BY <1>2, DivisionFacts DEF Placed, PointersOK
<1>4. HeaderDue(len) => EntryFits(len)
  BY PaddingKeepsPlaced
<1> HIDE DEF R, p
<1>5. ASSUME EntryFits(len)
      PROVE  Placed(R \cup {[kind |-> kind, id |-> n + 1, at |-> e, len |-> len]},
                    e + len, n + 1)
  <2>1. PadFits(len) /\ HeaderFits(len) /\ len <= FreeAt(e)
    BY <1>5 DEF EntryFits
  <2>2. e = IF Offset(p) = 0 THEN p + HeaderSize ELSE p
    BY <2>1 DEF EntryPtr, HeaderDue, p
  <2>3. e \in Nat /\ (e + len) - rPtr < Capacity
    <3>1. e \in Nat
      BY <2>2, <1>0, <1>3
    <3> QED
      BY <3>1, <2>1, <1>0, <1>3 DEF FreeAt
  <2>4. Offset(e) >= HeaderSize /\ Offset(e) + len <= BlockSize
    <3>1. CASE Offset(p) = 0
      <4>1. Offset(p + HeaderSize) = HeaderSize
        BY <3>1, <1>0, <1>3, OffsetStep
      <4> QED
        BY <3>1, <4>1, <2>2, <1>0
    <3>2. CASE Offset(p) # 0
      BY <3>2, <2>1, <2>2, <1>2, <1>3
    <3> QED
      BY <3>1, <3>2
  <2> HIDE DEF e
  <2> QED
    BY <1>0, <1>2, <2>2, <2>3, <2>4, EntryKeepsPlaced
<1>6. ASSUME ~EntryFits(len)
      PROVE  Placed(R, e, n)
  <2>1. e = p
    BY <1>4, <1>6 DEF EntryPtr, p
  <2> QED
    BY <2>1, <1>2
<1> QED
  BY <1>5, <1>6 DEF R

\* What a reader at the read pointer finds: the walk over the block's entries
\* meets padding only behind the last of them.
LEMMA FirstBlock ==
  ASSUME NEW n \in Nat, Placed(ring, wPtr, n)
  PROVE  /\ SkipToAlign = 0
         /\ BlockEntries(rPtr) = {x \in Entries : x.at < rPtr + BlockSize}
         /\ \A x \in ring : x.at < rPtr + BlockSize => x.at + x.len <= rPtr + BlockSize
         /\ Full >= BlockSize => BlockEntries(rPtr) # {}
<1>0. BlockSize \in Nat \ {0} /\ HeaderSize \in Nat \ {0} /\ HeaderSize < BlockSize
  BY ConstantFacts
<1>1. /\ rPtr \in Nat /\ wPtr \in Nat /\ rPtr <= wPtr /\ Offset(rPtr) = 0
      /\ ring \in SUBSET Item
  BY DEF Placed, PointersOK, ItemsOK
<1>2. ASSUME NEW x \in ring, x.at < rPtr + BlockSize
      PROVE  Offset(x.at) = x.at - rPtr /\ x.at + x.len <= rPtr + BlockSize
  <2>1. x.at \in Nat /\ x.len \in Nat /\ rPtr <= x.at /\ Offset(x.at) + x.len <= BlockSize
    BY <1>1 DEF Placed, ItemsOK, Item
  <2> DEFINE d == x.at - rPtr
  <2>2. d \in Nat /\ d < BlockSize /\ x.at = rPtr + d
    BY <1>0, <1>1, <1>2, <2>1
  <2> HIDE DEF d
  <2>3. Offset(rPtr + d) = d
    BY <1>0, <1>1, <2>2, OffsetStep
  <2>4. Offset(x.at) = d
    BY <2>2, <2>3
  <2> QED
    BY <1>0, <1>1, <2>1, <2>2, <2>4
<1>3. SkipToAlign = 0
  BY <1>1 DEF SkipToAlign
<1>4. BlockEntries(rPtr) = {x \in Entries : x.at < rPtr + BlockSize}
  <2>1. ASSUME NEW x \in Entries, x.at < rPtr + BlockSize,
               NEW y \in ring, y.kind = "pad", y.at < rPtr + BlockSize
        PROVE  x.at < y.at
    <3>1. x \in ring /\ x # y
      BY <2>1 DEF Entries
    <3>2. /\ x.at \in Nat /\ x.len \in Nat \ {0} /\ y.at \in Nat /\ y.len \in Nat \ {0}
          /\ Offset(y.at) + y.len = BlockSize
          /\ x.at + x.len <= y.at \/ y.at + y.len <= x.at
      BY <2>1, <3>1 DEF Placed, ItemsOK, Item
    <3>3. y.at + y.len = rPtr + BlockSize
      BY <1>0, <1>1, <1>2, <2>1, <3>2
    <3> QED
      BY <1>0, <1>1, <2>1, <3>2, <3>3
  <2>2. \A x \in ring : rPtr <= x.at
    BY DEF Placed, ItemsOK
  <2> QED
    BY <2>1, <2>2 DEF BlockEntries, BlockItems, Entries
<1>5. Full >= BlockSize => BlockEntries(rPtr) # {}
  <2> SUFFICES ASSUME Full >= BlockSize PROVE BlockEntries(rPtr) # {}
    OBVIOUS
  <2>1. rPtr \in rPtr..wPtr /\ rPtr < wPtr
    BY <1>0, <1>1 DEF Full
  <2>2. PICK x \in EntriesOf(ring) : x.at = rPtr + HeaderSize
    BY <1>1, <2>1 DEF Placed, BlocksOpened
  <2>3. x \in Entries /\ x.at < rPtr + BlockSize
    BY <1>0, <1>1, <2>2 DEF Entries, EntriesOf
  <2> QED
    BY <1>4, <2>3
<1> QED
  BY <1>2, <1>3, <1>4, <1>5

\* Consuming the block at the read pointer drops exactly its items.
LEMMA ConsumeKeepsPlaced ==
  ASSUME NEW n \in Nat, Placed(ring, wPtr, n), Full >= BlockSize,
         Consume
  PROVE  /\ Placed(ring, wPtr, n)'
         /\ rPtr' = rPtr + BlockSize /\ wPtr' = wPtr
         /\ ring' = {x \in ring : x.at >= rPtr + BlockSize}
<1>0. BlockSize \in Nat \ {0} /\ HeaderSize \in Nat \ {0} /\ Capacity \in Nat
  BY ConstantFacts
<1>1. /\ rPtr \in Nat /\ wPtr \in Nat /\ rPtr <= wPtr /\ Offset(rPtr) = 0
      /\ wPtr - rPtr < Capacity
      /\ Offset(wPtr) = 0 \/ Offset(wPtr) >= HeaderSize
      /\ ring \in SUBSET Item
  BY DEF Placed, PointersOK, ItemsOK
<1>2. Offset(rPtr + BlockSize) = 0
  BY <1>0, <1>1, OffsetStep
<1>3. /\ rPtr' = rPtr + BlockSize /\ wPtr' = wPtr
      /\ ring' = {x \in ring : x.at >= rPtr + BlockSize}
  <2>1. (IF Full < BlockSize THEN Full ELSE BlockSize) = BlockSize
    BY <1>0, <1>1 DEF Full
  <2> QED
    BY <2>1, <1>2 DEF Consume
<1>4. PointersOK(wPtr)'
  <2>1. Offset(wPtr)' = Offset(wPtr)
    BY <1>3 DEF Offset
  <2>2. Offset(rPtr)' = 0
    BY <1>2, <1>3 DEF Offset
  <2> QED
    BY <2>1, <2>2, <1>0, <1>1, <1>3 DEF PointersOK, Full
<1>5. ItemsOK(ring, wPtr)'
  <2>1. \A x \in ring : x.at \in Nat /\ x.len \in Nat
    BY <1>1 DEF Item
  <2>2. \A p : Offset(p)' = Offset(p)
    BY DEF Offset
  <2> QED
    BY <1>0, <1>1, <1>3, <2>1 DEF Placed, ItemsOK, Offset
<1>6. EntriesOf(ring)' = {x \in EntriesOf(ring) : x.at >= rPtr + BlockSize}
  BY <1>3 DEF EntriesOf
<1>7. BlocksOpened(ring, wPtr)'
  <2> SUFFICES ASSUME NEW s \in (rPtr + BlockSize)..wPtr, Offset(s) = 0, s < wPtr
               PROVE  \E x \in EntriesOf(ring)' : x.at = s + HeaderSize
    BY <1>3 DEF BlocksOpened, Offset
  <2>1. s \in rPtr..wPtr
    BY <1>0, <1>1
  <2>2. PICK x \in EntriesOf(ring) : x.at = s + HeaderSize
    BY <2>1 DEF Placed, BlocksOpened
  <2>3. x.at >= rPtr + BlockSize
    BY <1>0, <1>1, <2>2
  <2> QED
    BY <1>6, <2>2, <2>3
<1>8. Ordered(ring, n)'
  BY <1>6 DEF Placed, Ordered
<1> QED
  BY <1>3, <1>4, <1>5, <1>7, <1>8 DEF Placed

-----------------------------------------------------------------------------
(* The inductive invariant.  CardInv relates the card to the ring: the two *)
(* share nothing, or (after a sync that failed behind a good write, and    *)
(* between a write and its Consume) exactly the block at the read pointer. *)

BlockIds == {x.id : x \in BlockEntries(rPtr)}

TypeInv == TypeOK /\ IsFiniteSet(ring)

CardInv ==
  /\ NothingLost
  /\ CardIds \cap RingIds = {} \/ (Full >= BlockSize /\ CardIds \cap RingIds = BlockIds)

WriterInv ==
  /\ pc \in {"read", "write", "consume"} => Full >= BlockSize
  /\ pc \in {"write", "consume"} => block.at = rPtr
  /\ pc = "consume" => BlockIds \subseteq CardIds

IInv == TypeInv /\ Placed(ring, wPtr, accepted) /\ CardInv /\ WriterInv

\* The initial state satisfies it: an empty ring and an empty card.
LEMMA InitIInv == Init => IInv
<1> SUFFICES ASSUME Init PROVE IInv
  OBVIOUS
<1> USE DEF Init, BufferInit
<1>0. /\ BlockSize \in Nat \ {0} /\ HeaderSize \in Nat \ {0} /\ Capacity \in Nat
      /\ Capacity > 0 /\ CntModulus \in Nat \ {0}
  <2>1. BlockSize * NumBlocks > 0
    BY ConstantFacts
  <2> QED
    BY <2>1, ConstantFacts
<1>1. Offset(0) = 0
  BY <1>0 DEF Offset
<1>2. TypeInv
  <2>1. NoBlock \in Block /\ card \in Seq(StoredBlock) /\ 0 \in 0..(CntModulus - 1)
    BY <1>0 DEF NoBlock, Block
  <2> QED
    BY <2>1, FS_EmptySet DEF TypeInv, TypeOK, BufferTypeOK
<1>3. Placed(ring, wPtr, accepted)
  BY <1>0, <1>1 DEF Placed, PointersOK, ItemsOK, BlocksOpened, Ordered, EntriesOf
<1>4. CardIds = {} /\ RingIds = {}
  BY DEF CardIds, RingIds, Entries
<1>5. CardInv
  BY <1>4 DEF CardInv, NothingLost
<1>6. WriterInv
  BY DEF WriterInv
<1> QED
  BY <1>2, <1>3, <1>5, <1>6 DEF IInv

\* A step of the producer leaves the block at the read pointer alone when it is
\* complete, and adds at most the next entry behind all the others.
LEMMA ProducerKeepsCardInv ==
  ASSUME IInv, Placed(ring, wPtr, accepted)', UNCHANGED <<rPtr, pc, block, card>>,
         wPtr <= wPtr', ring \subseteq ring', \A x \in ring' \ ring : x.at >= wPtr,
         NEW N, RingIds' = RingIds \cup N,
         \/ N = {} /\ accepted' = accepted
         \/ N = {accepted + 1} /\ accepted' = accepted + 1
  PROVE  CardInv' /\ WriterInv'
<1>0. BlockSize \in Nat \ {0}
  BY ConstantFacts
<1>1. /\ rPtr \in Nat /\ wPtr \in Nat /\ rPtr <= wPtr /\ accepted \in Nat
      /\ wPtr' \in Nat
      /\ ring \in SUBSET Item /\ ring' \in SUBSET Item
  BY DEF IInv, TypeInv, TypeOK, Placed, PointersOK, ItemsOK
<1>2. CardIds' = CardIds
  BY DEF CardIds
<1>3. Full >= BlockSize => Full' >= BlockSize /\ BlockIds' = BlockIds
  <2> SUFFICES ASSUME Full >= BlockSize
               PROVE  Full' >= BlockSize /\ BlockIds' = BlockIds
    OBVIOUS
  <2>1. wPtr - rPtr >= BlockSize /\ rPtr' = rPtr
    BY DEF Full
  <2>2. wPtr >= rPtr + BlockSize /\ Full' >= BlockSize
    <3> DEFINE v == wPtr'
    <3>1. v \in Nat /\ wPtr <= v /\ Full' = v - rPtr
      BY <1>1, <2>1 DEF Full
    <3> HIDE DEF v
    <3>2. wPtr >= rPtr + BlockSize /\ v - rPtr >= BlockSize
      BY <1>0, <1>1, <2>1, <3>1
    <3> QED
      BY <3>1, <3>2
  <2>3. \A x \in ring' : x.at < rPtr + BlockSize => x \in ring
    BY <1>0, <1>1, <2>2 DEF Item
  <2>4. BlockItems(rPtr)' = BlockItems(rPtr)
    BY <2>1, <2>3 DEF BlockItems
  <2>5. BlockEntries(rPtr)' = BlockEntries(rPtr)
    BY <2>4 DEF BlockEntries
  <2> QED
    BY <2>2, <2>5 DEF BlockIds
<1>4. /\ CardIds \cup RingIds = 1..accepted
      /\ \A x \in CardIds, y \in RingIds \ CardIds : x < y
      /\ CardIds \cap RingIds = {} \/ (Full >= BlockSize /\ CardIds \cap RingIds = BlockIds)
  BY DEF IInv, CardInv, NothingLost
<1>5. CardIds' \cup RingIds' = 1..accepted'
  BY <1>1, <1>2, <1>4
<1>6. \A x \in CardIds', y \in RingIds' \ CardIds' : x < y
  BY <1>1, <1>2, <1>4
<1>7. CardIds' \cap RingIds' = CardIds \cap RingIds
  BY <1>1, <1>2, <1>4
<1>8. CardInv'
  BY <1>3, <1>4, <1>5, <1>6, <1>7 DEF CardInv, NothingLost
<1>9. WriterInv'
  BY <1>2, <1>3 DEF IInv, WriterInv
<1> QED
  BY <1>8, <1>9

\* What AddEntry writes begins at the write position or behind it.
LEMMA AddEntryAdvances ==
  ASSUME NEW len \in EntryLens, wPtr \in Nat
  PROVE  /\ EntryPtr(len) \in Nat /\ wPtr <= EntryPtr(len)
         /\ Padding(len) \subseteq {PadItem(wPtr)} /\ IsFiniteSet(Padding(len))
<1>1. BlockSize \in Nat \ {0} /\ HeaderSize \in Nat \ {0}
  BY ConstantFacts
<1>2. ToBoundary(wPtr) \in Nat
  BY <1>1, DivisionFacts DEF ToBoundary
<1>3. PaddedPtr(len) \in Nat /\ wPtr <= PaddedPtr(len)
  BY <1>2 DEF PaddedPtr
<1>4. EntryPtr(len) \in Nat /\ wPtr <= EntryPtr(len)
  BY <1>1, <1>3 DEF EntryPtr
<1>5. Padding(len) \subseteq {PadItem(wPtr)}
  BY DEF Padding, PadItem
<1>6. IsFiniteSet(Padding(len))
  BY <1>5, FS_Singleton, FS_Subset
<1> QED
  BY <1>4, <1>5, <1>6

\* Core0Task1 stores a frame or a sync entry.
LEMMA StoreKeepsIInv ==
  ASSUME IInv, NEW kind \in {"frame", "sync"}, NEW len \in EntryLens,
         AddEntryOk(kind, accepted + 1, len), accepted' = accepted + 1,
         notified' \in BOOLEAN, UNCHANGED <<pc, block, card, aborted, faults>>
  PROVE  IInv'
<1> DEFINE x0 == [kind |-> kind, id |-> accepted + 1, at |-> EntryPtr(len), len |-> len]
<1>1. /\ TypeOK /\ IsFiniteSet(ring) /\ Placed(ring, wPtr, accepted)
      /\ accepted \in Nat /\ wPtr \in Nat /\ len \in Nat \ {0}
  BY ConstantFacts DEF IInv, TypeInv, TypeOK, BufferTypeOK
<1>2. EntryFits(len) /\ ring' = ring \cup Padding(len) \cup {x0} /\ wPtr' = EntryPtr(len) + len
  BY DEF AddEntryOk
<1>3. Placed(ring', EntryPtr(len) + len, accepted + 1)
  BY <1>1, <1>2, AddEntryKeepsPlaced
<1>4. rPtr' = rPtr
  BY DEF AddEntryOk
<1>5. Placed(ring, wPtr, accepted)'
  BY <1>2, <1>3, <1>4
     DEF Placed, PointersOK, ItemsOK, BlocksOpened, Ordered, EntriesOf, Offset
<1>6. /\ EntryPtr(len) \in Nat /\ wPtr <= EntryPtr(len)
      /\ Padding(len) \subseteq {PadItem(wPtr)} /\ IsFiniteSet(Padding(len))
  BY <1>1, AddEntryAdvances
<1>7. /\ wPtr <= wPtr' /\ ring \subseteq ring'
      /\ \A x \in ring' \ ring : x.at >= wPtr
  BY <1>1, <1>2, <1>6 DEF PadItem
<1>8. RingIds' = RingIds \cup {accepted + 1}
  <2>1. Entries' = Entries \cup {x0}
    BY <1>2, <1>6 DEF Entries, PadItem
  <2>2. x0.id = accepted + 1
    OBVIOUS
  <2> HIDE DEF x0
  <2> QED
    BY <2>1, <2>2 DEF RingIds
<1>9. CardInv' /\ WriterInv'
  BY <1>4, <1>5, <1>7, <1>8, ProducerKeepsCardInv
<1>10. TypeInv'
  <2>1. IsFiniteSet(ring')
    BY <1>1, <1>2, <1>6, FS_Union, FS_Singleton
  <2>2. ring' \in SUBSET Item /\ wPtr' \in Nat
    BY <1>5 DEF Placed, ItemsOK, PointersOK
  <2>3. UNCHANGED <<rPtr, blockCount>>
    BY <1>1 DEF AddEntryOk, TypeOK, BufferTypeOK
  <2> QED
    BY <1>1, <2>1, <2>2, <2>3 DEF TypeInv, TypeOK, BufferTypeOK
<1> QED
  BY <1>5, <1>9, <1>10 DEF IInv

\* Padding to the block boundary, by an entry that finds no room behind it or by
\* the commit.
LEMMA PadKeepsIInv ==
  ASSUME IInv, Placed(ring', wPtr', accepted), wPtr <= wPtr',
         NEW P, ring' = ring \cup P, P \subseteq {PadItem(wPtr)},
         UNCHANGED <<rPtr, blockCount>>,
         notified' \in BOOLEAN, UNCHANGED <<pc, block, card, accepted, aborted, faults>>
  PROVE  IInv'
<1>1. TypeOK /\ IsFiniteSet(ring) /\ wPtr \in Nat
  BY DEF IInv, TypeInv, TypeOK, BufferTypeOK
<1>2. Placed(ring, wPtr, accepted)'
  BY DEF Placed, PointersOK, ItemsOK, BlocksOpened, Ordered, EntriesOf, Offset
<1>3. Entries' = Entries
  BY DEF Entries, PadItem
<1>4. RingIds' = RingIds \cup {}
  BY <1>3 DEF RingIds
<1>5. \A x \in ring' \ ring : x.at >= wPtr
  BY <1>1 DEF PadItem
<1>6. CardInv' /\ WriterInv'
  BY <1>2, <1>4, <1>5, ProducerKeepsCardInv
<1>7. TypeInv'
  <2>1. IsFiniteSet(ring')
    BY <1>1, FS_Union, FS_Singleton, FS_Subset
  <2>2. ring' \in SUBSET Item /\ wPtr' \in Nat
    BY <1>2 DEF Placed, ItemsOK, PointersOK
  <2> QED
    BY <1>1, <2>1, <2>2 DEF TypeInv, TypeOK, BufferTypeOK
<1> QED
  BY <1>2, <1>6, <1>7 DEF IInv

\* The writer's steps that move neither the ring's items nor the card.
LEMMA QuietStepKeepsIInv ==
  ASSUME IInv, UNCHANGED <<ring, wPtr, rPtr, card, accepted>>,
         TypeOK', WriterInv'
  PROVE  IInv'
<1>1. TypeInv'
  BY DEF IInv, TypeInv
<1>2. Placed(ring, wPtr, accepted)'
  BY DEF IInv, Placed, PointersOK, ItemsOK, BlocksOpened, Ordered, EntriesOf, Offset
<1>3. CardIds' = CardIds /\ RingIds' = RingIds /\ BlockIds' = BlockIds /\ Full' = Full
  BY DEF CardIds, RingIds, Entries, BlockIds, BlockEntries, BlockItems, Full
<1>4. CardInv'
  BY <1>3 DEF IInv, CardInv, NothingLost
<1> QED
  BY <1>1, <1>2, <1>4 DEF IInv

\* The ids a complete block holds precede all the other ids in the ring.
LEMMA BlockComesFirst ==
  ASSUME IInv
  PROVE  /\ BlockIds \subseteq RingIds
         /\ RingIds \subseteq 1..accepted
         /\ \A x \in BlockIds, y \in RingIds \ BlockIds : x < y
         /\ {x.id : x \in {z \in Entries : z.at >= rPtr + BlockSize}} = RingIds \ BlockIds
<1>0. BlockSize \in Nat \ {0} /\ rPtr \in Nat /\ accepted \in Nat
  BY ConstantFacts DEF IInv, Placed, PointersOK, TypeInv, TypeOK
<1>1. Placed(ring, wPtr, accepted)
  BY DEF IInv
<1>2. BlockEntries(rPtr) = {x \in Entries : x.at < rPtr + BlockSize}
  BY <1>0, <1>1, FirstBlock
<1>3. \A x \in Entries : x.id \in 1..accepted /\ x.at \in Nat
  BY <1>1 DEF Placed, Ordered, ItemsOK, Item, Entries, EntriesOf
<1>4. \A x, y \in Entries : x.at < y.at => x.id < y.id
  BY <1>1 DEF Placed, Ordered, Entries, EntriesOf
<1>5. ASSUME NEW x \in Entries, NEW y \in Entries,
             x.at < rPtr + BlockSize, ~(y.at < rPtr + BlockSize)
      PROVE  x.id < y.id /\ x.id # y.id
  BY <1>0, <1>3, <1>4, <1>5
<1>6. BlockIds = {x.id : x \in {z \in Entries : z.at < rPtr + BlockSize}}
  BY <1>2 DEF BlockIds
<1>7. RingIds \ BlockIds = {x.id : x \in {z \in Entries : ~(z.at < rPtr + BlockSize)}}
  BY <1>5, <1>6 DEF RingIds
<1>8. {z \in Entries : z.at >= rPtr + BlockSize}
        = {z \in Entries : ~(z.at < rPtr + BlockSize)}
  BY <1>0, <1>3
<1>9. BlockIds \subseteq RingIds /\ RingIds \subseteq 1..accepted
  BY <1>3, <1>6 DEF RingIds
<1>10. \A x \in BlockIds, y \in RingIds \ BlockIds : x < y
  BY <1>5, <1>6, <1>7
<1> QED
  BY <1>7, <1>8, <1>9, <1>10

\* The card receives the block the writer read.
LEMMA CardReceivesBlock ==
  ASSUME IInv, pc = "write", card' = Append(card, Stored)
  PROVE  card' \in Seq(StoredBlock) /\ CardIds' = CardIds \cup BlockIds
<1>1. card \in Seq(StoredBlock) /\ block \in Block /\ block.at = rPtr
  BY DEF IInv, TypeInv, TypeOK, WriterInv
<1>2. Stored.ids = BlockIds
  BY <1>1 DEF Stored, BlockIds
<1>3. Stored \in StoredBlock
  <2>1. BlockIds \subseteq Nat
    BY BlockComesFirst DEF IInv, TypeInv, TypeOK
  <2> QED
    BY <1>1, <1>2, <2>1 DEF Stored, StoredBlock, Block
<1>4. card' \in Seq(StoredBlock)
  BY <1>1, <1>3
<1>5. /\ DOMAIN card' = DOMAIN card \cup {Len(card) + 1}
      /\ card'[Len(card) + 1] = Stored
      /\ \A i \in DOMAIN card : card'[i] = card[i]
  BY <1>1, <1>3
<1>6. CardIds' = CardIds \cup Stored.ids
  BY <1>5 DEF CardIds
<1> QED
  BY <1>2, <1>4, <1>6

\* A write that succeeded, whether or not the sync behind it did.
LEMMA WriteKeepsIInv ==
  ASSUME IInv, pc = "write", card' = Append(card, Stored), pc' \in {"consume", "wait"},
         UNCHANGED <<bufferVars, notified, block, accepted, aborted>>, faults' \in Nat
  PROVE  IInv'
<1>1. card' \in Seq(StoredBlock) /\ CardIds' = CardIds \cup BlockIds
  BY CardReceivesBlock
<1>2. UNCHANGED <<ring, wPtr, rPtr, blockCount>>
  BY DEF bufferVars
<1>3. TypeInv'
  BY <1>1, <1>2 DEF IInv, TypeInv, TypeOK, BufferTypeOK
<1>4. Placed(ring, wPtr, accepted)'
  BY <1>2 DEF IInv, Placed, PointersOK, ItemsOK, BlocksOpened, Ordered, EntriesOf, Offset
<1>5. RingIds' = RingIds /\ BlockIds' = BlockIds /\ Full' = Full
  BY <1>2 DEF RingIds, Entries, BlockIds, BlockEntries, BlockItems, Full
<1>6. /\ BlockIds \subseteq RingIds
      /\ \A x \in BlockIds, y \in RingIds \ BlockIds : x < y
  BY BlockComesFirst
<1>7. Full >= BlockSize
  BY DEF IInv, WriterInv
<1>8. /\ CardIds \cup RingIds = 1..accepted
      /\ \A x \in CardIds, y \in RingIds \ CardIds : x < y
      /\ CardIds \cap RingIds = {} \/ CardIds \cap RingIds = BlockIds
  BY DEF IInv, CardInv, NothingLost
<1>9. CardInv'
  <2>1. CardIds' \cup RingIds' = 1..accepted'
    BY <1>1, <1>5, <1>6, <1>8
  <2>2. \A x \in CardIds', y \in RingIds' \ CardIds' : x < y
    BY <1>1, <1>5, <1>6, <1>8
  <2>3. CardIds' \cap RingIds' = BlockIds'
    BY <1>1, <1>5, <1>6, <1>8
  <2>4. Full' >= BlockSize
    BY <1>5, <1>7
  <2> QED
    BY <2>1, <2>2, <2>3, <2>4 DEF CardInv, NothingLost
<1>10. WriterInv'
  <2>1. BlockIds' \subseteq CardIds' /\ block' = block /\ block.at = rPtr
    BY <1>1, <1>5 DEF IInv, WriterInv
  <2> QED
    BY <1>2, <1>5, <1>7, <2>1 DEF WriterInv
<1> QED
  BY <1>3, <1>4, <1>9, <1>10 DEF IInv

\* The writer gives back the block it has written.
LEMMA ConsumeKeepsIInv ==
  ASSUME IInv, ConsumeBlock
  PROVE  IInv'
<1>0. /\ BlockSize \in Nat \ {0} /\ accepted \in Nat /\ rPtr \in Nat /\ wPtr \in Nat
      /\ Placed(ring, wPtr, accepted) /\ ring \in SUBSET Item /\ IsFiniteSet(ring)
  BY ConstantFacts DEF IInv, TypeInv, TypeOK, BufferTypeOK
<1>1. Full >= BlockSize /\ BlockIds \subseteq CardIds
  BY DEF IInv, WriterInv, ConsumeBlock
<1>2. /\ Placed(ring, wPtr, accepted)' /\ rPtr' = rPtr + BlockSize /\ wPtr' = wPtr
      /\ ring' = {x \in ring : x.at >= rPtr + BlockSize}
  <2>1. Consume /\ accepted' = accepted
    BY DEF ConsumeBlock
  <2> QED
    BY <1>0, <1>1, <2>1, ConsumeKeepsPlaced
       DEF Placed, PointersOK, ItemsOK, BlocksOpened, Ordered, EntriesOf, Offset
<1>3. TypeInv'
  <2>1. UNCHANGED <<blockCount, notified, block, card, accepted, aborted, faults>>
        /\ pc' = "check"
    BY DEF ConsumeBlock, Consume
  <2>2. IsFiniteSet(ring') /\ ring' \in SUBSET Item
    BY <1>0, <1>2, FS_Subset
  <2> QED
    BY <1>0, <1>2, <2>1, <2>2 DEF IInv, TypeInv, TypeOK, BufferTypeOK
<1>4. RingIds' = RingIds \ BlockIds
  <2>1. Entries' = {z \in Entries : z.at >= rPtr + BlockSize}
    BY <1>2 DEF Entries
  <2> QED
    BY <2>1, BlockComesFirst DEF RingIds
<1>5. CardIds' = CardIds /\ accepted' = accepted
  BY DEF ConsumeBlock, CardIds
<1>6. /\ CardIds \cup RingIds = 1..accepted
      /\ \A x \in CardIds, y \in RingIds \ CardIds : x < y
      /\ CardIds \cap RingIds = {} \/ CardIds \cap RingIds = BlockIds
      /\ BlockIds \subseteq RingIds
  BY BlockComesFirst DEF IInv, CardInv, NothingLost
<1>7. CardInv'
  <2>1. CardIds' \cup RingIds' = 1..accepted' /\ CardIds' \cap RingIds' = {}
    BY <1>1, <1>4, <1>5, <1>6
  <2>2. \A x \in CardIds', y \in RingIds' \ CardIds' : x < y
    BY <1>4, <1>5, <1>6
  <2> QED
    BY <2>1, <2>2 DEF CardInv, NothingLost
<1>8. WriterInv'
  BY DEF ConsumeBlock, WriterInv
<1> QED
  BY <1>2, <1>3, <1>7, <1>8 DEF IInv

\* Taking the block in place moves nothing: the read pointer is always aligned.
LEMMA ReadKeepsIInv ==
  ASSUME IInv, ReadBlock
  PROVE  IInv'
<1>1. /\ TypeOK /\ IsFiniteSet(ring) /\ accepted \in Nat /\ rPtr \in Nat
      /\ Placed(ring, wPtr, accepted) /\ ring \in SUBSET Item
  BY DEF IInv, TypeInv, TypeOK, BufferTypeOK
<1>2. SkipToAlign = 0 /\ Full >= BlockSize
  BY <1>1, FirstBlock DEF IInv, WriterInv, ReadBlock
<1>3. AlignReadPtr => ring' = ring /\ rPtr' = rPtr
  <2>1. \A x \in ring : x.at >= rPtr
    BY <1>1 DEF Placed, ItemsOK, Item
  <2> QED
    BY <1>1, <1>2, <2>1 DEF AlignReadPtr
<1>4. /\ UNCHANGED <<ring, rPtr, wPtr>>
      /\ UNCHANGED <<notified, card, accepted, aborted, faults>>
  BY <1>3 DEF ReadBlock, ReadNextBlock, ReadNextBlockFails
<1>5. /\ blockCount' \in 0..(CntModulus - 1)
      /\ \/ pc' = "write" /\ block' \in Block /\ block'.at = rPtr
         \/ pc' = "wait" /\ block' = block
  <2>1. CASE NextBlockReadable
    <3>1. blockCount' = (blockCount + 1) % CntModulus
      BY <2>1 DEF ReadBlock, ReadNextBlock
    <3>2. blockCount' \in 0..(CntModulus - 1)
      BY <1>1, <3>1, ConstantFacts DEF TypeOK, BufferTypeOK
    <3>3. EntriesCount(rPtr) \in Nat
      <4>1. BlockEntries(rPtr) \subseteq ring
        BY DEF BlockEntries, BlockItems
      <4> QED
        BY <1>1, <4>1, FS_Subset, FS_CardinalityType DEF EntriesCount
    <3>4. EntriesCount(rPtr') = EntriesCount(rPtr)
      BY <1>4
    <3>5. block' = [at |-> rPtr', cnt |-> blockCount,
                    entries |-> EntriesCount(rPtr')] /\ pc' = "write"
      BY <2>1 DEF ReadBlock
    <3>6. blockCount \in Nat
      BY <1>1, ConstantFacts DEF TypeOK, BufferTypeOK
    <3> HIDE DEF EntriesCount
    <3> QED
      BY <1>1, <1>4, <3>2, <3>3, <3>4, <3>5, <3>6 DEF Block
  <2>2. CASE ~NextBlockReadable
    BY <1>1, <2>2 DEF ReadBlock, ReadNextBlockFails, TypeOK, BufferTypeOK
  <2> QED
    BY <2>1, <2>2
<1>6. TypeOK'
  BY <1>1, <1>4, <1>5 DEF TypeOK, BufferTypeOK
<1>7. WriterInv'
  BY <1>2, <1>4, <1>5 DEF WriterInv, Full
<1> QED
  BY <1>4, <1>6, <1>7, QuietStepKeepsIInv

LEMMA NextIInv == IInv /\ [Next]_vars => IInv'
<1> SUFFICES ASSUME IInv, [Next]_vars PROVE IInv'
  OBVIOUS
<1>0. /\ TypeOK /\ accepted \in Nat /\ wPtr \in Nat /\ rPtr \in Nat
      /\ Placed(ring, wPtr, accepted) /\ FrameLens \subseteq EntryLens /\ SyncLen \in EntryLens
  BY DEF IInv, TypeInv, TypeOK, BufferTypeOK, EntryLens
<1>1. ASSUME NEW len \in FrameLens, IngestFrame(len) PROVE IInv'
  <2>1. notified' \in BOOLEAN
    <3>1. IsBlockReady' \in BOOLEAN
      BY DEF IsBlockReady
    <3> QED
      BY <1>0, <1>1, <3>1 DEF IngestFrame, TypeOK
  <2> QED
    BY <1>0, <1>1, <2>1, StoreKeepsIInv DEF IngestFrame
<1>2. CASE IngestSync
  BY <1>0, <1>2, StoreKeepsIInv DEF IngestSync, TypeOK
<1>3. CASE IngestDrop
  <2>1. PICK len \in EntryLens : AddEntryFull(len)
    BY <1>3 DEF IngestDrop
  <2>2. /\ ~EntryFits(len) /\ ring' = ring \cup Padding(len) /\ wPtr' = EntryPtr(len)
        /\ UNCHANGED <<rPtr, blockCount>>
    BY <2>1 DEF AddEntryFull
  <2>3. Placed(ring', wPtr', accepted)
    BY <1>0, <2>2, AddEntryKeepsPlaced
  <2>4. wPtr <= wPtr' /\ Padding(len) \subseteq {PadItem(wPtr)}
    BY <1>0, <2>2, AddEntryAdvances
  <2> QED
    BY <1>0, <1>3, <2>2, <2>3, <2>4, PadKeepsIInv DEF IngestDrop, storeVars, TypeOK
<1>4. CASE Commit
  <2>1. UNCHANGED <<rPtr, blockCount>>
    BY <1>4 DEF Commit, FillBlockWithPadding
  <2>2. CASE Offset(wPtr) # 0 /\ FillPossible
    <3>1. /\ ring' = ring \cup {PadItem(wPtr)} /\ wPtr' = wPtr + ToBoundary(wPtr)
          /\ ToBoundary(wPtr) <= FreeAt(wPtr)
      BY <1>4, <2>2 DEF Commit, FillBlockWithPadding, FillPossible, PadItem
    <3>2. Placed(ring', wPtr', accepted)
      BY <1>0, <2>2, <3>1, PadKeepsPlaced
    <3>3. wPtr <= wPtr'
      <4>1. Offset(wPtr) \in 0..(BlockSize - 1) /\ BlockSize \in Nat
        BY <1>0, ConstantFacts, DivisionFacts
      <4>2. ToBoundary(wPtr) \in Nat
        BY <4>1 DEF ToBoundary
      <4> QED
        BY <1>0, <3>1, <4>2
    <3> QED
      BY <1>4, <2>1, <3>1, <3>2, <3>3, PadKeepsIInv DEF Commit
  <2>3. CASE ~(Offset(wPtr) # 0 /\ FillPossible)
    <3>1. ring' = ring /\ wPtr' = wPtr
      BY <1>4, <2>3 DEF Commit, FillBlockWithPadding
    <3>2. Placed(ring', wPtr', accepted) /\ wPtr <= wPtr'
      BY <1>0, <3>1
    <3> DEFINE P == {}
    <3>3. ring' = ring \cup P /\ P \subseteq {PadItem(wPtr)}
      BY <3>1
    <3> HIDE DEF P
    <3> QED
      BY <1>4, <2>1, <3>2, <3>3, PadKeepsIInv DEF Commit
  <2> QED
    BY <2>2, <2>3
<1>5. CASE Wake
  <2>1. TypeOK' /\ WriterInv'
    BY <1>0, <1>5 DEF Wake, bufferVars, TypeOK, BufferTypeOK, WriterInv
  <2> QED
    BY <1>5, <2>1, QuietStepKeepsIInv DEF Wake, bufferVars
<1>6. CASE CheckReady
  <2>1. IsBlockReady => Full >= BlockSize
    <3>1. SkipToAlign = 0
      BY <1>0, FirstBlock
    <3> QED
      BY <3>1, ConstantFacts DEF IsBlockReady
  <2>2. TypeOK' /\ WriterInv'
    BY <1>0, <1>6, <2>1 DEF CheckReady, bufferVars, TypeOK, BufferTypeOK, WriterInv, Full
  <2> QED
    BY <1>6, <2>2, QuietStepKeepsIInv DEF CheckReady, bufferVars
<1>7. CASE ReadBlock
  BY <1>7, ReadKeepsIInv
<1>8. CASE WriteOk
  BY <1>0, <1>8, WriteKeepsIInv DEF WriteOk, TypeOK
<1>9. CASE WriteTimesOut
  <2>1. TypeOK' /\ WriterInv'
    BY <1>0, <1>9 DEF WriteTimesOut, bufferVars, TypeOK, BufferTypeOK, WriterInv
  <2> QED
    BY <1>9, <2>1, QuietStepKeepsIInv DEF WriteTimesOut, bufferVars
<1>10. CASE WriteAborts
  <2>1. TypeOK' /\ WriterInv'
    BY <1>0, <1>10 DEF WriteAborts, bufferVars, TypeOK, BufferTypeOK, WriterInv
  <2> QED
    BY <1>10, <2>1, QuietStepKeepsIInv DEF WriteAborts, bufferVars
<1>11. CASE SyncFails
  BY <1>0, <1>11, WriteKeepsIInv DEF SyncFails, TypeOK
<1>12. CASE ConsumeBlock
  BY <1>12, ConsumeKeepsIInv
<1>13. CASE UNCHANGED vars
  <2>1. TypeOK' /\ WriterInv'
    BY <1>0, <1>13
       DEF vars, bufferVars, storeVars, TypeOK, BufferTypeOK, IInv, WriterInv, Full,
           BlockIds, BlockEntries, BlockItems, CardIds
  <2> QED
    BY <1>13, <2>1, QuietStepKeepsIInv DEF vars, bufferVars, storeVars
<1> QED
  BY <1>1, <1>2, <1>3, <1>4, <1>5, <1>6, <1>7, <1>8, <1>9, <1>10, <1>11, <1>12, <1>13
     DEF Next, Producer, SdBridge

-----------------------------------------------------------------------------
(* What the runs check, for every layout the assumption allows.            *)

\* The invariant is inductive, so every reachable state satisfies it.
THEOREM Invariance == Spec => []IInv
<1> QED
  BY InitIInv, NextIInv, PTL DEF Spec

\* Pointers, counters, the block descriptor and the card's blocks stay of their
\* types; the block sequence number stays below its modulus.
THEOREM TypeCorrect == Spec => []TypeOK
<1>1. IInv => TypeOK
  BY DEF IInv, TypeInv
<1> QED
  BY <1>1, Invariance, PTL

\* Whatever fails and however the tasks interleave, an accepted entry is on the
\* card or in the ring, and the card holds a prefix of the accepted entries.
THEOREM NoEntryLost == Spec => []NothingLost
<1>1. IInv => NothingLost
  BY DEF IInv, CardInv
<1> QED
  BY <1>1, Invariance, PTL

\* No entry crosses a block boundary, touches a block header or overlaps another.
THEOREM BlockLayout == Spec => []EntriesWithinBlocks
<1>1. ASSUME IInv PROVE EntriesWithinBlocks
  <2>1. /\ ItemsOK(ring, wPtr) /\ ring \in SUBSET Item
        /\ \A x, y \in Entries : x.at < y.at => x.id < y.id
        /\ \A x \in Entries : x.id \in 1..accepted
    BY <1>1 DEF IInv, Placed, ItemsOK, Ordered, Entries, EntriesOf
  <2>2. ASSUME NEW x \in Entries, NEW y \in Entries, x.id < y.id
        PROVE  x.at + x.len <= y.at
    <3>1. /\ x \in ring /\ y \in ring /\ x # y /\ x.id \in Nat /\ y.id \in Nat
          /\ x.at \in Nat /\ y.at \in Nat /\ x.len \in Nat \ {0} /\ y.len \in Nat \ {0}
      BY <2>1, <2>2 DEF Entries, Item
    <3>2. x.at + x.len <= y.at \/ y.at + y.len <= x.at
      BY <2>1, <3>1 DEF ItemsOK
    <3>3. ~(y.at < x.at)
      <4>1. y.at < x.at => y.id < x.id
        BY <2>1
      <4> QED
        BY <2>2, <3>1, <4>1
    <3>4. ~(y.at + y.len <= x.at)
      BY <3>1, <3>3
    <3> QED
      BY <3>2, <3>4
  <2>3. \A x \in Entries : /\ Offset(x.at) >= HeaderSize
                            /\ Offset(x.at) + x.len <= BlockSize
                            /\ rPtr <= x.at /\ x.at + x.len <= wPtr
    <3>1. \A x \in Entries : Offset(x.at) \in 0..(BlockSize - 1)
      BY <2>1, DivisionFacts DEF Entries, Item
    <3> QED
      BY <2>1, <3>1, ConstantFacts DEF ItemsOK, Entries
  <2> QED
    BY <2>2, <2>3 DEF EntriesWithinBlocks
<1> QED
  BY <1>1, Invariance, PTL

\* A block the writer is told about can be read: it holds an entry, in front of
\* any padding, and it is contiguous in memory.
THEOREM ReadyBlocksAreReadable == Spec => []ReadyBlockIsReadable
<1>1. ASSUME IInv PROVE ReadyBlockIsReadable
  <2>1. Placed(ring, wPtr, accepted) /\ accepted \in Nat /\ rPtr \in Nat /\ wPtr \in Nat
    BY <1>1 DEF IInv, TypeInv, TypeOK, BufferTypeOK
  <2>2. SkipToAlign = 0 /\ (Full >= BlockSize => BlockEntries(rPtr) # {})
    BY <2>1, FirstBlock
  <2>3. BlockEntries(rPtr + SkipToAlign) = BlockEntries(rPtr)
    BY <2>1, <2>2
  <2>4. BlockSize \in Nat /\ Full \in Int
    BY <2>1, ConstantFacts DEF Full
  <2>5. SUFFICES ASSUME IsBlockReady PROVE NextBlockReadable
    BY DEF ReadyBlockIsReadable
  <2>6. Full >= BlockSize /\ LinearRead >= BlockSize
    BY <2>2, <2>4, <2>5 DEF IsBlockReady
  <2> HIDE DEF SkipToAlign
  <2> QED
    BY <2>2, <2>3, <2>4, <2>6 DEF NextBlockReadable
<1> QED
  BY <1>1, Invariance, PTL

\* AddEntry gives up on an entry only when less than a block is free.
THEOREM FullOnlyWhenFull == Spec => []FullMeansFull
<1>1. ASSUME IInv PROVE FullMeansFull
  <2> SUFFICES ASSUME NEW len \in EntryLens, ~EntryFits(len)
               PROVE  FreeAt(wPtr) < BlockSize
    BY DEF FullMeansFull
  <2>1. Placed(ring, wPtr, accepted) /\ accepted \in Nat /\ wPtr \in Nat /\ rPtr \in Nat
    BY <1>1 DEF IInv, TypeInv, TypeOK, BufferTypeOK
  <2>2. /\ BlockSize \in Nat \ {0} /\ len \in Nat /\ len < BlockSize /\ Capacity \in Nat
        /\ Offset(wPtr) \in 0..(BlockSize - 1)
    BY <2>1, ConstantFacts, DivisionFacts
  <2>3. ~HeaderDue(len)
    BY <2>1, PaddingKeepsPlaced
  <2>4. ToBoundary(wPtr) \in 0..BlockSize /\ FreeAt(wPtr) \in Int
    BY <2>1, <2>2 DEF ToBoundary, FreeAt
  <2>5. CASE ~PadFits(len)
    <3>1. Offset(wPtr) # 0 /\ ToBoundary(wPtr) > FreeAt(wPtr)
      BY <2>4, <2>5 DEF PadFits, MustPad
    <3> QED
      BY <2>2, <2>4, <3>1
  <2>6. CASE PadFits(len)
    <3>1. Offset(PaddedPtr(len)) # 0
      BY <2>3, <2>6 DEF HeaderDue
    <3>2. PaddedPtr(len) = wPtr
      <4>1. MustPad(len) => Offset(wPtr + ToBoundary(wPtr)) = 0
        <5>1. MustPad(len) => Offset(wPtr) # 0 /\ ToBoundary(wPtr) <= FreeAt(wPtr)
          BY <2>6 DEF MustPad, PadFits
        <5> QED
          BY <2>1, <5>1, PadKeepsPlaced
      <4> QED
        BY <3>1, <4>1 DEF PaddedPtr
    <3>3. len > FreeAt(EntryPtr(len)) /\ EntryPtr(len) = wPtr
      <4>1. EntryPtr(len) = wPtr /\ HeaderFits(len)
        BY <2>3, <3>2 DEF EntryPtr, HeaderFits
      <4> QED
        BY <2>2, <2>4, <2>6, <4>1 DEF EntryFits
    <3> QED
      BY <2>2, <2>4, <3>3
  <2> QED
    BY <2>5, <2>6
<1> QED
  BY <1>1, Invariance, PTL

\* The detailed specification implements the ordered log: storing an entry
\* accepts it, a write to the card persists a prefix, all else stutters.
THEOREM Refinement == Spec => ImplementsFrameLog
<1>1. Init => Log!Init
  BY DEF Init, Log!Init, CardIds
<1>2. ASSUME IInv, IInv', [Next]_vars PROVE [Log!Next]_<<accepted, CardIds>>
  <2>1. card' = card => CardIds' = CardIds
    BY DEF CardIds
  <2>2. CASE \E len \in FrameLens : IngestFrame(len)
    BY <2>1, <2>2 DEF IngestFrame, Log!Next, Log!Accept
  <2>3. CASE IngestSync
    BY <2>1, <2>3 DEF IngestSync, Log!Next, Log!Accept
  <2>4. CASE IngestDrop
    BY <2>1, <2>4 DEF IngestDrop, storeVars
  <2>5. CASE Commit
    BY <2>1, <2>5 DEF Commit
  <2>6. CASE WriteOk \/ SyncFails
    <3>1. pc = "write" /\ card' = Append(card, Stored) /\ accepted' = accepted
      BY <2>6 DEF WriteOk, SyncFails
    <3>2. CardIds' = CardIds \cup BlockIds
      BY <1>2, <3>1, CardReceivesBlock
    <3>3. /\ CardIds' \cup RingIds' = 1..accepted
          /\ \A x \in CardIds', y \in RingIds' \ CardIds' : x < y
      BY <1>2, <3>1 DEF IInv, CardInv, NothingLost
    <3>4. Log!Persist
      BY <3>1, <3>2, <3>3 DEF Log!Persist
    <3> QED
      BY <3>4 DEF Log!Next
  <2>7. CASE Wake \/ CheckReady \/ ReadBlock \/ WriteTimesOut \/ WriteAborts \/ ConsumeBlock
    BY <2>1, <2>7
       DEF Wake, CheckReady, ReadBlock, WriteTimesOut, WriteAborts, ConsumeBlock
  <2>8. CASE UNCHANGED vars
    BY <2>1, <2>8 DEF vars, storeVars
  <2> QED
    BY <1>2, <2>2, <2>3, <2>4, <2>5, <2>6, <2>7, <2>8 DEF Next, Producer, SdBridge
<1> QED
  BY <1>1, <1>2, Invariance, PTL DEF Spec, ImplementsFrameLog, Log!Spec

-----------------------------------------------------------------------------
(* What the writer leaves on the card: the blocks are in order, repeated only
   behind a failed sync, and each header counts the entries of its block.  *)

\* Where a block of the card is still in the ring it is the block at the read
\* pointer, it ends the card, and only a failed sync brought it there - or the
\* writer is about to consume it.
RepeatInv ==
  /\ \A i \in DOMAIN card :
       card[i].ids \cap RingIds # {} => \A k \in i..Len(card) : card[k].ids = BlockIds
  /\ CardIds \cap RingIds # {} => faults > 0 \/ pc = "consume"

\* The header of the block in hand counts what is in its place.
HeaderInv == pc = "write" => block.entries = EntriesCount(rPtr)

CInv == CardInOrder /\ RepeatInv /\ HeaderMatchesBlock /\ HeaderInv

-----------------------------------------------------------------------------
(* Lemmas                                                                  *)

\* Entries of a block have different numbers: it has as many of the one as of
\* the other.
LEMMA CountsNumbers ==
  ASSUME IInv
  PROVE  EntriesCount(rPtr) = Cardinality(BlockIds)
<1> DEFINE S == BlockEntries(rPtr)
           f == [x \in S |-> x.id]
<1>1. IsFiniteSet(S) /\ S \subseteq EntriesOf(ring)
  <2>1. S \subseteq ring /\ IsFiniteSet(ring)
    BY DEF BlockEntries, BlockItems, IInv, TypeInv
  <2> QED
    BY <2>1, FS_Subset DEF BlockEntries, EntriesOf
<1>2. \A x, y \in S : x.id = y.id => x = y
  <2> SUFFICES ASSUME NEW x \in S, NEW y \in S, x.id = y.id, x # y PROVE FALSE
    OBVIOUS
  <2>1. /\ x \in EntriesOf(ring) /\ y \in EntriesOf(ring)
        /\ x \in ring /\ y \in ring /\ ring \in SUBSET Item
        /\ x.at + x.len <= y.at \/ y.at + y.len <= x.at
    BY <1>1 DEF IInv, Placed, ItemsOK, EntriesOf
  <2>2. /\ x.at \in Nat /\ y.at \in Nat /\ x.len \in Nat \ {0} /\ y.len \in Nat \ {0}
        /\ x.id \in Nat /\ y.id \in Nat
    BY <2>1 DEF Item
  <2>3. x.at < y.at \/ y.at < x.at
    BY <2>1, <2>2
  <2>4. x.id < y.id \/ y.id < x.id
    BY <2>1, <2>3 DEF IInv, Placed, Ordered
  <2> QED
    BY <2>2, <2>4
<1>3. BlockIds = {x.id : x \in S}
  BY DEF BlockIds
<1> HIDE DEF S
<1>4. f \in Bijection(S, BlockIds)
  <2>1. f \in [S -> BlockIds] /\ \A x \in S : f[x] = x.id
    BY <1>3
  <2>2. \A n \in BlockIds : \E x \in S : x.id = n
    BY <1>3
  <2> HIDE DEF f
  <2>3. \A x, y \in S : f[x] = f[y] => x = y
    BY <1>2, <2>1
  <2>4. \A n \in BlockIds : \E x \in S : f[x] = n
    BY <2>1, <2>2
  <2> QED
    BY <2>1, <2>3, <2>4, Fun_IsBij
<1>5. Cardinality(BlockIds) = Cardinality(S)
  BY <1>1, <1>4, FS_Bijection DEF ExistsBijection
<1> QED
  BY <1>5 DEF EntriesCount, S

\* What the steps of the ingest task have in common.
LEMMA ProducerFrame ==
  ASSUME IInv, Producer
  PROVE  /\ UNCHANGED <<rPtr, pc, block, card, faults>>
         /\ ring \subseteq ring' /\ \A x \in ring' \ ring : x.at >= wPtr
         /\ RingIds \subseteq RingIds' /\ RingIds' \subseteq RingIds \cup {accepted + 1}
<1>0. wPtr \in Nat /\ FrameLens \subseteq EntryLens /\ SyncLen \in EntryLens
  BY DEF IInv, TypeInv, TypeOK, BufferTypeOK, EntryLens
<1>1. ASSUME NEW kind \in {"frame", "sync"}, NEW len \in EntryLens,
             AddEntryOk(kind, accepted + 1, len)
      PROVE  /\ rPtr' = rPtr
             /\ ring \subseteq ring' /\ \A x \in ring' \ ring : x.at >= wPtr
             /\ RingIds \subseteq RingIds' /\ RingIds' \subseteq RingIds \cup {accepted + 1}
  <2> DEFINE x0 == [kind |-> kind, id |-> accepted + 1, at |-> EntryPtr(len), len |-> len]
  <2>1. rPtr' = rPtr /\ ring' = ring \cup Padding(len) \cup {x0}
    BY <1>1 DEF AddEntryOk
  <2>2. wPtr <= EntryPtr(len) /\ Padding(len) \subseteq {PadItem(wPtr)}
    BY <1>0, AddEntryAdvances
  <2>3. x0.id = accepted + 1 /\ x0.at >= wPtr
    BY <1>0, <2>2, AddEntryAdvances
  <2> HIDE DEF x0
  <2>4. \A x \in ring' \ ring : x.at >= wPtr
    BY <1>0, <2>1, <2>2, <2>3 DEF PadItem
  <2>5. Entries \subseteq Entries' /\ Entries' \subseteq Entries \cup {x0}
    BY <2>1, <2>2 DEF Entries, PadItem
  <2> QED
    BY <2>1, <2>3, <2>4, <2>5 DEF RingIds
<1>2. ASSUME NEW P, P \subseteq {PadItem(wPtr)}, ring' = ring \cup P
      PROVE  /\ ring \subseteq ring' /\ \A x \in ring' \ ring : x.at >= wPtr
             /\ RingIds' = RingIds
  <2>1. Entries' = Entries
    BY <1>2 DEF Entries, PadItem
  <2> QED
    BY <1>0, <1>2, <2>1 DEF RingIds, PadItem
<1>3. CASE \E len \in FrameLens : IngestFrame(len)
  BY <1>0, <1>1, <1>3 DEF IngestFrame
<1>4. CASE IngestSync
  BY <1>0, <1>1, <1>4 DEF IngestSync
<1>5. CASE IngestDrop
  <2>1. PICK len \in EntryLens : AddEntryFull(len)
    BY <1>5 DEF IngestDrop
  <2>2. ring' = ring \cup Padding(len) /\ rPtr' = rPtr
    BY <2>1 DEF AddEntryFull
  <2>3. Padding(len) \subseteq {PadItem(wPtr)}
    BY <1>0, AddEntryAdvances
  <2> QED
    BY <1>2, <1>5, <2>2, <2>3 DEF IngestDrop, storeVars
<1>6. CASE Commit
  <2>1. UNCHANGED <<rPtr, pc, block, card, faults>>
    BY <1>6 DEF Commit, FillBlockWithPadding
  <2>2. ring' = ring \cup {} \/ ring' = ring \cup {PadItem(wPtr)}
    BY <1>6 DEF Commit, FillBlockWithPadding, PadItem
  <2>3. PICK P \in SUBSET {PadItem(wPtr)} : ring' = ring \cup P
    BY <2>2
  <2> QED
    BY <1>2, <2>1, <2>3
<1> QED
  BY <1>3, <1>4, <1>5, <1>6 DEF Producer

\* The ingest task does not touch a complete block at the read pointer.
LEMMA ProducerKeepsBlock ==
  ASSUME IInv, Producer, Full >= BlockSize
  PROVE  BlockEntries(rPtr)' = BlockEntries(rPtr) /\ BlockIds' = BlockIds
<1>1. /\ rPtr' = rPtr /\ ring \subseteq ring'
      /\ \A x \in ring' \ ring : x.at >= wPtr
  BY ProducerFrame
<1>2. /\ rPtr \in Nat /\ wPtr \in Nat /\ BlockSize \in Nat /\ wPtr >= rPtr + BlockSize
  BY ConstantFacts DEF IInv, TypeInv, TypeOK, BufferTypeOK, Full
<1>3. BlockItems(rPtr)' = BlockItems(rPtr)
  <2>1. ring' \in SUBSET Item
    BY NextIInv DEF Next, IInv, TypeInv, TypeOK, BufferTypeOK
  <2>2. \A x \in ring' : x.at \in Nat /\ (x.at < rPtr + BlockSize => x \in ring)
    BY <1>1, <1>2, <2>1 DEF Item
  <2> QED
    BY <1>1, <2>2 DEF BlockItems
<1>4. BlockEntries(rPtr)' = BlockEntries(rPtr)
  BY <1>3 DEF BlockEntries
<1> QED
  BY <1>1, <1>4 DEF BlockIds

\* The numbers on the card are those of accepted entries.
LEMMA CardIdsAccepted ==
  ASSUME IInv
  PROVE  /\ accepted \in Nat /\ CardIds \subseteq 1..accepted /\ RingIds \subseteq 1..accepted
         /\ card \in Seq(StoredBlock)
         /\ \A i \in DOMAIN card : card[i].ids \subseteq CardIds
<1>1. accepted \in Nat /\ card \in Seq(StoredBlock) /\ CardIds \cup RingIds = 1..accepted
  BY DEF IInv, TypeInv, TypeOK, CardInv, NothingLost
<1> QED
  BY <1>1 DEF CardIds

-----------------------------------------------------------------------------
(* The steps                                                               *)

LEMMA InitCInv == Init => CInv
BY DEF Init, CInv, CardInOrder, RepeatInv, HeaderMatchesBlock, HeaderInv, CardIds

\* A step that changes neither ring nor card, and takes no block in hand.
LEMMA QuietKeepsCInv ==
  ASSUME CInv, IInv, IInv', UNCHANGED <<ring, rPtr, card, block>>, faults' >= faults,
         pc' # "write" \/ pc = "write", pc' = "consume" <=> pc = "consume"
  PROVE  CInv'
<1>1. /\ CardIds' = CardIds /\ RingIds' = RingIds /\ BlockIds' = BlockIds
      /\ EntriesCount(rPtr)' = EntriesCount(rPtr)
  BY DEF CardIds, RingIds, Entries, BlockIds, BlockEntries, BlockItems, EntriesCount
<1>2. faults \in Nat /\ faults' \in Nat
  BY DEF IInv, TypeInv, TypeOK
<1>3. faults > 0 => faults' > 0
  BY <1>2
<1>4. CardInOrder' /\ HeaderMatchesBlock'
  BY <1>3 DEF CInv, CardInOrder, HeaderMatchesBlock
<1>5. RepeatInv' /\ HeaderInv'
  BY <1>1, <1>3 DEF CInv, RepeatInv, HeaderInv
<1> QED
  BY <1>4, <1>5 DEF CInv

LEMMA ProducerKeepsCInv ==
  ASSUME CInv, IInv, Producer
  PROVE  CInv'
<1>1. /\ UNCHANGED <<rPtr, pc, block, card, faults>>
      /\ RingIds \subseteq RingIds' /\ RingIds' \subseteq RingIds \cup {accepted + 1}
  BY ProducerFrame
<1>2. CardInOrder' /\ HeaderMatchesBlock' /\ CardIds' = CardIds
  BY <1>1 DEF CInv, CardInOrder, HeaderMatchesBlock, CardIds
<1>3. \A S \in SUBSET CardIds : S \cap RingIds' = S \cap RingIds
  BY <1>1, CardIdsAccepted
<1>4. CardIds \cap RingIds # {} => Full >= BlockSize
  BY DEF IInv, CardInv
<1>5. RepeatInv'
  <2>1. \A i \in DOMAIN card :
          card[i].ids \cap RingIds' # {} => \A k \in i..Len(card) : card[k].ids = BlockIds'
    <3> SUFFICES ASSUME NEW i \in DOMAIN card, card[i].ids \cap RingIds' # {}
                 PROVE  \A k \in i..Len(card) : card[k].ids = BlockIds'
      OBVIOUS
    <3>1. card[i].ids \cap RingIds # {} /\ CardIds \cap RingIds # {}
      BY <1>3, CardIdsAccepted
    <3>2. BlockIds' = BlockIds
      BY <1>4, <3>1, ProducerKeepsBlock
    <3> QED
      BY <3>1, <3>2 DEF CInv, RepeatInv
  <2>2. CardIds \cap RingIds' # {} => faults > 0 \/ pc = "consume"
    BY <1>3 DEF CInv, RepeatInv
  <2> QED
    BY <1>1, <1>2, <2>1, <2>2 DEF RepeatInv
<1>6. HeaderInv'
  <2> SUFFICES ASSUME pc = "write" PROVE block.entries = EntriesCount(rPtr)'
    BY <1>1 DEF HeaderInv
  <2>1. BlockEntries(rPtr)' = BlockEntries(rPtr)
    BY ProducerKeepsBlock DEF IInv, WriterInv
  <2> QED
    BY <2>1 DEF CInv, HeaderInv, EntriesCount
<1> QED
  BY <1>2, <1>5, <1>6 DEF CInv

\* A block that reaches the card again reaches it right behind itself; a new
\* one is behind all that the card has.
LEMMA WriteKeepsCInv ==
  ASSUME CInv, IInv, WriteOk \/ SyncFails
  PROVE  CInv'
<1> DEFINE n == Len(card) + 1
<1>1. /\ pc = "write" /\ card' = Append(card, Stored)
      /\ UNCHANGED <<ring, rPtr, wPtr, block>>
      /\ \/ pc' = "consume" /\ faults' = faults
         \/ pc' = "wait" /\ faults' = faults + 1
  BY DEF WriteOk, SyncFails, bufferVars
<1>2. faults \in Nat /\ Len(card) \in Nat
  BY DEF IInv, TypeInv, TypeOK
<1>3. /\ faults > 0 => faults' > 0
      /\ faults' > 0 \/ pc' = "consume"
  BY <1>1, <1>2
<1>4. Stored.ids = BlockIds /\ Stored.entries = block.entries
  BY <1>1 DEF Stored, BlockIds, IInv, WriterInv
<1>5. /\ DOMAIN card = 1..Len(card) /\ DOMAIN card' = 1..n /\ Len(card') = n
      /\ card'[n] = Stored
      /\ \A i \in DOMAIN card : card'[i] = card[i]
  BY <1>1, CardIdsAccepted
<1>6. /\ BlockIds # {} /\ BlockIds \subseteq RingIds
  <2>1. BlockIds \subseteq RingIds
    BY BlockComesFirst
  <2>2. BlockEntries(rPtr) # {}
    BY <1>1, FirstBlock DEF IInv, TypeInv, TypeOK, WriterInv
  <2> QED
    BY <2>1, <2>2 DEF BlockIds
<1>7. RingIds' = RingIds /\ BlockIds' = BlockIds
  BY <1>1 DEF RingIds, Entries, BlockIds, BlockEntries, BlockItems
<1>8. ASSUME NEW i \in DOMAIN card
      PROVE  \/ \A x \in card[i].ids, y \in BlockIds : x < y
             \/ faults > 0 /\ \A k \in i..Len(card) : card[k].ids = BlockIds
  <2>1. CASE card[i].ids \cap RingIds # {}
    <3>1. CardIds \cap RingIds # {}
      BY <2>1, CardIdsAccepted
    <3> QED
      BY <1>1, <2>1, <3>1 DEF CInv, RepeatInv
  <2>2. CASE card[i].ids \cap RingIds = {} /\ CardIds \cap RingIds = {}
    <3>1. \A x \in CardIds, y \in RingIds \ CardIds : x < y
      BY DEF IInv, CardInv, NothingLost
    <3> QED
      BY <1>6, <2>2, <3>1, CardIdsAccepted
  <2>3. CASE card[i].ids \cap RingIds = {} /\ CardIds \cap RingIds # {}
    <3>1. PICK j \in DOMAIN card : card[j].ids \cap RingIds # {}
      BY <2>3 DEF CardIds
    <3>2. \A k \in j..Len(card) : card[k].ids = BlockIds
      BY <3>1 DEF CInv, RepeatInv
    <3>3. i \in Nat /\ j \in Nat /\ i <= Len(card) /\ j <= Len(card)
      BY <1>2, <1>5
    <3>4. card[i].ids # BlockIds
      BY <1>6, <2>3
    <3>5. i < j
      BY <3>2, <3>3, <3>4
    <3>6. card[j].ids = BlockIds
      BY <1>2, <3>2, <3>3
    <3> QED
      BY <3>4, <3>5, <3>6 DEF CInv, CardInOrder
  <2> QED
    BY <2>1, <2>2, <2>3
<1>9. CardInOrder'
  <2> SUFFICES ASSUME NEW i \in DOMAIN card', NEW j \in DOMAIN card', i < j
               PROVE  \/ \A x \in card'[i].ids, y \in card'[j].ids : x < y
                      \/ /\ faults' > 0 /\ card'[i].ids = card'[j].ids
                         /\ \A k \in i..j : card'[k].ids = card'[i].ids
    BY DEF CardInOrder
  <2>1. i \in DOMAIN card /\ i \in Nat /\ j \in Nat /\ j <= n
    BY <1>2, <1>5
  <2>2. CASE j = n
    <3>1. CASE \A x \in card[i].ids, y \in BlockIds : x < y
      BY <1>4, <1>5, <2>1, <2>2, <3>1
    <3>2. CASE faults > 0 /\ \A k \in i..Len(card) : card[k].ids = BlockIds
      <4>1. \A k \in i..n : card'[k].ids = BlockIds
        <5> SUFFICES ASSUME NEW k \in i..n PROVE card'[k].ids = BlockIds
          OBVIOUS
        <5>1. (k \in DOMAIN card /\ k \in i..Len(card)) \/ k = n
          BY <1>2, <1>5, <2>1
        <5> QED
          BY <1>4, <1>5, <3>2, <5>1
      <4>2. i \in i..n /\ n \in i..n
        BY <1>2, <2>1, <2>2
      <4>3. \A k \in i..j : k \in i..n
        BY <2>2
      <4> QED
        BY <1>3, <2>2, <3>2, <4>1, <4>2, <4>3
    <3> QED
      BY <1>8, <2>1, <3>1, <3>2
  <2>3. CASE j # n
    <3>1. j \in DOMAIN card /\ \A k \in i..j : k \in DOMAIN card
      BY <1>2, <1>5, <2>1, <2>3
    <3>2. \/ \A x \in card[i].ids, y \in card[j].ids : x < y
          \/ /\ faults > 0 /\ card[i].ids = card[j].ids
             /\ \A k \in i..j : card[k].ids = card[i].ids
      BY <2>1, <3>1 DEF CInv, CardInOrder
    <3> QED
      BY <1>3, <1>5, <2>1, <3>1, <3>2
  <2> QED
    BY <2>2, <2>3
<1>10. RepeatInv'
  <2>1. ASSUME NEW i \in DOMAIN card', card'[i].ids \cap RingIds # {}, NEW k \in i..n
        PROVE  card'[k].ids = BlockIds
    <3>0. i \in 1..n /\ (i # n => i \in DOMAIN card)
      BY <1>2, <1>5
    <3>1. CASE k = n
      BY <1>4, <1>5, <3>1
    <3>2. CASE k # n
      <4>1. i \in DOMAIN card /\ k \in DOMAIN card /\ k \in i..Len(card)
        BY <1>2, <1>5, <2>1, <3>0, <3>2
      <4> QED
        BY <1>5, <2>1, <4>1 DEF CInv, RepeatInv
    <3> QED
      BY <3>1, <3>2
  <2> QED
    BY <1>3, <1>5, <1>7, <2>1 DEF RepeatInv
<1>11. HeaderMatchesBlock'
  <2>1. Stored.entries = Cardinality(Stored.ids)
    BY <1>1, <1>4, CountsNumbers DEF CInv, HeaderInv
  <2>2. \A i \in DOMAIN card' : i \in DOMAIN card \/ i = n
    BY <1>2, <1>5
  <2> QED
    BY <1>5, <2>1, <2>2 DEF CInv, HeaderMatchesBlock
<1>12. HeaderInv'
  BY <1>1 DEF HeaderInv
<1> QED
  BY <1>9, <1>10, <1>11, <1>12 DEF CInv

\* Behind a consumption ring and card share nothing.
LEMMA ConsumeKeepsCInv ==
  ASSUME CInv, IInv, ConsumeBlock
  PROVE  CInv'
<1>1. card' = card /\ faults' = faults /\ pc' = "check" /\ Consume
  BY DEF ConsumeBlock
<1>2. Full >= BlockSize /\ Placed(ring, wPtr, accepted) /\ accepted \in Nat
  BY DEF IInv, WriterInv, ConsumeBlock, TypeInv, TypeOK
<1>3. ring' = {x \in ring : x.at >= rPtr + BlockSize}
  BY <1>1, <1>2, ConsumeKeepsPlaced
<1>4. RingIds' = RingIds \ BlockIds
  <2>1. Entries' = {z \in Entries : z.at >= rPtr + BlockSize}
    BY <1>3 DEF Entries
  <2> QED
    BY <2>1, BlockComesFirst DEF RingIds
<1>5. CardIds' = CardIds /\ CardIds \cap RingIds' = {}
  <2>1. CardIds \cap RingIds = {} \/ CardIds \cap RingIds = BlockIds
    BY DEF IInv, CardInv
  <2> QED
    BY <1>1, <1>4, <2>1 DEF CardIds
<1>6. \A i \in DOMAIN card : card[i].ids \cap RingIds' = {}
  BY <1>5, CardIdsAccepted
<1>7. CardInOrder' /\ HeaderMatchesBlock'
  BY <1>1 DEF CInv, CardInOrder, HeaderMatchesBlock
<1>8. RepeatInv' /\ HeaderInv'
  BY <1>1, <1>5, <1>6 DEF RepeatInv, HeaderInv
<1> QED
  BY <1>7, <1>8 DEF CInv

\* The header is made in the step that takes the block in hand.
LEMMA ReadKeepsCInv ==
  ASSUME CInv, IInv, IInv', ReadBlock
  PROVE  CInv'
<1>1. Placed(ring, wPtr, accepted) /\ accepted \in Nat /\ rPtr \in Nat /\ ring \in SUBSET Item
  BY DEF IInv, TypeInv, TypeOK, BufferTypeOK
<1>2. SkipToAlign = 0
  BY <1>1, FirstBlock
<1>3. AlignReadPtr => ring' = ring /\ rPtr' = rPtr
  <2>1. \A x \in ring : x.at >= rPtr
    BY <1>1 DEF Placed, ItemsOK, Item
  <2> QED
    BY <1>1, <1>2, <2>1 DEF AlignReadPtr
<1>4. UNCHANGED <<ring, rPtr, card, faults>> /\ pc = "read"
  BY <1>3 DEF ReadBlock, ReadNextBlock, ReadNextBlockFails
<1>5. EntriesCount(rPtr)' = EntriesCount(rPtr') /\ EntriesCount(rPtr') = EntriesCount(rPtr)
  BY <1>4 DEF EntriesCount, BlockEntries, BlockItems
<1>6. HeaderInv'
  <2>1. pc' = "write" => block'.entries = EntriesCount(rPtr')
    BY DEF ReadBlock
  <2> QED
    BY <1>5, <2>1 DEF HeaderInv
<1>7. CardIds' = CardIds /\ RingIds' = RingIds /\ BlockIds' = BlockIds
  BY <1>4 DEF CardIds, RingIds, Entries, BlockIds, BlockEntries, BlockItems
<1>8. CardInOrder' /\ HeaderMatchesBlock' /\ RepeatInv'
  BY <1>4, <1>7 DEF CInv, CardInOrder, HeaderMatchesBlock, RepeatInv
<1> QED
  BY <1>6, <1>8 DEF CInv

LEMMA NextCInv == CInv /\ IInv /\ IInv' /\ [Next]_vars => CInv'
<1> SUFFICES ASSUME CInv, IInv, IInv', [Next]_vars PROVE CInv'
  OBVIOUS
<1>0. faults \in Nat
  BY DEF IInv, TypeInv, TypeOK
<1>1. CASE Wake \/ CheckReady \/ UNCHANGED vars
  <2>1. UNCHANGED <<ring, rPtr, card, block, faults>>
    BY <1>1 DEF Wake, CheckReady, vars, bufferVars, storeVars
  <2>2. (pc' # "write" \/ pc = "write") /\ (pc' = "consume" <=> pc = "consume")
    BY <1>1 DEF Wake, CheckReady, vars, storeVars
  <2>3. faults' >= faults
    BY <1>0, <2>1
  <2> QED
    BY <2>1, <2>2, <2>3, QuietKeepsCInv
<1>2. CASE WriteTimesOut \/ WriteAborts
  <2>1. /\ UNCHANGED <<ring, rPtr, card, block>> /\ pc = "write" /\ pc' = "wait"
        /\ faults' = faults \/ faults' = faults + 1
    BY <1>2 DEF WriteTimesOut, WriteAborts, bufferVars
  <2>2. faults' >= faults
    BY <1>0, <2>1
  <2> QED
    BY <2>1, <2>2, QuietKeepsCInv
<1> QED
  BY <1>1, <1>2, ProducerKeepsCInv, WriteKeepsCInv, ConsumeKeepsCInv, ReadKeepsCInv
     DEF Next, SdBridge

-----------------------------------------------------------------------------
(* Theorems                                                                *)

\* Ring, card and writer keep CInv beside IInv.
THEOREM CardInvariance == Spec => []CInv
<1> QED
  BY InitCInv, NextCInv, Invariance, PTL DEF Spec

\* The blocks of the card are in the order of their entries, each once, but for
\* a block whose sync failed: it may follow itself directly.
THEOREM BlocksInOrder == Spec => []CardInOrder
<1>1. CInv => CardInOrder
  BY DEF CInv
<1> QED
  BY <1>1, CardInvariance, PTL

\* The header that ReadNextBlock made counts the entries that the write stores.
THEOREM HeadersMatch == Spec => []HeaderMatchesBlock
<1>1. CInv => HeaderMatchesBlock
  BY DEF CInv
<1> QED
  BY <1>1, CardInvariance, PTL
=============================================================================
