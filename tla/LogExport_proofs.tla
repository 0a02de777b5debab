-------------------------- MODULE LogExport_proofs ---------------------------
(***************************************************************************)
(* Proofs about the log files and their export, for any number of files,   *)
(* blocks, boots, power cuts and failing operations: all files exist, the   *)
(* epoch tells boots apart, and what the page decodes is a gapless end of   *)
(* this boot's recording.  All rests on LogFilesAssumption.                 *)
(***************************************************************************)
EXTENDS LogExport, Integers, SequenceTheorems, TLAPS

BlockType == [boot : Nat, n : Nat, epoch : Nat]
FileObject == [file : Indices, pos : Nat, behind : Seq(BlockType), open : BOOLEAN,
               error : BOOLEAN]

TypeInv ==
    /\ DOMAIN card \subseteq Indices /\ card \in [DOMAIN card -> Seq(BlockType)]
    /\ epochOnCard \in Nat /\ epoch \in Nat
    /\ stage \in {"meta", "preallocate", "open", "running"}
    /\ next \in Nat /\ (stage = "preallocate" => next \in Indices)
    /\ fil \in FileObject
    /\ head \in Indices /\ tail \in Indices /\ wrapped \in BOOLEAN
    /\ boots \in Nat \ {0} /\ stored \in Nat /\ faults \in Nat
    /\ epochKept \in BOOLEAN /\ creationFailed \in BOOLEAN

\* Files are created from the first to the last, the first boot's and those after it.
ExistInv ==
    ~creationFailed =>
        /\ \A f \in DOMAIN card : 0 .. f \subseteq DOMAIN card
        /\ stage = "preallocate" => 0 .. next - 1 \subseteq DOMAIN card
        /\ stage \in {"open", "running"} => DOMAIN card = Indices

\* A boot's epoch, as far as the metadata file was kept: it grows by one at most with each
\* boot, and has grown at each boot that has blocks.
EpochsOf(E) ==
    /\ E \in [Nat -> Nat]
    /\ \A i, j \in Nat : i <= j => E[i] <= E[j] /\ E[j] <= E[i] + (j - i)
    /\ \A k \in Nat : k >= boots => E[k] = epochOnCard
    /\ \A f \in DOMAIN card : \A p \in DOMAIN card[f] :
         LET b == card[f][p]
         IN  b = Blank \/ /\ b.boot \in 1 .. boots /\ b.epoch = E[b.boot] % EpochRange
                          /\ E[b.boot - 1] < E[b.boot]
    /\ IF stage = "meta" THEN E[boots - 1] = epochOnCard
       ELSE epoch = epochOnCard /\ E[boots - 1] < epochOnCard

EpochInv == epochKept => \E E \in [Nat -> Nat] : EpochsOf(E)

-----------------------------------------------------------------------------
(* The files of this boot.  With one file only, a file that is emptied on opening is all
   there was: what follows is about more files than one. *)

\* The file behind f, and the order in which the files are read: the head's is last.
FileAfter(f) == IF f = NumFiles - 1 THEN 0 ELSE f + 1
Precedes(h, f, g) ==
    \/ f > h /\ g <= h
    \/ f < g /\ (f > h <=> g > h)

Live(f) == wrapped \/ f <= head
Full(f) == f \in Indices /\ Live(f) /\ f # head

\* How far the head's file was written.
Top ==
    IF head \notin DOMAIN card THEN 0
    ELSE IF fil.pos <= Len(card[head]) THEN fil.pos ELSE Len(card[head])

\* The blocks a .. b of s are those of boot k, and their numbers rise without a gap.
Gapless(k, s, a, b) ==
    /\ \A p \in a .. b : s[p].boot = k /\ s[p].n >= 1
    /\ \A p, q \in a .. b : p <= q => s[p].n <= s[q].n
    /\ \A p \in a .. b : \A m \in s[p].n .. s[b].n : \E q \in p .. b : s[q].n = m

FileInv ==
    /\ fil.open => stage = "running" /\ fil.file = head /\ head \in DOMAIN card
    /\ ~fil.open => fil = ClosedFile
    /\ fil.open =>
         \/ fil.behind = <<>> /\ fil.pos <= Len(card[head])
         \/ fil.behind # <<>> /\ fil.pos = Len(card[head]) + Len(fil.behind)
    /\ \A i \in DOMAIN fil.behind : fil.behind[i] = Block(stored + 1)
    /\ \A f \in DOMAIN card : \A p \in DOMAIN card[f] :
         /\ card[f][p].boot <= boots
         /\ card[f][p].boot = boots => card[f][p].n <= stored /\ card[f][p].epoch = epoch % EpochRange
    /\ stage # "running" =>
         /\ head = 0 /\ ~wrapped /\ stored = 0
         /\ \A f \in DOMAIN card : \A p \in DOMAIN card[f] : card[f][p].boot # boots
    /\ tail = IF wrapped THEN FileAfter(head) ELSE 0

FullInv ==
    \A f \in Indices : Full(f) =>
        /\ f \in DOMAIN card /\ Len(card[f]) >= FileBlocks
        /\ Gapless(boots, card[f], 1, FileBlocks)

HeadInv ==
    /\ Top > 0 => Gapless(boots, card[head], 1, Top) /\ card[head][Top].n = stored
    /\ ~wrapped /\ stored > 0 => /\ head = 0 => Top > 0
                                 /\ card[0][1].n = 1

\* The rest of the head's file, while it is not overlong, is this boot's oldest part, or
\* an earlier boot's.
RestInv ==
    wrapped /\ head \in DOMAIN card /\ Len(card[head]) <= FileBlocks =>
        \E a \in {fil.pos + 1, fil.pos + 2} :
            /\ a = fil.pos + 2 /\ fil.pos + 1 <= Len(card[head]) =>
                 fil.error /\ card[head][fil.pos + 1].boot = boots /\ card[head][fil.pos + 1].n = 0
            /\ a <= Len(card[head]) =>
                 /\ Gapless(boots, card[head], a, Len(card[head]))
                 /\ card[head][Len(card[head])].n + 1 = card[tail][1].n

FreshInv ==
    ~wrapped => \A f \in DOMAIN card : \A p \in DOMAIN card[f] :
        card[f][p].boot = boots =>
            \/ f < head
            \/ f = head /\ p <= fil.pos
            \/ f = head /\ p = fil.pos + 1 /\ card[f][p].n = 0 /\ fil.error

OrderInv ==
    \A f, g \in Indices :
        Full(f) /\ Live(g) /\ Precedes(head, f, g) /\ (g = head => Top > 0) =>
            \A p \in DOMAIN card[f] : card[f][p].boot = boots => card[f][p].n < card[g][1].n

LinkInv ==
    \A f \in Indices : Full(f) /\ Len(card[f]) = FileBlocks =>
        IF FileAfter(f) = head /\ Top = 0
        THEN card[f][FileBlocks].n = stored
        ELSE card[FileAfter(f)][1].n = card[f][FileBlocks].n + 1

CoverInv ==
    \A m \in 1 .. stored : (wrapped => m >= card[tail][1].n) =>
        \E f \in DOMAIN card : \E p \in DOMAIN card[f] :
            /\ Live(f) /\ (f = head => p <= fil.pos)
            /\ card[f][p].boot = boots /\ card[f][p].n = m

\* Without failures the number of a file's first block follows from its place.
FilesBehind(h, f) == IF f < h THEN h - f ELSE h + NumFiles - f
NumberInv ==
    faults = 0 =>
        /\ \A f \in DOMAIN card : Len(card[f]) <= FileBlocks
        /\ fil.behind = <<>> /\ fil.pos < FileBlocks /\ (stage = "running" => fil.open)
        /\ \A f \in Indices : Full(f) =>
             card[f][1].n + FilesBehind(head, f) * FileBlocks = stored - fil.pos + 1
        /\ Top > 0 => card[head][1].n = stored - fil.pos + 1

RingInv ==
    /\ FullInv /\ HeadInv /\ RestInv /\ FreshInv
    /\ OrderInv /\ LinkInv /\ CoverInv

-----------------------------------------------------------------------------
(* Remainders *)

LEMMA Sizes ==
    /\ NumFiles \in Nat /\ NumFiles > 0 /\ FileBlocks \in Nat /\ FileBlocks > 0
    /\ EpochRange \in Nat /\ EpochRange > 0
    /\ 0 \in Indices /\ NumFiles - 1 \in Indices /\ Indices \subseteq Nat
BY LogFilesAssumption DEF Indices

LEMMA Division ==
  ASSUME NEW k \in Nat \ {0}, NEW n \in Nat
  PROVE  /\ n \div k \in Nat
         /\ n % k \in 0 .. k - 1
         /\ n = k * (n \div k) + (n % k)
<1>1. n \div k \in Int /\ n % k \in 0 .. k - 1 /\ n = k * (n \div k) + (n % k)
  BY SMTT(20)
<1>2. ASSUME n \div k < 0
      PROVE  FALSE
  <2>1. k * (n \div k) <= 0 - k
    BY <1>1, <1>2, SMTT(20)
  <2> QED BY <1>1, <2>1
<1> QED BY <1>1, <1>2

\* Multiples of k are k apart.
LEMMA Multiples ==
  ASSUME NEW k \in Nat \ {0}, NEW a \in Int, NEW b \in Int, a > b
  PROVE  k * a \in Int /\ k * b \in Int /\ k * a >= k * b + k
<1>1. PICK d \in Nat : a = b + 1 + d
  <2>1. a - b - 1 \in Nat /\ a = b + 1 + (a - b - 1)
    BY SMT
  <2> QED BY <2>1
<1>2. k * a = k * b + k + k * d
  BY <1>1, SMTT(20)
<1>3. k * d >= 0 /\ k * b \in Int /\ k * d \in Int
  BY SMTT(20)
<1> QED BY <1>2, <1>3, SMTT(20)

\* A number is determined by its quotient and its remainder.
LEMMA Unique ==
  ASSUME NEW k \in Nat \ {0}, NEW q \in Int, NEW p \in Int,
         NEW r \in 0 .. k - 1, NEW s \in 0 .. k - 1, k * q + r = k * p + s
  PROVE  q = p /\ r = s
<1>1. k * q \in Int /\ k * p \in Int
  BY SMTT(20)
<1>2. ~(q > p)
  BY Multiples, <1>1, SMT
<1>3. ~(p > q)
  BY Multiples, <1>1, SMT
<1>4. q = p
  BY <1>2, <1>3, SMT
<1> QED BY <1>4, <1>1, SMT

\* The remainder of what is less than two turns.
LEMMA TurnIs ==
  ASSUME NEW k \in Nat \ {0}, NEW n \in 0 .. 2 * k - 1
  PROVE  n % k = IF n < k THEN n ELSE n - k
<1>1. /\ n \in Nat /\ n \div k \in Int /\ n % k \in 0 .. k - 1
      /\ n = k * (n \div k) + (n % k)
  BY Division
<1>2. CASE n < k
  <2>1. n \in 0 .. k - 1 /\ n = k * 0 + n /\ 0 \in Int
    BY <1>1, <1>2
  <2> QED BY <1>1, <1>2, <2>1, Unique
<1>3. CASE n >= k
  <2>1. n - k \in 0 .. k - 1 /\ n = k * 1 + (n - k) /\ 1 \in Int
    BY <1>1, <1>3
  <2>2. n % k = n - k
    BY <1>1, <2>1, Unique
  <2> QED BY <1>1, <1>3, <2>2
<1> QED BY <1>1, <1>2, <1>3

\* Two numbers with the same remainder are k apart.
LEMMA SameRemainder ==
  ASSUME NEW k \in Nat \ {0}, NEW a \in Nat, NEW b \in Nat, a < b, a % k = b % k
  PROVE  a + k <= b
<1> DEFINE q == a \div k
           p == b \div k
           r == a % k
<1>1. q \in Int /\ p \in Int /\ r \in 0 .. k - 1 /\ a = k * q + r /\ b = k * p + r
  BY Division
<1> HIDE DEF q, p, r
<1>2. k * q \in Int /\ k * p \in Int
  BY <1>1, SMTT(20)
<1>3. p > q
  <2>1. CASE p < q
    BY <1>1, <1>2, <2>1, Multiples
  <2>2. CASE p = q
    BY <1>1, <2>2
  <2> QED BY <1>1, <2>1, <2>2
<1>4. k * p >= k * q + k
  BY <1>1, <1>3, Multiples
<1> QED BY <1>1, <1>2, <1>4

\* The indices as the code steps through them.
LEMMA StepIs ==
  ASSUME NEW f \in Indices
  PROVE  /\ (f + 1) % NumFiles = FileAfter(f) /\ FileAfter(f) \in Indices
         /\ NumFiles > 1 => FileAfter(f) # f
<1> DEFINE n == f + 1
<1>1. n \in 0 .. 2 * NumFiles - 1 /\ f \in 0 .. NumFiles - 1 /\ NumFiles \in Nat \ {0}
  BY Sizes DEF Indices
<1>2. n % NumFiles = IF n < NumFiles THEN n ELSE n - NumFiles
  <2> HIDE DEF n
  <2> QED BY <1>1, TurnIs
<1> QED BY <1>1, <1>2 DEF FileAfter, Indices

-----------------------------------------------------------------------------
(* Runs of numbers *)

LEMMA BlockIs ==
  ASSUME NEW s \in Seq(BlockType), NEW p \in 1 .. Len(s)
  PROVE  s[p] \in BlockType /\ s[p].boot \in Nat /\ s[p].n \in Nat /\ s[p].epoch \in Nat
<1>1. s[p] \in BlockType
  OBVIOUS
<1> QED BY <1>1 DEF BlockType

LEMMA GaplessPart ==
  ASSUME NEW k \in Nat, NEW s \in Seq(BlockType), NEW a \in Nat, NEW b \in Nat,
         NEW c \in Nat, NEW d \in Nat, a >= 1, b <= Len(s), a <= c, d <= b,
         Gapless(k, s, a, b)
  PROVE  Gapless(k, s, c, d)
<1>1. ASSUME NEW p \in c .. d
      PROVE  p \in a .. b /\ p \in DOMAIN s
  <2>1. DOMAIN s = 1 .. Len(s) /\ Len(s) \in Nat
    OBVIOUS
  <2> QED BY <2>1
<1>2. ASSUME NEW p \in 1 .. Len(s)
      PROVE  s[p].n \in Nat
  BY BlockIs
<1>3. ASSUME NEW p \in c .. d, NEW m \in s[p].n .. s[d].n
      PROVE  \E q \in p .. d : s[q].n = m
  <2>1. p \in a .. b /\ d \in a .. b /\ d \in c .. d /\ b \in a .. b /\ d <= b
    BY <1>1
  <2>2. s[d].n <= s[b].n /\ s[p].n \in Nat /\ s[d].n \in Nat /\ s[b].n \in Nat
    BY <1>1, <1>2, <2>1 DEF Gapless
  <2>3. m \in s[p].n .. s[b].n /\ m \in Int
    BY <2>2
  <2>4. PICK q \in p .. b : s[q].n = m
    BY <2>1, <2>3 DEF Gapless
  <2>5. CASE q <= d
    BY <2>1, <2>4, <2>5
  <2>6. CASE d < q
    <3>1. q \in a .. b /\ d <= q
      BY <2>1, <2>6
    <3>2. s[d].n <= s[q].n
      BY <2>1, <3>1 DEF Gapless
    <3>3. s[d].n = m /\ d \in p .. d
      BY <2>1, <2>2, <2>4, <3>2
    <3> QED BY <3>3
  <2> QED BY <2>1, <2>5, <2>6
<1> QED BY <1>1, <1>3 DEF Gapless

\* A run that is continued with its next number, once or several times.
Continued(k, s, t, b, c, m) ==
    /\ \A p \in 1 .. b : t[p] = s[p]
    /\ \A p \in b + 1 .. c : t[p].boot = k /\ t[p].n = m

LEMMA GaplessGrows ==
  ASSUME NEW k \in Nat, NEW s \in Seq(BlockType), NEW t \in Seq(BlockType),
         NEW b \in Nat, NEW c \in Nat, NEW m \in Nat,
         b <= Len(s), b < c, c <= Len(t), m >= 1,
         b > 0 => Gapless(k, s, 1, b) /\ s[b].n + 1 = m,
         Continued(k, s, t, b, c, m)
  PROVE  Gapless(k, t, 1, c) /\ t[c].n = m
<1>0. /\ \A p \in 1 .. b : t[p] = s[p]
      /\ \A p \in b + 1 .. c : t[p].boot = k /\ t[p].n = m
  BY DEF Continued
<1>1. \A p \in 1 .. b : s[p].n \in Nat /\ b \in 1 .. b
  <2> TAKE p \in 1 .. b
  <2>1. p \in 1 .. Len(s) /\ b \in 1 .. b
    BY LenProperties
  <2> QED BY <2>1, BlockIs
<1>2. \A p \in 1 .. b : t[p].boot = k /\ t[p].n >= 1 /\ t[p].n < m /\ t[p].n \in Nat
  <2> TAKE p \in 1 .. b
  <2>1. s[p].n <= s[b].n /\ s[p].boot = k /\ s[p].n >= 1
    BY <1>1 DEF Gapless
  <2> QED BY <1>0, <1>1, <2>1
<1>3. c \in b + 1 .. c /\ t[c].n = m
  BY <1>0
<1>4. \A p \in 1 .. c : (p \in 1 .. b \/ p \in b + 1 .. c) /\ t[p].n \in Nat
  BY <1>0, <1>2
<1>5. \A p \in 1 .. c : t[p].boot = k /\ t[p].n >= 1
  BY <1>0, <1>2, <1>4
<1>6. ASSUME NEW p \in 1 .. c, NEW q \in 1 .. c, p <= q
      PROVE  t[p].n <= t[q].n
  <2>1. CASE q \in 1 .. b
    <3>1. p \in 1 .. b
      BY <1>6, <2>1
    <3>2. s[p].n <= s[q].n
      BY <1>6, <2>1, <3>1 DEF Gapless
    <3> QED BY <1>0, <2>1, <3>1, <3>2
  <2>2. CASE q \in b + 1 .. c
    BY <1>0, <1>2, <1>4, <2>2
  <2> QED BY <1>4, <2>1, <2>2
<1>7. ASSUME NEW p \in 1 .. c, NEW x \in t[p].n .. t[c].n
      PROVE  \E q \in p .. c : t[q].n = x
  <2>1. CASE p \in b + 1 .. c \/ x = m
    <3>1. x = m /\ c \in p .. c
      BY <1>0, <1>3, <1>4, <2>1
    <3> QED BY <1>3, <3>1
  <2>2. CASE p \in 1 .. b /\ x # m
    <3>1. x \in s[p].n .. s[b].n
      BY <1>0, <1>1, <1>3, <2>2
    <3>2. PICK q \in p .. b : s[q].n = x
      BY <2>2, <3>1 DEF Gapless
    <3>3. q \in 1 .. b /\ q \in p .. c
      BY <2>2
    <3> QED BY <1>0, <3>2, <3>3
  <2> QED BY <1>4, <2>1, <2>2
<1> QED BY <1>3, <1>5, <1>6, <1>7 DEF Gapless

-----------------------------------------------------------------------------
(* What the steps do *)

CardType(c) == DOMAIN c \subseteq Indices /\ c \in [DOMAIN c -> Seq(BlockType)]

LEMMA WithFileIs ==
  ASSUME NEW c, CardType(c), NEW f \in Indices, NEW s \in Seq(BlockType)
  PROVE  /\ CardType(WithFile(c, f, s)) /\ DOMAIN WithFile(c, f, s) = DOMAIN c \cup {f}
         /\ WithFile(c, f, s)[f] = s
         /\ \A g \in DOMAIN c \ {f} : WithFile(c, f, s)[g] = c[g]
BY DEF CardType, WithFile

LEMMA SetFileIs ==
  ASSUME NEW c, CardType(c), NEW f \in DOMAIN c, NEW s \in Seq(BlockType)
  PROVE  /\ CardType([c EXCEPT ![f] = s]) /\ DOMAIN [c EXCEPT ![f] = s] = DOMAIN c
         /\ [c EXCEPT ![f] = s][f] = s
         /\ \A g \in DOMAIN c \ {f} : [c EXCEPT ![f] = s][g] = c[g]
BY DEF CardType

LEMMA JoinIs ==
  ASSUME NEW s \in Seq(BlockType), NEW t \in Seq(BlockType)
  PROVE  /\ s \o t \in Seq(BlockType) /\ Len(s \o t) = Len(s) + Len(t)
         /\ \A p \in 1 .. Len(s) : (s \o t)[p] = s[p]
         /\ \A p \in Len(s) + 1 .. Len(s) + Len(t) :
              p - Len(s) \in 1 .. Len(t) /\ (s \o t)[p] = t[p - Len(s)]
OBVIOUS

LEMMA ThisBlock ==
  ASSUME TypeInv, NEW m \in Nat
  PROVE  /\ Block(m) \in BlockType /\ Block(m).boot = boots /\ Block(m).n = m
         /\ Block(m).epoch = epoch % EpochRange
<1>1. epoch % EpochRange \in Nat
  BY Sizes, Division DEF TypeInv
<1> QED BY <1>1 DEF TypeInv, Block, BlockType

LEMMA OpenedIs ==
  ASSUME NEW f \in Indices
  PROVE  /\ ClosedFile \in FileObject /\ ClosedFile.pos = 0 /\ ClosedFile.behind = <<>>
         /\ ~ClosedFile.open /\ ~ClosedFile.error
         /\ Opened(f) \in FileObject /\ Opened(f).pos = 0 /\ Opened(f).behind = <<>>
         /\ Opened(f).open /\ ~Opened(f).error /\ Opened(f).file = f
<1>1. <<>> \in Seq(BlockType) /\ 0 \in Indices
  BY Sizes
<1>2. ClosedFile \in FileObject
  BY <1>1 DEF ClosedFile, FileObject
<1>3. /\ Opened(f) \in FileObject /\ Opened(f).pos = ClosedFile.pos
      /\ Opened(f).behind = ClosedFile.behind /\ Opened(f).error = ClosedFile.error
      /\ Opened(f).open /\ Opened(f).file = f
  BY <1>2 DEF Opened, FileObject
<1> QED BY <1>2, <1>3 DEF ClosedFile

\* The file that is being written.
LEMMA OpenFile ==
  ASSUME TypeInv, FileInv, fil.open
  PROVE  /\ fil.file = head /\ head \in DOMAIN card /\ stage = "running"
         /\ card[head] \in Seq(BlockType) /\ Len(card[head]) \in Nat
         /\ DOMAIN card[head] = 1 .. Len(card[head])
         /\ fil.pos \in Nat /\ fil.behind \in Seq(BlockType)
         /\ \/ fil.behind = <<>> /\ fil.pos <= Len(card[head]) /\ Top = fil.pos
            \/ /\ fil.behind # <<>> /\ fil.pos = Len(card[head]) + Len(fil.behind)
               /\ fil.pos > Len(card[head]) /\ Top = Len(card[head])
         /\ Top \in Nat /\ Top <= fil.pos /\ Top <= Len(card[head])
<1>1. /\ fil.file = head /\ head \in DOMAIN card /\ stage = "running"
      /\ fil.pos \in Nat /\ fil.behind \in Seq(BlockType)
  BY DEF TypeInv, FileInv, FileObject
<1>2. card[head] \in Seq(BlockType)
  BY <1>1 DEF TypeInv
<1>3. Len(card[head]) \in Nat /\ DOMAIN card[head] = 1 .. Len(card[head])
  BY <1>2
<1>4. Len(fil.behind) \in Nat /\ (fil.behind # <<>> => Len(fil.behind) > 0)
  BY <1>1
<1>5. \/ fil.behind = <<>> /\ fil.pos <= Len(card[head])
      \/ fil.behind # <<>> /\ fil.pos = Len(card[head]) + Len(fil.behind)
  BY DEF FileInv
<1>6. Top = IF fil.pos <= Len(card[head]) THEN fil.pos ELSE Len(card[head])
  BY <1>1 DEF Top
<1> QED BY <1>1, <1>2, <1>3, <1>4, <1>5, <1>6

LEMMA TopType ==
  ASSUME TypeInv
  PROVE  /\ Top \in Nat /\ Top <= fil.pos /\ fil.pos \in Nat
         /\ head \in DOMAIN card => Top <= Len(card[head]) /\ Len(card[head]) \in Nat
         /\ Top > 0 => head \in DOMAIN card
<1>1. fil.pos \in Nat
  BY DEF TypeInv, FileObject
<1>2. head \in DOMAIN card => Len(card[head]) \in Nat
  BY DEF TypeInv
<1> QED BY <1>1, <1>2 DEF Top

\* The head's file behind a successful write.
StoredIn(s) ==
    /\ s \in Seq(BlockType) /\ fil.pos + 1 <= Len(s)
    /\ \A p \in 1 .. Top : s[p] = card[head][p]
    /\ \A p \in Top + 1 .. fil.pos + 1 : s[p] = Block(stored + 1)
    /\ \/ Len(s) = fil.pos + 1
       \/ /\ Len(s) = Len(card[head])
          /\ \A p \in fil.pos + 2 .. Len(s) : s[p] = card[head][p]

\* The file stays, or the next one follows.
Kept(s) ==
    /\ CardType(card') /\ DOMAIN card' = DOMAIN card /\ card'[head] = s
    /\ \A f \in DOMAIN card \ {head} : card'[f] = card[f]
    /\ fil' \in FileObject /\ fil'.pos = fil.pos + 1 /\ fil'.behind = <<>>
    /\ fil'.open /\ ~fil'.error /\ fil'.file = head
    /\ UNCHANGED <<head, tail, wrapped>>
    /\ faults' = 0 => fil.pos + 1 < FileBlocks

Turned(s) ==
    /\ head' = FileAfter(head) /\ wrapped' = (wrapped \/ head = NumFiles - 1)
    /\ tail' = IF wrapped' THEN FileAfter(head') ELSE tail
    /\ fil.pos + 1 >= FileBlocks
    /\ CardType(card')
    /\ DOMAIN card \subseteq DOMAIN card' /\ DOMAIN card' \subseteq DOMAIN card \cup {head'}
    /\ head # head' => card'[head] = s
    /\ \A f \in DOMAIN card \ {head, head'} : card'[f] = card[f]
    /\ \/ head' \notin DOMAIN card'
       \/ card'[head'] = <<>> /\ (faults' = 0 => head' \notin DOMAIN card)
       \/ head' \in DOMAIN card /\ card'[head'] = IF head' = head THEN s ELSE card[head']
    /\ \/ fil' = Opened(head') /\ head' \in DOMAIN card'
       \/ fil' = ClosedFile /\ faults' # 0

LEMMA StoreIs ==
  ASSUME TypeInv, FileInv, StoreBlock \/ StoreBlockTruncating
  PROVE  \E s \in Seq(BlockType) : \E m \in Nat :
            /\ StoredIn(s) /\ MayStore /\ (m = 0 => faults = 0)
            /\ BlockStored([card EXCEPT ![head] = s], m)
<1> DEFINE old == card[head]
           B == Block(stored + 1)
           pos == fil.pos
<1>1. MayStore /\ fil.open
  BY DEF StoreBlock, StoreBlockTruncating, MayStore
<1>2. /\ fil.file = head /\ head \in DOMAIN card
      /\ old \in Seq(BlockType) /\ Len(old) \in Nat /\ DOMAIN old = 1 .. Len(old)
      /\ pos \in Nat /\ fil.behind \in Seq(BlockType)
      /\ \/ fil.behind = <<>> /\ pos <= Len(old) /\ Top = pos
         \/ fil.behind # <<>> /\ pos = Len(old) + Len(fil.behind) /\ pos > Len(old) /\ Top = Len(old)
  BY <1>1, OpenFile
<1>3. B \in BlockType
  BY ThisBlock DEF TypeInv
<1>4. faults \in Nat
  BY DEF TypeInv
<1>5. \A i \in 1 .. Len(fil.behind) : fil.behind[i] = B
  BY <1>2 DEF FileInv
<1>6. CASE StoreBlock /\ InPlace
  <2> DEFINE s == [old EXCEPT ![pos + 1] = B]
  <2>1. pos < Len(old)
    BY <1>2, <1>6 DEF InPlace
  <2>2. fil.behind = <<>> /\ Top = pos /\ pos + 1 \in DOMAIN old
    BY <1>2, <2>1
  <2>3. s \in Seq(BlockType) /\ Len(s) = Len(old) /\ s[pos + 1] = B
        /\ \A p \in 1 .. Len(old) : p # pos + 1 => s[p] = old[p]
    <3> HIDE DEF old, B, pos
    <3> QED BY <1>2, <1>3, <2>1, <2>2, ExceptSeq
  <2>4. BlockStored([card EXCEPT ![head][pos + 1] = B], faults)
    BY <1>2, <1>6 DEF StoreBlock
  <2>5. [card EXCEPT ![head][pos + 1] = B] = [card EXCEPT ![head] = s]
    OBVIOUS
  <2> HIDE DEF s, B, pos
  <2>6. StoredIn(s)
    BY <1>2, <2>1, <2>2, <2>3 DEF StoredIn, B, pos
  <2> QED BY <1>1, <1>4, <2>3, <2>4, <2>5, <2>6
<1>7. CASE StoreBlock /\ ~InPlace
  <2> DEFINE t == Append(fil.behind, B)
             s == old \o t
  <2>1. pos >= Len(old)
    BY <1>2, <1>7 DEF InPlace
  <2>2. t \in Seq(BlockType) /\ Len(t) = Len(fil.behind) + 1 /\ Len(fil.behind) \in Nat
        /\ \A i \in 1 .. Len(t) : t[i] = B
    <3> HIDE DEF B
    <3>1. t \in Seq(BlockType) /\ Len(t) = Len(fil.behind) + 1 /\ Len(fil.behind) \in Nat
          /\ t[Len(fil.behind) + 1] = B
          /\ \A i \in 1 .. Len(fil.behind) : t[i] = fil.behind[i]
      BY <1>2, <1>3, AppendProperties
    <3> HIDE DEF t
    <3> QED BY <1>5, <3>1
  <2> HIDE DEF t
  <2>3. /\ s \in Seq(BlockType) /\ Len(s) = Len(old) + Len(t)
        /\ \A p \in 1 .. Len(old) : s[p] = old[p]
        /\ \A p \in Len(old) + 1 .. Len(s) : p - Len(old) \in 1 .. Len(t) /\ s[p] = t[p - Len(old)]
    <3> HIDE DEF old
    <3> QED BY <1>2, <2>2, JoinIs
  <2>4. BlockStored([card EXCEPT ![head] = s], faults)
    <3>1. BlockStored([card EXCEPT ![fil.file] = @ \o Append(fil.behind, B)], faults)
      BY <1>7 DEF StoreBlock
    <3>2. [card EXCEPT ![fil.file] = @ \o Append(fil.behind, B)] = [card EXCEPT ![head] = s]
      BY <1>2 DEF t
    <3> QED BY <3>1, <3>2
  <2>5. Len(s) = pos + 1 /\ Top = Len(old)
    <3>1. fil.behind = <<>> => Len(fil.behind) = 0
      OBVIOUS
    <3> QED BY <1>2, <2>1, <2>2, <2>3, <3>1
  <2>6. \A p \in Top + 1 .. pos + 1 : s[p] = B
    <3> HIDE DEF s, old, B, pos
    <3> TAKE p \in Top + 1 .. pos + 1
    <3>1. p \in Len(old) + 1 .. Len(s)
      BY <1>2, <2>2, <2>3, <2>5
    <3> QED BY <2>2, <2>3, <3>1
  <2>7. \A p \in 1 .. Top : s[p] = old[p]
    BY <1>2, <2>3, <2>5
  <2> HIDE DEF s
  <2>8. StoredIn(s)
    <3>1. fil.pos + 1 <= Len(s)
      BY <1>2, <2>5
    <3> QED BY <2>3, <2>5, <2>6, <2>7, <3>1 DEF StoredIn
  <2> QED BY <1>1, <1>4, <2>3, <2>4, <2>8
<1>8. CASE StoreBlockTruncating
  <2> DEFINE t == SubSeq(old, 1, pos)
             s == Append(t, B)
  <2>1. pos < Len(old)
    BY <1>2, <1>8 DEF InPlace, StoreBlockTruncating
  <2>2. fil.behind = <<>> /\ Top = pos
    BY <1>2, <2>1
  <2>3. t \in Seq(BlockType) /\ Len(t) = pos /\ \A p \in 1 .. pos : t[p] = old[p]
    <3> HIDE DEF old
    <3> QED BY <1>2, <2>1
  <2> HIDE DEF t
  <2>4. s \in Seq(BlockType) /\ Len(s) = pos + 1 /\ s[pos + 1] = B
        /\ \A p \in 1 .. pos : s[p] = t[p]
    <3> HIDE DEF B
    <3> QED BY <1>2, <1>3, <2>3, AppendProperties
  <2>5. BlockStored([card EXCEPT ![head] = s], faults + 1)
    <3>1. BlockStored([card EXCEPT ![fil.file] = Append(SubSeq(@, 1, fil.pos), B)], faults + 1)
      BY <1>8 DEF StoreBlockTruncating
    <3>2. [card EXCEPT ![fil.file] = Append(SubSeq(@, 1, fil.pos), B)] = [card EXCEPT ![head] = s]
      BY <1>2 DEF t
    <3> QED BY <3>1, <3>2
  <2> HIDE DEF s
  <2>6. StoredIn(s)
    BY <1>2, <2>2, <2>3, <2>4 DEF StoredIn
  <2>7. faults + 1 \in Nat /\ faults + 1 # 0
    BY <1>4
  <2> QED BY <1>1, <2>4, <2>5, <2>6, <2>7
<1> QED BY <1>6, <1>7, <1>8


\* Behind a stored block, s being the contents of the file it went to.
StoredAs(s) ==
    /\ StoredIn(s) /\ fil.open /\ ~fil.error /\ stored' = stored + 1
    /\ Kept(s) \/ Turned(s)
    /\ faults' \in Nat /\ (faults' = 0 => faults = 0)
    /\ UNCHANGED <<epochOnCard, stage, next, epoch, boots, epochKept, creationFailed>>

LEMMA StoreStep ==
  ASSUME TypeInv, FileInv, StoreBlock \/ StoreBlockTruncating
  PROVE  \E s \in Seq(BlockType) : StoredAs(s)
<1>1. PICK s \in Seq(BlockType), m \in Nat :
         /\ StoredIn(s) /\ MayStore /\ (m = 0 => faults = 0)
         /\ BlockStored([card EXCEPT ![head] = s], m)
  BY StoreIs
<1> DEFINE c == [card EXCEPT ![head] = s]
           f == [fil EXCEPT !.pos = @ + 1, !.behind = <<>>]
<1>2. fil.open /\ ~fil.error /\ stage = "running" /\ fil.file = head /\ head \in DOMAIN card
  BY <1>1, OpenFile DEF MayStore
<1>3. /\ head \in Indices /\ wrapped \in BOOLEAN /\ CardType(card) /\ fil \in FileObject
  BY DEF TypeInv, CardType
<1>4. /\ CardType(c) /\ DOMAIN c = DOMAIN card /\ c[head] = s
      /\ \A g \in DOMAIN card \ {head} : c[g] = card[g]
  <2> QED BY <1>1, <1>2, <1>3, SetFileIs
<1>5. /\ f \in FileObject /\ f.pos = fil.pos + 1 /\ f.behind = <<>>
      /\ f.open /\ ~f.error /\ f.file = head
  <2>1. /\ fil.pos \in Nat /\ fil.file = head /\ head \in Indices /\ fil.open = TRUE
        /\ fil.error = FALSE
        /\ fil = [file |-> fil.file, pos |-> fil.pos, behind |-> fil.behind, open |-> fil.open,
                  error |-> fil.error]
    BY <1>2, <1>3 DEF FileObject
  <2> DEFINE n == fil.pos + 1
             none == <<>>
  <2>2. n \in Nat /\ none \in Seq(BlockType) /\ fil \in FileObject
    BY <1>3, <2>1
  <2>3. f = [fil EXCEPT !.pos = n, !.behind = none]
    OBVIOUS
  <2> HIDE DEF n, none
  <2>4. f \in FileObject /\ f.pos = n /\ f.behind = none
        /\ f.open = fil.open /\ f.error = fil.error /\ f.file = fil.file
    BY <2>2, <2>3 DEF FileObject
  <2> QED BY <2>1, <2>4 DEF n, none
<1>6. NewHead = FileAfter(head) /\ NewHead \in Indices
  BY <1>3, StepIs DEF NewHead
<1>7. stored' = stored + 1 /\ Rotate(f, c, m)
      /\ UNCHANGED <<epochOnCard, stage, next, epoch, boots, epochKept, creationFailed>>
  BY <1>1 DEF BlockStored, bootVars
<1> HIDE DEF c, f
<1>8. m \in Nat /\ m + 1 \in Nat /\ m + 1 # 0
  OBVIOUS
<1>9. CASE ~FileFull(f) /\ fil' = f /\ card' = c /\ faults' = m /\ UNCHANGED <<head, tail, wrapped>>
  <2>1. fil.pos + 1 < FileBlocks
    BY <1>3, <1>5, <1>9, Sizes DEF FileFull, FileObject
  <2>2. Kept(s)
    BY <1>4, <1>5, <1>9, <2>1 DEF Kept
  <2> QED BY <1>1, <1>2, <1>7, <1>9, <2>2 DEF StoredAs
<1>10. CASE fil' = f /\ card' = c /\ faults' = m + 1 /\ UNCHANGED <<head, tail, wrapped>>
  <2>1. Kept(s)
    BY <1>4, <1>5, <1>8, <1>10 DEF Kept
  <2> QED BY <1>1, <1>2, <1>7, <1>8, <1>10, <2>1 DEF StoredAs
<1>11. CASE FileFull(f) /\ Advance /\ OpenNextFile(c, m)
  <2>1. /\ head' = FileAfter(head) /\ head' = NewHead /\ head' \in Indices
        /\ wrapped' = (wrapped \/ head = NumFiles - 1)
    <3>1. head >= NumFiles - 1 <=> head = NumFiles - 1
      BY <1>3, Sizes DEF Indices
    <3> QED BY <1>6, <1>11, <3>1 DEF Advance
  <2>2. tail' = IF wrapped' THEN FileAfter(head') ELSE tail
    BY <1>6, <1>11, <2>1, StepIs DEF Advance
  <2>3. fil.pos + 1 >= FileBlocks
    BY <1>5, <1>11 DEF FileFull
  <2> DEFINE e == WithFile(c, head', <<>>)
  <2>4. /\ CardType(e) /\ DOMAIN e = DOMAIN card \cup {head'} /\ e[head'] = <<>>
        /\ \A g \in DOMAIN card \ {head'} : e[g] = c[g]
    <3> DEFINE none == <<>>
    <3>1. none \in Seq(BlockType) /\ head' \in Indices /\ CardType(c)
      BY <1>4, <2>1
    <3> HIDE DEF none
    <3>2. /\ CardType(WithFile(c, head', none)) /\ DOMAIN WithFile(c, head', none) = DOMAIN c \cup {head'}
          /\ WithFile(c, head', none)[head'] = none
          /\ \A g \in DOMAIN c \ {head'} : WithFile(c, head', none)[g] = c[g]
      BY <3>1, WithFileIs
    <3> QED BY <1>4, <3>2 DEF none
  <2> HIDE DEF e
  <2>5. CASE head' \in DOMAIN c /\ fil' = Opened(head') /\ card' = c /\ faults' = m
    <3>1. Turned(s)
      BY <1>4, <2>1, <2>2, <2>3, <2>5 DEF Turned
    <3> QED BY <1>1, <1>2, <1>7, <2>5, <3>1 DEF StoredAs
  <2>6. CASE head' \notin DOMAIN c /\ fil' = Opened(head') /\ card' = e
             /\ faults' = m
    <3>1. /\ CardType(card') /\ DOMAIN card' = DOMAIN card \cup {head'}
          /\ card'[head'] = <<>> /\ \A g \in DOMAIN card \ {head'} : card'[g] = c[g]
      BY <2>4, <2>6
    <3>2. Turned(s)
      BY <1>2, <1>4, <2>1, <2>2, <2>3, <2>6, <3>1 DEF Turned
    <3> QED BY <1>1, <1>2, <1>7, <2>6, <3>2 DEF StoredAs
  <2>7. CASE fil' = Opened(head') /\ card' = e /\ faults' = m + 1
    <3>1. /\ CardType(card') /\ DOMAIN card' = DOMAIN card \cup {head'}
          /\ card'[head'] = <<>> /\ \A g \in DOMAIN card \ {head'} : card'[g] = c[g]
      BY <2>4, <2>7
    <3>2. Turned(s)
      BY <1>2, <1>4, <1>8, <2>1, <2>2, <2>3, <2>7, <3>1 DEF Turned
    <3> QED BY <1>1, <1>2, <1>7, <1>8, <2>7, <3>2 DEF StoredAs
  <2>8. CASE fil' = ClosedFile /\ card' = c /\ faults' = m + 1
    <3>1. Turned(s)
      BY <1>4, <1>8, <2>1, <2>2, <2>3, <2>8 DEF Turned
    <3> QED BY <1>1, <1>2, <1>7, <1>8, <2>8, <3>1 DEF StoredAs
  <2>9. ~ClosedFile.open /\ Opened(head').open
    BY <2>1, OpenedIs
  <2> QED BY <1>11, <2>1, <2>5, <2>6, <2>7, <2>8, <2>9 DEF OpenNextFile, e
<1> QED BY <1>1, <1>7, <1>9, <1>10, <1>11 DEF Rotate

\* Where the blocks of the file come from.
LEMMA StoredFrom ==
  ASSUME TypeInv, FileInv, fil.open, NEW s \in Seq(BlockType), StoredIn(s),
         NEW p \in DOMAIN s
  PROVE  \/ s[p] = Block(stored + 1) /\ p \in Top + 1 .. fil.pos + 1
         \/ p \in DOMAIN card[head] /\ s[p] = card[head][p] /\ (p <= Top \/ p >= fil.pos + 2)
<1>1. DOMAIN s = 1 .. Len(s) /\ Len(s) \in Nat
  OBVIOUS
<1>2. /\ Top \in Nat /\ Top <= fil.pos /\ fil.pos \in Nat /\ Top <= Len(card[head])
      /\ Len(card[head]) \in Nat /\ DOMAIN card[head] = 1 .. Len(card[head])
  BY OpenFile
<1>3. p \in 1 .. Top \/ p \in Top + 1 .. fil.pos + 1 \/ p \in fil.pos + 2 .. Len(s)
  BY <1>1, <1>2
<1>4. CASE p \in 1 .. Top
  BY <1>2, <1>4 DEF StoredIn
<1>5. CASE p \in Top + 1 .. fil.pos + 1
  BY <1>5 DEF StoredIn
<1>6. CASE p \in fil.pos + 2 .. Len(s)
  <2>1. Len(s) = Len(card[head]) /\ s[p] = card[head][p]
    BY <1>1, <1>2, <1>6 DEF StoredIn
  <2> QED BY <1>1, <1>2, <1>6, <2>1
<1> QED BY <1>3, <1>4, <1>5, <1>6

\* A block on the card is the new one or was there before.
LEMMA BlocksFrom ==
  ASSUME TypeInv, FileInv, NEW s \in Seq(BlockType), StoredAs(s),
         NEW f \in DOMAIN card', NEW p \in DOMAIN card'[f]
  PROVE  \/ f = head /\ card'[f][p] = Block(stored + 1)
         \/ f \in DOMAIN card /\ p \in DOMAIN card[f] /\ card'[f][p] = card[f][p]
<1>1. fil.open /\ head \in DOMAIN card
  BY OpenFile DEF StoredAs
<1>2. ASSUME f = head, card'[f] = s
      PROVE  \/ card'[f][p] = Block(stored + 1)
             \/ p \in DOMAIN card[f] /\ card'[f][p] = card[f][p]
  BY <1>1, <1>2, StoredFrom DEF StoredAs
<1>3. CASE Kept(s)
  <2>1. CASE f = head
    BY <1>1, <1>2, <1>3, <2>1 DEF Kept
  <2>2. CASE f # head
    BY <1>3, <2>2 DEF Kept
  <2> QED BY <2>1, <2>2
<1>4. CASE Turned(s)
  <2>1. CASE f \notin {head, head'}
    BY <1>4, <2>1 DEF Turned
  <2>2. CASE f = head /\ f # head'
    BY <1>1, <1>2, <1>4, <2>2 DEF Turned
  <2>3. CASE f = head'
    <3>1. CASE card'[head'] = <<>>
      BY <2>3, <3>1
    <3>2. CASE head' \in DOMAIN card /\ card'[head'] = IF head' = head THEN s ELSE card[head']
      BY <1>1, <1>2, <2>3, <3>2
    <3> QED BY <1>4, <2>3, <3>1, <3>2 DEF Turned
  <2> QED BY <2>1, <2>2, <2>3
<1> QED BY <1>3, <1>4 DEF StoredAs

-----------------------------------------------------------------------------
(* Types, and where the blocks on the card come from *)

LEMMA BlankIs ==
  /\ Blank \in BlockType /\ Blank.boot = 0 /\ Blank.epoch = EpochRange
  /\ Preallocated \in Seq(BlockType) /\ Len(Preallocated) = FileBlocks
  /\ DOMAIN Preallocated = 1 .. FileBlocks
  /\ \A p \in DOMAIN Preallocated : Preallocated[p] = Blank
<1>1. Blank \in BlockType /\ Blank.boot = 0 /\ Blank.epoch = EpochRange
  BY Sizes DEF Blank, BlockType
<1>2. DOMAIN Preallocated = 1 .. FileBlocks /\ \A p \in 1 .. FileBlocks : Preallocated[p] = Blank
  BY DEF Preallocated
<1>3. Preallocated \in [1 .. FileBlocks -> BlockType]
  BY <1>1 DEF Preallocated
<1>4. Preallocated \in Seq(BlockType)
  BY <1>3, Sizes, SeqDef
<1>5. Len(Preallocated) = FileBlocks
  BY <1>2, <1>4, Sizes, LenProperties
<1> QED BY <1>1, <1>2, <1>4, <1>5

\* The card with a partly written block.
Torn(c) ==
    /\ fil.open /\ ~fil.error /\ stage = "running" /\ InPlace
    /\ CardType(c) /\ DOMAIN c = DOMAIN card /\ Len(c[head]) = Len(card[head])
    /\ c[head][fil.pos + 1] = Block(0)
    /\ \A p \in DOMAIN card[head] \ {fil.pos + 1} : c[head][p] = card[head][p]
    /\ \A f \in DOMAIN card \ {head} : c[f] = card[f]

LEMMA TornIs ==
  ASSUME TypeInv, FileInv, MayStore, NEW c \in PartlyWritten
  PROVE  Torn(c)
<1> DEFINE B == Block(0)
           old == card[head]
           s == [old EXCEPT ![fil.pos + 1] = B]
<1>1. fil.open /\ ~fil.error /\ stage = "running"
  BY DEF MayStore
<1>2. /\ fil.file = head /\ head \in DOMAIN card
      /\ old \in Seq(BlockType) /\ Len(old) \in Nat /\ DOMAIN old = 1 .. Len(old)
      /\ fil.pos \in Nat
  BY <1>1, OpenFile
<1>3. B \in BlockType
  BY ThisBlock
<1>4. InPlace /\ c = [card EXCEPT ![fil.file][fil.pos + 1] = Block(0)]
  BY DEF PartlyWritten
<1>5. c = [card EXCEPT ![head] = s]
  BY <1>2, <1>4
<1>6. fil.pos + 1 \in DOMAIN old
  BY <1>2, <1>4 DEF InPlace
<1> HIDE DEF old, B
<1>7. s \in Seq(BlockType) /\ Len(s) = Len(old) /\ s[fil.pos + 1] = B
      /\ \A p \in DOMAIN old \ {fil.pos + 1} : s[p] = old[p]
  BY <1>2, <1>3, <1>6, ExceptSeq
<1> HIDE DEF s
<1>8. CardType(card)
  BY DEF TypeInv, CardType
<1>9. /\ CardType(c) /\ DOMAIN c = DOMAIN card /\ c[head] = s
      /\ \A g \in DOMAIN card \ {head} : c[g] = card[g]
  BY <1>2, <1>5, <1>7, <1>8, SetFileIs
<1> QED BY <1>1, <1>4, <1>7, <1>9 DEF Torn, old, B

\* A block is where it was, or is blank, or was just written.
BlockKept(c, f, p) == f \in DOMAIN card /\ p \in DOMAIN card[f] /\ c[f][p] = card[f][p]
BlockNew(c, f, p) ==
    /\ fil.open
    /\ c[f][p] = Block(0) \/ (c[f][p] = Block(stored + 1) /\ stored' = stored + 1)
BlocksOf(c) ==
    \A f \in DOMAIN c : \A p \in DOMAIN c[f] :
        BlockKept(c, f, p) \/ c[f][p] = Blank \/ BlockNew(c, f, p)

LEMMA FileAdded ==
  ASSUME TypeInv, NEW f \in Indices, NEW s \in Seq(BlockType), \A p \in DOMAIN s : s[p] = Blank
  PROVE  CardType(WithFile(card, f, s)) /\ BlocksOf(WithFile(card, f, s))
<1>1. CardType(card)
  BY DEF TypeInv, CardType
<1> DEFINE c == WithFile(card, f, s)
<1>2. /\ CardType(c) /\ DOMAIN c = DOMAIN card \cup {f} /\ c[f] = s
      /\ \A g \in DOMAIN card \ {f} : c[g] = card[g]
  BY <1>1 DEF CardType, WithFile
<1> HIDE DEF c
<1>3. BlocksOf(c)
  BY <1>2 DEF BlocksOf, BlockKept
<1> QED BY <1>2, <1>3 DEF c

LEMMA NothingAdded ==
  ASSUME TypeInv
  PROVE  CardType(card) /\ BlocksOf(card)
BY DEF TypeInv, CardType, BlocksOf, BlockKept

LEMMA TornBlocks ==
  ASSUME TypeInv, FileInv, NEW c, Torn(c)
  PROVE  CardType(c) /\ BlocksOf(c)
<1>1. /\ CardType(c) /\ DOMAIN c = DOMAIN card /\ Len(c[head]) = Len(card[head])
      /\ c[head][fil.pos + 1] = Block(0) /\ fil.open
      /\ \A p \in DOMAIN card[head] \ {fil.pos + 1} : c[head][p] = card[head][p]
      /\ \A f \in DOMAIN card \ {head} : c[f] = card[f]
  BY DEF Torn
<1>2. head \in DOMAIN card
  BY <1>1, OpenFile
<1>3. DOMAIN c[head] = DOMAIN card[head]
  BY <1>1, <1>2 DEF CardType, TypeInv
<1>4. ASSUME NEW f \in DOMAIN c, NEW p \in DOMAIN c[f]
      PROVE  BlockKept(c, f, p) \/ BlockNew(c, f, p)
  <2>1. CASE f = head /\ p = fil.pos + 1
    BY <1>1, <2>1 DEF BlockNew
  <2>2. CASE f = head /\ p # fil.pos + 1
    BY <1>1, <1>2, <1>3, <2>2 DEF BlockKept
  <2>3. CASE f # head
    BY <1>1, <2>3 DEF BlockKept
  <2> QED BY <2>1, <2>2, <2>3
<1> QED BY <1>1, <1>4 DEF BlocksOf

\* What a step or a power cut leaves on the card.
LEMMA CutShortIs ==
  ASSUME TypeInv, FileInv, NEW c \in CutShort
  PROVE  \/ c = card
         \/ Torn(c)
         \/ stage = "preallocate" /\ next \notin DOMAIN card /\ c = WithFile(card, next, <<>>)
BY TornIs DEF CutShort, Exists

LEMMA CardStep ==
  ASSUME TypeInv, FileInv, Next
  PROVE  CardType(card') /\ BlocksOf(card')
<1> DEFINE none == <<>>
<1>1. none \in Seq(BlockType) /\ \A p \in DOMAIN none : none[p] = Blank
  OBVIOUS
<1> HIDE DEF none
<1>2. stage = "preallocate" => next \in Indices
  BY DEF TypeInv
<1>3. ASSUME UNCHANGED card
      PROVE  CardType(card') /\ BlocksOf(card')
  BY <1>3, NothingAdded
<1>4. ASSUME NEW f \in Indices, card' = WithFile(card, f, none)
      PROVE  CardType(card') /\ BlocksOf(card')
  BY <1>1, <1>4, FileAdded
<1>5. CASE MetaData \/ PreallocationComplete \/ SyncFails
  BY <1>3, <1>5 DEF MetaData, PreallocationComplete, SyncFails, cardVars
<1>6. CASE PreallocateFile
  <2>1. stage = "preallocate" /\ card' \in {card, WithFile(card, next, Preallocated), WithFile(card, next, none)}
    BY <1>6 DEF PreallocateFile, none
  <2>2. CASE card' = WithFile(card, next, Preallocated)
    BY <1>2, <2>1, <2>2, BlankIs, FileAdded
  <2> QED BY <1>2, <1>3, <1>4, <2>1, <2>2
<1>7. CASE OpenMostRecentFile
  <2>1. card' = card \/ card' = WithFile(card, 0, none)
    BY <1>7 DEF OpenMostRecentFile, none
  <2> QED BY <1>3, <1>4, <2>1, Sizes
<1>8. CASE StoreBlock \/ StoreBlockTruncating
  <2>1. PICK s \in Seq(BlockType) : StoredAs(s)
    BY <1>8, StoreStep
  <2>2. CardType(card') /\ fil.open /\ stored' = stored + 1
    BY <2>1 DEF StoredAs, Kept, Turned
  <2> QED BY <2>1, <2>2, BlocksFrom DEF BlocksOf, BlockKept, BlockNew
<1>9. CASE WriteAborts
  <2>1. MayStore /\ card' \in {card} \cup PartlyWritten
    BY <1>9 DEF WriteAborts
  <2> QED BY <1>3, <2>1, TornIs, TornBlocks
<1>10. CASE PowerCut
  <2>1. card' \in CutShort
    BY <1>10 DEF PowerCut
  <2>2. \/ card' = card \/ Torn(card')
        \/ stage = "preallocate" /\ card' = WithFile(card, next, none)
    BY <2>1, CutShortIs DEF none
  <2> QED BY <1>2, <1>3, <1>4, <2>2, TornBlocks
<1> QED BY <1>5, <1>6, <1>7, <1>8, <1>9, <1>10 DEF Next

LEMMA TypeStep ==
  ASSUME TypeInv, FileInv, [Next]_vars
  PROVE  TypeInv'
<1>1. CASE UNCHANGED vars
  BY <1>1 DEF vars, cardVars, logVars, bootVars, ghostVars, TypeInv
<1> SUFFICES ASSUME Next PROVE TypeInv'
  BY <1>1
<1>2. CardType(card')
  BY CardStep
<1>3. faults + 1 \in Nat /\ stored + 1 \in Nat /\ epochOnCard + 1 \in Nat /\ boots + 1 \in Nat \ {0}
  BY DEF TypeInv
<1>4. 0 \in Indices /\ 1 \in Nat
  BY Sizes
<1>5. ClosedFile \in FileObject /\ Opened(0) \in FileObject
  BY <1>4, OpenedIs
<1>6. CASE MetaData
  <2>1. epoch' \in Nat /\ epochOnCard' \in Nat /\ faults' \in Nat /\ epochKept' \in BOOLEAN
    <3>1. epoch' \in {1, epochOnCard + 1} /\ epochOnCard' \in {epochOnCard, epoch'}
      BY <1>6 DEF MetaData
    <3>2. faults' \in {faults, faults + 1} /\ epochKept' \in {epochKept, FALSE}
      BY <1>6 DEF MetaData, Failed
    <3>3. epochOnCard \in Nat /\ faults \in Nat /\ epochKept \in BOOLEAN
      BY DEF TypeInv
    <3> QED BY <1>3, <1>4, <3>1, <3>2, <3>3
  <2> QED BY <1>2, <1>4, <1>6, <2>1 DEF MetaData, TypeInv, CardType, logVars
<1>7. CASE PreallocationComplete
  BY <1>2, <1>7 DEF PreallocationComplete, TypeInv, CardType, logVars, ghostVars, cardVars
<1>8. CASE PreallocateFile
  <2>1. next' \in Nat /\ (stage' = "preallocate" => next' \in Indices)
        /\ stage' \in {"open", "preallocate"}
    <3>1. next \in Indices /\ next' = next + 1 /\ stage' = IF next = NumFiles - 1 THEN "open" ELSE stage
      BY <1>8 DEF PreallocateFile, TypeInv
    <3>2. NumFiles \in Nat /\ stage \in {"meta", "preallocate", "open", "running"} /\ stage = "preallocate"
      BY <1>8, Sizes DEF PreallocateFile, TypeInv
    <3> QED BY <3>1, <3>2 DEF Indices
  <2>2. faults' \in Nat /\ creationFailed' \in BOOLEAN
    BY <1>3, <1>8 DEF PreallocateFile, Failed, TypeInv
  <2> QED BY <1>2, <1>8, <2>1, <2>2 DEF PreallocateFile, TypeInv, CardType, logVars
<1>9. CASE OpenMostRecentFile
  <2>1. fil' \in FileObject /\ faults' \in Nat
    BY <1>3, <1>5, <1>9 DEF OpenMostRecentFile, Failed, TypeInv
  <2> QED BY <1>2, <1>4, <1>9, <2>1 DEF OpenMostRecentFile, TypeInv, CardType
<1>10. CASE StoreBlock \/ StoreBlockTruncating
  <2>1. PICK s \in Seq(BlockType) : StoredAs(s)
    BY <1>10, StoreStep
  <2>2. fil' \in FileObject /\ head' \in Indices /\ tail' \in Indices /\ wrapped' \in BOOLEAN
    <3>1. CASE Kept(s)
      BY <3>1 DEF Kept, TypeInv
    <3>2. CASE Turned(s)
      <4>1. head' \in Indices /\ FileAfter(head') \in Indices
        BY <3>2, StepIs DEF Turned, TypeInv
      <4> QED BY <3>2, <4>1, OpenedIs DEF Turned, TypeInv
    <3> QED BY <2>1, <3>1, <3>2 DEF StoredAs
  <2> QED BY <1>2, <1>3, <2>1, <2>2 DEF StoredAs, TypeInv, CardType
<1>11. CASE SyncFails
  <2> DEFINE B == Block(stored + 1)
             n == fil.pos + 1
             t == Append(fil.behind, B)
  <2>1. B \in BlockType
    BY <1>3, ThisBlock
  <2>2. fil' = [fil EXCEPT !.pos = n, !.behind = t] /\ fil \in FileObject
    BY <1>11 DEF SyncFails, TypeInv
  <2> HIDE DEF B
  <2>3. n \in Nat /\ t \in Seq(BlockType)
    BY <2>1, <2>2 DEF FileObject
  <2> HIDE DEF n, t
  <2>4. fil' \in FileObject
    BY <2>2, <2>3 DEF FileObject
  <2> QED BY <1>2, <1>3, <1>11, <2>4 DEF SyncFails, Failed, TypeInv, CardType, bootVars, cardVars
<1>12. CASE WriteAborts
  <2>1. fil' = [fil EXCEPT !.error = TRUE] /\ fil \in FileObject
    BY <1>12 DEF WriteAborts, TypeInv
  <2>2. fil' \in FileObject
    BY <2>1 DEF FileObject
  <2> QED BY <1>2, <1>3, <1>12, <2>2 DEF WriteAborts, Failed, TypeInv, CardType, bootVars
<1>13. CASE PowerCut
  BY <1>2, <1>3, <1>4, <1>5, <1>13 DEF PowerCut, TypeInv, CardType
<1> QED BY <1>6, <1>7, <1>8, <1>9, <1>10, <1>11, <1>12, <1>13 DEF Next

-----------------------------------------------------------------------------
(* The file that is being written, and the files *)

LEMMA Moves ==
  ASSUME TypeInv, FileInv, Next
  PROVE  \/ boots' = boots + 1 /\ stage' = "meta" /\ stored' = 0
         \/ /\ boots' = boots /\ stored' \in {stored, stored + 1}
            /\ epoch' = epoch \/ stage = "meta"
            /\ stage = "running" => stage' = "running"
<1>1. CASE StoreBlock \/ StoreBlockTruncating
  <2>1. PICK s \in Seq(BlockType) : StoredAs(s)
    BY <1>1, StoreStep
  <2> QED BY <2>1 DEF StoredAs
<1>2. CASE PowerCut
  BY <1>2 DEF PowerCut
<1>3. CASE MetaData \/ PreallocationComplete \/ PreallocateFile
  BY <1>3 DEF MetaData, PreallocationComplete, PreallocateFile, logVars, ghostVars
<1>4. CASE OpenMostRecentFile \/ SyncFails \/ WriteAborts
  BY <1>4 DEF OpenMostRecentFile, SyncFails, WriteAborts, bootVars
<1> QED BY <1>1, <1>2, <1>3, <1>4 DEF Next

LEMMA BlocksStep ==
  ASSUME TypeInv, FileInv, Next, NEW f \in DOMAIN card', NEW p \in DOMAIN card'[f]
  PROVE  /\ card'[f][p].boot <= boots'
         /\ card'[f][p].boot = boots' =>
              card'[f][p].n <= stored' /\ card'[f][p].epoch = epoch' % EpochRange
         /\ stage # "running" \/ stage' # "running" => card'[f][p].boot # boots'
<1> DEFINE b == card'[f][p]
<1>1. BlockKept(card', f, p) \/ b = Blank \/ BlockNew(card', f, p)
  BY CardStep DEF BlocksOf
<1>2. boots \in Nat \ {0} /\ stored \in Nat /\ boots + 1 \in Nat /\ stored + 1 \in Nat
  BY DEF TypeInv
<1>3. /\ boots' \in {boots, boots + 1} /\ boots' > 0
  BY <1>2, Moves
<1>4. CASE b = Blank
  BY <1>2, <1>3, <1>4, BlankIs
<1>5. CASE BlockKept(card', f, p)
  <2>1. f \in DOMAIN card /\ p \in DOMAIN card[f] /\ b = card[f][p]
    BY <1>5 DEF BlockKept
  <2>2. card[f] \in Seq(BlockType) /\ p \in 1 .. Len(card[f])
    BY <2>1 DEF TypeInv
  <2>3. b.boot \in Nat /\ b.n \in Nat
    BY <2>1, <2>2, BlockIs
  <2>4. /\ b.boot <= boots
        /\ b.boot = boots => b.n <= stored /\ b.epoch = epoch % EpochRange /\ stage = "running"
    BY <2>1 DEF FileInv
  <2> QED BY <1>2, <2>3, <2>4, Moves
<1>6. CASE BlockNew(card', f, p)
  <2>1. fil.open /\ stage = "running"
    BY <1>6 DEF BlockNew, FileInv
  <2>2. /\ b.boot = boots /\ b.epoch = epoch % EpochRange
        /\ b.n = 0 \/ (b.n = stored + 1 /\ stored' = stored + 1)
    BY <1>2, <1>6, ThisBlock DEF BlockNew
  <2> QED BY <1>2, <2>1, <2>2, Moves
<1> QED BY <1>1, <1>4, <1>5, <1>6

LEMMA FileStep ==
  ASSUME TypeInv, FileInv, [Next]_vars
  PROVE  FileInv'
<1>1. CASE UNCHANGED vars
  <2>1. /\ UNCHANGED <<card, stage, epoch, fil, head, tail, wrapped, boots, stored>>
    BY <1>1 DEF vars, cardVars, logVars, bootVars, ghostVars
  <2> QED BY <2>1 DEF FileInv, Block
<1> SUFFICES ASSUME Next PROVE FileInv'
  BY <1>1
<1>2. TypeInv' /\ CardType(card')
  BY TypeStep, CardStep
<1>3. /\ \A f \in DOMAIN card' : \A p \in DOMAIN card'[f] :
           /\ card'[f][p].boot <= boots'
           /\ card'[f][p].boot = boots' =>
                card'[f][p].n <= stored' /\ card'[f][p].epoch = epoch' % EpochRange
      /\ stage' # "running" =>
           \A f \in DOMAIN card' : \A p \in DOMAIN card'[f] : card'[f][p].boot # boots'
  BY BlocksStep
<1>4. ASSUME fil' = ClosedFile, stage' # "running" => head' = 0 /\ ~wrapped' /\ stored' = 0,
             tail' = IF wrapped' THEN FileAfter(head') ELSE 0
      PROVE  FileInv'
  <2>1. ~fil'.open /\ fil'.behind = <<>>
    BY <1>4, Sizes, OpenedIs
  <2> QED BY <1>3, <1>4, <2>1 DEF FileInv
<1>5. ASSUME NEW f \in Indices, fil' = Opened(f), stage' = "running", head' = f, f \in DOMAIN card',
             tail' = IF wrapped' THEN FileAfter(head') ELSE 0
      PROVE  FileInv'
  <2>1. fil'.open /\ fil'.file = f /\ fil'.behind = <<>> /\ fil'.pos = 0
    BY <1>5, OpenedIs
  <2>2. Len(card'[f]) \in Nat
    BY <1>2, <1>5 DEF CardType
  <2> QED BY <1>3, <1>5, <2>1, <2>2 DEF FileInv
<1>6. CASE MetaData \/ PreallocationComplete \/ PreallocateFile
  <2>1. stage # "running" /\ stage' # "running" /\ UNCHANGED <<fil, head, tail, wrapped, stored>>
    <3>1. CASE PreallocateFile
      BY <3>1 DEF PreallocateFile, logVars
    <3> QED BY <1>6, <3>1 DEF MetaData, PreallocationComplete, logVars
  <2> QED BY <1>4, <2>1 DEF FileInv
<1>7. CASE OpenMostRecentFile
  <2>1. /\ stage' = "running" /\ head' = 0 /\ tail' = 0 /\ wrapped' = FALSE
        /\ \/ fil' = Opened(0) /\ card' = IF Exists(0) THEN card ELSE WithFile(card, 0, <<>>)
           \/ fil' = ClosedFile
    BY <1>7 DEF OpenMostRecentFile
  <2>2. CASE fil' = Opened(0) /\ card' = IF Exists(0) THEN card ELSE WithFile(card, 0, <<>>)
    <3>1. 0 \in DOMAIN card'
      BY <2>2 DEF Exists, WithFile
    <3> QED BY <1>5, <2>1, <2>2, <3>1, Sizes
  <2> QED BY <1>4, <2>1, <2>2
<1>8. CASE StoreBlock \/ StoreBlockTruncating
  <2>1. PICK s \in Seq(BlockType) : StoredAs(s)
    BY <1>8, StoreStep
  <2>2. /\ fil.open /\ stage = "running" /\ stage' = "running" /\ fil.pos + 1 <= Len(s)
        /\ tail = IF wrapped THEN FileAfter(head) ELSE 0
        /\ head \in DOMAIN card
    BY <2>1 DEF StoredAs, StoredIn, FileInv
  <2>3. CASE Kept(s)
    <3>1. /\ fil'.open /\ fil'.file = head' /\ fil'.behind = <<>> /\ fil'.pos <= Len(card'[head'])
          /\ head' \in DOMAIN card' /\ tail' = IF wrapped' THEN FileAfter(head') ELSE 0
      BY <2>2, <2>3 DEF Kept
    <3> QED BY <1>3, <2>2, <3>1 DEF FileInv
  <2>4. CASE Turned(s)
    <3>1. tail' = IF wrapped' THEN FileAfter(head') ELSE 0
      BY <2>2, <2>4 DEF Turned
    <3>2. head' \in Indices
      BY <1>2 DEF TypeInv
    <3> QED BY <1>4, <1>5, <2>2, <2>4, <3>1, <3>2 DEF Turned
  <2> QED BY <2>1, <2>3, <2>4 DEF StoredAs
<1>9. CASE SyncFails
  <2> DEFINE B == Block(stored + 1)
             n == fil.pos + 1
             t == Append(fil.behind, B)
  <2>1. /\ fil.open /\ stage = "running" /\ ~InPlace /\ UNCHANGED <<head, tail, wrapped, card, stage>>
        /\ UNCHANGED <<stored, boots, epoch>>
        /\ fil' = [fil EXCEPT !.pos = n, !.behind = t] /\ fil \in FileObject
    BY <1>9 DEF SyncFails, MayStore, TypeInv, bootVars, cardVars
  <2>2. /\ head \in DOMAIN card /\ fil.file = head /\ Len(card[head]) \in Nat
        /\ fil.pos \in Nat /\ fil.behind \in Seq(BlockType)
        /\ \/ fil.behind = <<>> /\ fil.pos <= Len(card[head])
           \/ fil.behind # <<>> /\ fil.pos = Len(card[head]) + Len(fil.behind)
    BY <2>1, OpenFile
  <2>3. B \in BlockType
    BY ThisBlock DEF TypeInv
  <2> HIDE DEF B
  <2>4. /\ t \in Seq(BlockType) /\ Len(t) = Len(fil.behind) + 1 /\ Len(fil.behind) \in Nat
        /\ DOMAIN t = 1 .. Len(fil.behind) + 1
        /\ t[Len(fil.behind) + 1] = B /\ \A i \in 1 .. Len(fil.behind) : t[i] = fil.behind[i]
    BY <2>2, <2>3, AppendProperties
  <2>5. fil.pos >= Len(card[head])
    BY <2>1, <2>2 DEF InPlace
  <2>6. fil.behind = <<>> => Len(fil.behind) = 0
    OBVIOUS
  <2>7. t # <<>> /\ n = Len(card[head]) + Len(t)
    <3> HIDE DEF t
    <3>1. t # <<>>
      BY <2>4
    <3> QED BY <2>2, <2>4, <2>5, <2>6, <3>1
  <2>8. \A i \in DOMAIN t : t[i] = B
    <3> HIDE DEF t
    <3>1. \A i \in 1 .. Len(fil.behind) : fil.behind[i] = B
      BY <2>2 DEF FileInv, B
    <3> QED BY <2>4, <3>1
  <2> HIDE DEF n, t
  <2>9. fil'.open /\ fil'.file = head /\ fil'.pos = n /\ fil'.behind = t
    BY <2>1, <2>2 DEF FileObject
  <2>10. Block(stored + 1)' = B
    BY <2>1 DEF B, Block
  <2>11. tail' = IF wrapped' THEN FileAfter(head') ELSE 0
    BY <2>1 DEF FileInv
  <2> QED BY <1>3, <2>1, <2>2, <2>7, <2>8, <2>9, <2>10, <2>11 DEF FileInv
<1>10. CASE WriteAborts
  <2>1. /\ MayStore /\ fil.open /\ stage = "running" /\ UNCHANGED <<head, tail, wrapped, stage>>
        /\ UNCHANGED <<stored, boots, epoch>>
        /\ fil' = [fil EXCEPT !.error = TRUE] /\ fil \in FileObject
        /\ card' \in {card} \cup PartlyWritten
    BY <1>10 DEF WriteAborts, MayStore, TypeInv, bootVars
  <2>2. fil'.open /\ fil'.file = fil.file /\ fil'.pos = fil.pos /\ fil'.behind = fil.behind
    BY <2>1 DEF FileObject
  <2>3. Len(card'[head]) = Len(card[head]) /\ head \in DOMAIN card' /\ fil.file = head
    BY <2>1, OpenFile, TornIs DEF Torn
  <2>4. Block(stored + 1)' = Block(stored + 1)
    BY <2>1 DEF Block
  <2>5. \/ fil'.behind = <<>> /\ fil'.pos <= Len(card'[head'])
        \/ fil'.behind # <<>> /\ fil'.pos = Len(card'[head']) + Len(fil'.behind)
    BY <2>1, <2>2, <2>3 DEF FileInv
  <2>6. \A i \in DOMAIN fil'.behind : fil'.behind[i] = Block(stored + 1)'
    BY <2>1, <2>2, <2>4 DEF FileInv
  <2>7. tail' = IF wrapped' THEN FileAfter(head') ELSE 0
    BY <2>1 DEF FileInv
  <2> QED BY <1>3, <2>1, <2>2, <2>3, <2>5, <2>6, <2>7 DEF FileInv
<1>11. CASE PowerCut
  BY <1>4, <1>11 DEF PowerCut
<1> QED BY <1>6, <1>7, <1>8, <1>9, <1>10, <1>11 DEF Next

LEMMA ExistStep ==
  ASSUME TypeInv, FileInv, ExistInv, [Next]_vars
  PROVE  ExistInv'
<1>1. CASE UNCHANGED vars
  BY <1>1 DEF vars, cardVars, bootVars, ghostVars, ExistInv
<1> SUFFICES ASSUME Next, ~creationFailed' PROVE ExistInv'
  BY <1>1 DEF ExistInv
<1>2. ~creationFailed
  <2>1. CASE StoreBlock \/ StoreBlockTruncating
    BY <2>1, StoreStep DEF StoredAs
  <2>2. CASE MetaData \/ PreallocationComplete \/ PreallocateFile
    BY <2>2 DEF MetaData, PreallocationComplete, PreallocateFile, ghostVars
  <2>3. CASE OpenMostRecentFile \/ SyncFails \/ WriteAborts \/ PowerCut
    BY <2>3 DEF OpenMostRecentFile, SyncFails, WriteAborts, PowerCut
  <2> QED BY <2>1, <2>2, <2>3 DEF Next
<1>3. /\ \A f \in DOMAIN card : 0 .. f \subseteq DOMAIN card
      /\ stage = "preallocate" => 0 .. next - 1 \subseteq DOMAIN card
      /\ stage \in {"open", "running"} => DOMAIN card = Indices
  BY <1>2 DEF ExistInv
<1>4. CardType(card') /\ TypeInv' /\ DOMAIN card \subseteq Indices
  BY CardStep, TypeStep DEF TypeInv
<1>5. ASSUME DOMAIN card' = Indices, stage' \in {"open", "running"}
      PROVE  ExistInv'
  <2>1. \A f \in Indices : 0 .. f \subseteq Indices
    BY Sizes DEF Indices
  <2> QED BY <1>5, <2>1 DEF ExistInv
<1>6. CASE MetaData
  <2>1. stage' = "preallocate" /\ next' = 0 /\ card' = card
    BY <1>6 DEF MetaData
  <2>2. 0 .. next' - 1 = {}
    BY <2>1
  <2> QED BY <1>3, <2>1, <2>2 DEF ExistInv
<1>7. CASE PreallocationComplete
  <2>1. stage' = "open" /\ card' = card /\ NumFiles - 1 \in DOMAIN card
    BY <1>7 DEF PreallocationComplete, Verified, Exists, cardVars
  <2>2. Indices \subseteq DOMAIN card
    BY <1>3, <2>1 DEF Indices
  <2> QED BY <1>4, <1>5, <2>1, <2>2
<1>8. CASE PreallocateFile
  <2>1. /\ stage = "preallocate" /\ next \in Indices /\ next' = next + 1
        /\ stage' = IF next = NumFiles - 1 THEN "open" ELSE stage
    BY <1>8 DEF PreallocateFile, TypeInv
  <2>2. DOMAIN card' = DOMAIN card \cup {next}
    <3>1. CASE Verified(next) /\ card' = card
      BY <3>1 DEF Verified, Exists
    <3>2. CASE card' = WithFile(card, next, Preallocated)
      BY <3>2 DEF WithFile
    <3> QED BY <1>8, <3>1, <3>2 DEF PreallocateFile
  <2>3. 0 .. next \subseteq DOMAIN card'
    <3>1. \A k \in 0 .. next : k \in 0 .. next - 1 \/ k = next
      BY <2>1, Sizes
    <3> QED BY <1>3, <2>1, <2>2, <3>1
  <2>4. CASE next = NumFiles - 1
    <3>1. DOMAIN card' = Indices
      BY <1>4, <2>3, <2>4 DEF CardType, Indices
    <3> QED BY <1>5, <2>1, <2>4, <3>1
  <2>5. CASE next # NumFiles - 1
    <3>1. stage' = "preallocate" /\ next' - 1 = next
      BY <2>1, <2>5, Sizes
    <3>2. \A f \in DOMAIN card' : 0 .. f \subseteq DOMAIN card'
      BY <1>3, <2>2, <2>3
    <3> QED BY <2>3, <3>1, <3>2 DEF ExistInv
  <2> QED BY <2>4, <2>5
<1>9. CASE OpenMostRecentFile
  <2>1. stage = "open" /\ stage' = "running" /\ DOMAIN card = Indices
    BY <1>3, <1>9 DEF OpenMostRecentFile
  <2>2. card' = card
    BY <1>9, <2>1, Sizes DEF OpenMostRecentFile, Exists
  <2> QED BY <1>5, <2>1, <2>2
<1>10. CASE StoreBlock \/ StoreBlockTruncating
  <2>1. PICK s \in Seq(BlockType) : StoredAs(s)
    BY <1>10, StoreStep
  <2>2. DOMAIN card \subseteq DOMAIN card' /\ stage = "running" /\ stage' = "running"
    BY <2>1 DEF StoredAs, Kept, Turned, FileInv
  <2> QED BY <1>3, <1>4, <1>5, <2>2 DEF CardType
<1>11. CASE SyncFails \/ WriteAborts
  <2>1. MayStore /\ UNCHANGED stage /\ card' \in {card} \cup PartlyWritten
    BY <1>11 DEF SyncFails, WriteAborts, bootVars, cardVars
  <2>2. stage = "running" /\ DOMAIN card' = DOMAIN card
    BY <2>1, TornIs DEF Torn, MayStore
  <2> QED BY <1>3, <1>5, <2>1, <2>2
<1>12. CASE PowerCut
  <2>1. stage' = "meta" /\ card' \in CutShort
    BY <1>12 DEF PowerCut
  <2>2. CASE DOMAIN card' = DOMAIN card
    BY <1>3, <2>1, <2>2 DEF ExistInv
  <2>3. CASE stage = "preallocate" /\ card' = WithFile(card, next, <<>>)
    <3>1. DOMAIN card' = DOMAIN card \cup {next} /\ next \in Indices
      BY <2>3 DEF WithFile, TypeInv
    <3>2. 0 .. next \subseteq DOMAIN card'
      <4>1. \A k \in 0 .. next : k \in 0 .. next - 1 \/ k = next
        BY <3>1, Sizes
      <4> QED BY <1>3, <2>3, <3>1, <4>1
    <3> QED BY <1>3, <2>1, <3>1, <3>2 DEF ExistInv
  <2>4. card' = card \/ Torn(card') \/ (stage = "preallocate" /\ card' = WithFile(card, next, <<>>))
    BY <2>1, CutShortIs
  <2> QED BY <2>2, <2>3, <2>4 DEF Torn
<1> QED BY <1>6, <1>7, <1>8, <1>9, <1>10, <1>11, <1>12 DEF Next

-----------------------------------------------------------------------------
(* Epochs *)

LEMMA BlockOnCard ==
  ASSUME TypeInv, NEW f \in DOMAIN card, NEW p \in DOMAIN card[f]
  PROVE  /\ card[f] \in Seq(BlockType) /\ p \in 1 .. Len(card[f]) /\ Len(card[f]) \in Nat
         /\ card[f][p] \in BlockType
         /\ card[f][p].boot \in Nat /\ card[f][p].n \in Nat /\ card[f][p].epoch \in Nat
<1>1. card[f] \in Seq(BlockType)
  BY DEF TypeInv
<1>2. p \in 1 .. Len(card[f]) /\ Len(card[f]) \in Nat
  BY <1>1
<1> QED BY <1>1, <1>2, BlockIs

LEMMA NewBlock ==
  ASSUME TypeInv, FileInv, NEW c, NEW f, NEW p, BlockNew(c, f, p)
  PROVE  stage = "running" /\ c[f][p].boot = boots /\ c[f][p].epoch = epoch % EpochRange
<1>1. stored + 1 \in Nat /\ 0 \in Nat
  BY DEF TypeInv
<1>2. \A m \in Nat : Block(m).boot = boots /\ Block(m).epoch = epoch % EpochRange
  BY ThisBlock
<1> QED BY <1>1, <1>2 DEF BlockNew, FileInv

LEMMA EpochUnfolds ==
  ASSUME NEW E, EpochsOf(E)
  PROVE  /\ E \in [Nat -> Nat]
         /\ \A i, j \in Nat : i <= j => E[i] <= E[j] /\ E[j] <= E[i] + (j - i)
         /\ \A k \in Nat : k >= boots => E[k] = epochOnCard
         /\ \A f \in DOMAIN card : \A p \in DOMAIN card[f] :
              \/ card[f][p] = Blank
              \/ /\ card[f][p].boot \in 1 .. boots
                 /\ card[f][p].epoch = E[card[f][p].boot] % EpochRange
                 /\ E[card[f][p].boot - 1] < E[card[f][p].boot]
         /\ stage = "meta" => E[boots - 1] = epochOnCard
         /\ stage # "meta" => epoch = epochOnCard /\ E[boots - 1] < epochOnCard
BY DEF EpochsOf

\* The epochs are known as long as the metadata file is kept.
LEMMA EpochMoves ==
  ASSUME TypeInv, FileInv, Next, epochKept'
  PROVE  /\ epochKept
         /\ \/ /\ stage = "meta" /\ stage' = "preallocate" /\ boots' = boots
               /\ epoch' = epochOnCard + 1 /\ epochOnCard' = epochOnCard + 1 /\ UNCHANGED card
            \/ /\ stage # "meta" /\ stage' # "meta" /\ boots' = boots
               /\ UNCHANGED <<epoch, epochOnCard>>
            \/ stage' = "meta" /\ boots' = boots + 1 /\ UNCHANGED epochOnCard
<1>1. CASE StoreBlock \/ StoreBlockTruncating
  BY <1>1, StoreStep DEF StoredAs, FileInv
<1>2. CASE PowerCut
  BY <1>2 DEF PowerCut
<1>3. CASE MetaData
  BY <1>3 DEF MetaData
<1>4. CASE PreallocationComplete \/ PreallocateFile
  BY <1>4 DEF PreallocationComplete, PreallocateFile, ghostVars, cardVars
<1>5. CASE OpenMostRecentFile \/ SyncFails \/ WriteAborts
  BY <1>5 DEF OpenMostRecentFile, SyncFails, WriteAborts, MayStore, bootVars, cardVars
<1> QED BY <1>1, <1>2, <1>3, <1>4, <1>5 DEF Next

LEMMA EpochStep ==
  ASSUME TypeInv, FileInv, EpochInv, [Next]_vars
  PROVE  EpochInv'
<1>1. CASE UNCHANGED vars
  BY <1>1 DEF vars, cardVars, bootVars, ghostVars, EpochInv, EpochsOf
<1> SUFFICES ASSUME Next, epochKept' PROVE \E F \in [Nat -> Nat] : EpochsOf(F)'
  BY <1>1 DEF EpochInv
<1>2. epochKept
  BY EpochMoves
<1>3. PICK E \in [Nat -> Nat] : EpochsOf(E)
  BY <1>2 DEF EpochInv
<1>4. boots \in Nat \ {0} /\ boots - 1 \in Nat /\ boots + 1 \in Nat /\ epochOnCard \in Nat
  <2>1. boots \in Nat \ {0} /\ epochOnCard \in Nat
    BY DEF TypeInv
  <2> QED BY <2>1
<1>5. /\ \A i, j \in Nat : i <= j => E[i] <= E[j] /\ E[j] <= E[i] + (j - i)
      /\ \A k \in Nat : k >= boots => E[k] = epochOnCard
      /\ \A f \in DOMAIN card : \A p \in DOMAIN card[f] :
           \/ card[f][p] = Blank
           \/ /\ card[f][p].boot \in 1 .. boots
              /\ card[f][p].epoch = E[card[f][p].boot] % EpochRange
              /\ E[card[f][p].boot - 1] < E[card[f][p].boot]
      /\ stage = "meta" => E[boots - 1] = epochOnCard
      /\ stage # "meta" => epoch = epochOnCard /\ E[boots - 1] < epochOnCard
  BY <1>3, EpochUnfolds
<1>6. CASE /\ stage = "meta" /\ stage' = "preallocate" /\ boots' = boots
           /\ epoch' = epochOnCard + 1 /\ epochOnCard' = epochOnCard + 1 /\ UNCHANGED card
  <2>1. [k \in Nat |-> IF k < boots THEN E[k] ELSE epochOnCard + 1] \in [Nat -> Nat]
    BY <1>3, <1>4
  <2>2. PICK F \in [Nat -> Nat] : \A k \in Nat : F[k] = IF k < boots THEN E[k] ELSE epochOnCard + 1
    BY <2>1
  <2>3. ASSUME NEW i \in Nat, NEW j \in Nat, i <= j
        PROVE  F[i] <= F[j] /\ F[j] <= F[i] + (j - i)
    <3>1. E[i] \in Nat /\ E[j] \in Nat /\ E[i] <= E[j] /\ E[j] <= E[i] + (j - i)
      BY <1>3, <1>5, <2>3
    <3>2. CASE j < boots \/ i >= boots
      BY <1>4, <2>2, <2>3, <3>1, <3>2
    <3>3. CASE i < boots /\ j >= boots
      <4>1. E[i] <= E[boots - 1] /\ E[boots - 1] <= E[i] + (boots - 1 - i)
        <5>1. boots - 1 \in Nat /\ i <= boots - 1
          BY <1>4, <3>3
        <5> QED BY <1>5, <5>1
      <4>2. E[boots - 1] = epochOnCard
        BY <1>5, <1>6
      <4> QED BY <1>4, <2>2, <3>1, <3>3, <4>1, <4>2
    <3> QED BY <1>4, <3>2, <3>3
  <2>4. \A k \in Nat : k >= boots => F[k] = epochOnCard + 1
    BY <1>4, <2>2
  <2>5. ASSUME NEW f \in DOMAIN card, NEW p \in DOMAIN card[f]
        PROVE  \/ card[f][p] = Blank
               \/ /\ card[f][p].boot \in 1 .. boots
                  /\ card[f][p].epoch = F[card[f][p].boot] % EpochRange
                  /\ F[card[f][p].boot - 1] < F[card[f][p].boot]
    <3> DEFINE b == card[f][p].boot
    <3>1. b # boots
      BY <1>6 DEF FileInv
    <3>2. CASE card[f][p] # Blank
      <4>1. b \in 1 .. boots
        BY <1>5, <3>2
      <4>2. b \in Nat /\ b - 1 \in Nat /\ b < boots /\ b - 1 < boots
        BY <1>4, <3>1, <4>1
      <4>3. F[b] = E[b] /\ F[b - 1] = E[b - 1]
        BY <2>2, <4>2
      <4> QED BY <1>5, <3>2, <4>1, <4>3
    <3> QED BY <3>2
  <2>6. F[boots - 1] = epochOnCard
    BY <1>4, <1>5, <1>6, <2>2
  <2>7. /\ stage' # "meta" /\ epoch' = epochOnCard' /\ F[boots' - 1] < epochOnCard'
        /\ \A k \in Nat : k >= boots' => F[k] = epochOnCard'
        /\ \A f \in DOMAIN card' : \A p \in DOMAIN card'[f] :
             \/ card'[f][p] = Blank
             \/ /\ card'[f][p].boot \in 1 .. boots'
                /\ card'[f][p].epoch = F[card'[f][p].boot] % EpochRange
                /\ F[card'[f][p].boot - 1] < F[card'[f][p].boot]
    BY <1>4, <1>6, <2>4, <2>5, <2>6
  <2>8. EpochsOf(F)'
    BY <2>2, <2>3, <2>7 DEF EpochsOf
  <2> QED BY <2>2, <2>8
<1>7. CASE /\ stage # "meta" /\ stage' # "meta" /\ boots' = boots
           /\ UNCHANGED <<epoch, epochOnCard>>
  <2>1. ASSUME NEW f \in DOMAIN card', NEW p \in DOMAIN card'[f]
        PROVE  \/ card'[f][p] = Blank
               \/ /\ card'[f][p].boot \in 1 .. boots
                  /\ card'[f][p].epoch = E[card'[f][p].boot] % EpochRange
                  /\ E[card'[f][p].boot - 1] < E[card'[f][p].boot]
    <3>1. BlockKept(card', f, p) \/ card'[f][p] = Blank \/ BlockNew(card', f, p)
      BY CardStep DEF BlocksOf
    <3>2. CASE BlockKept(card', f, p)
      BY <1>5, <3>2 DEF BlockKept
    <3>3. CASE BlockNew(card', f, p)
      <4>1. card'[f][p].boot = boots /\ card'[f][p].epoch = epoch % EpochRange
        BY <3>3, NewBlock
      <4>2. E[boots] = epochOnCard /\ epoch = epochOnCard /\ E[boots - 1] < epochOnCard
            /\ boots \in 1 .. boots
        BY <1>4, <1>5, <1>7
      <4> QED BY <4>1, <4>2
    <3> QED BY <3>1, <3>2, <3>3
  <2>2. EpochsOf(E)'
    BY <1>3, <1>5, <1>7, <2>1 DEF EpochsOf
  <2> QED BY <1>3, <2>2
<1>8. CASE stage' = "meta" /\ boots' = boots + 1 /\ UNCHANGED epochOnCard
  <2>1. ASSUME NEW f \in DOMAIN card', NEW p \in DOMAIN card'[f]
        PROVE  \/ card'[f][p] = Blank
               \/ /\ card'[f][p].boot \in 1 .. boots + 1
                  /\ card'[f][p].epoch = E[card'[f][p].boot] % EpochRange
                  /\ E[card'[f][p].boot - 1] < E[card'[f][p].boot]
    <3>1. BlockKept(card', f, p) \/ card'[f][p] = Blank \/ BlockNew(card', f, p)
      BY CardStep DEF BlocksOf
    <3>2. CASE BlockKept(card', f, p)
      <4>1. 1 .. boots \subseteq 1 .. boots + 1
        BY <1>4
      <4> QED BY <1>5, <3>2, <4>1 DEF BlockKept
    <3>3. CASE BlockNew(card', f, p)
      <4>1. card'[f][p].boot = boots /\ card'[f][p].epoch = epoch % EpochRange /\ stage = "running"
        BY <3>3, NewBlock
      <4>2. E[boots] = epochOnCard /\ epoch = epochOnCard /\ E[boots - 1] < epochOnCard
            /\ boots \in 1 .. boots + 1
        BY <1>4, <1>5, <4>1
      <4> QED BY <4>1, <4>2
    <3> QED BY <3>1, <3>2, <3>3
  <2>2. E[boots] = epochOnCard /\ \A k \in Nat : k >= boots + 1 => E[k] = epochOnCard
    <3>1. boots >= boots /\ \A k \in Nat : k >= boots + 1 => k >= boots
      BY <1>4
    <3> QED BY <1>4, <1>5, <3>1
  <2>3. boots' - 1 = boots
    BY <1>4, <1>8
  <2>4. EpochsOf(E)'
    BY <1>3, <1>5, <1>8, <2>1, <2>2, <2>3 DEF EpochsOf
  <2> QED BY <1>3, <2>4
<1> QED BY <1>6, <1>7, <1>8, EpochMoves

LEMMA EpochTells ==
  ASSUME TypeInv, EpochInv
  PROVE  EpochTellsBoots
<1> SUFFICES ASSUME epochKept, NEW f \in DOMAIN card, NEW g \in DOMAIN card,
                    NEW i \in DOMAIN card[f], NEW j \in DOMAIN card[g],
                    card[f][i].epoch = card[g][j].epoch, card[f][i].boot < card[g][j].boot
             PROVE  card[f][i].boot + EpochRange <= card[g][j].boot
  BY DEF EpochTellsBoots
<1> DEFINE b == card[f][i]
           c == card[g][j]
<1>1. PICK E \in [Nat -> Nat] : EpochsOf(E)
  BY DEF EpochInv
<1>2. /\ b.boot \in Nat /\ c.boot \in Nat
  BY BlockOnCard
<1>3. EpochRange \in Nat \ {0} /\ boots \in Nat
  BY Sizes DEF TypeInv
<1>4. c # Blank
  <2>1. c.boot # 0
    BY <1>2
  <2> HIDE DEF c
  <2> QED BY <2>1, BlankIs
<1>5. c.boot \in 1 .. boots /\ c.epoch = E[c.boot] % EpochRange /\ E[c.boot - 1] < E[c.boot]
  BY <1>1, <1>4, EpochUnfolds
<1>6. c.epoch < EpochRange /\ c.epoch \in Nat
  <2>1. E[c.boot] \in Nat
    BY <1>1, <1>2
  <2>2. E[c.boot] % EpochRange \in 0 .. EpochRange - 1
    BY <1>3, <2>1, Division
  <2> QED BY <1>3, <1>5, <2>2
<1>7. b # Blank
  <2>1. b.epoch # EpochRange
    <3>1. b.epoch = c.epoch
      OBVIOUS
    <3> HIDE DEF b, c
    <3> QED BY <1>3, <1>6, <3>1
  <2> HIDE DEF b
  <2> QED BY <2>1, BlankIs
<1>8. b.epoch = E[b.boot] % EpochRange
  BY <1>1, <1>7, EpochUnfolds
<1>9. /\ E[b.boot] <= E[c.boot - 1] /\ E[c.boot] <= E[b.boot] + (c.boot - b.boot)
      /\ E[b.boot] \in Nat /\ E[c.boot] \in Nat /\ E[c.boot - 1] \in Nat
  <2>1. c.boot - 1 \in Nat /\ b.boot <= c.boot - 1 /\ b.boot <= c.boot
    BY <1>2
  <2> QED BY <1>1, <1>2, <2>1, EpochUnfolds
<1>10. E[b.boot] + EpochRange <= E[c.boot]
  <2> DEFINE x == E[b.boot]
             y == E[c.boot]
  <2>1. x \in Nat /\ y \in Nat /\ x < y /\ x % EpochRange = y % EpochRange
    BY <1>5, <1>8, <1>9
  <2> HIDE DEF x, y
  <2>2. x + EpochRange <= y
    BY <1>3, <2>1, SameRemainder
  <2> QED BY <2>2 DEF x, y
<1> QED BY <1>2, <1>3, <1>9, <1>10

-----------------------------------------------------------------------------
(* The ring of files *)

LEMMA GaplessSame ==
  ASSUME NEW k, NEW s, NEW t, NEW a \in Nat, NEW b \in Nat,
         \A p \in a .. b : t[p] = s[p], Gapless(k, s, a, b)
  PROVE  Gapless(k, t, a, b)
<1>1. \A p \in a .. b : b \in a .. b /\ p .. b \subseteq a .. b
  OBVIOUS
<1>2. ASSUME NEW p \in a .. b, NEW m \in t[p].n .. t[b].n
      PROVE  \E q \in p .. b : t[q].n = m
  <2>1. m \in s[p].n .. s[b].n
    BY <1>1, <1>2
  <2>2. PICK q \in p .. b : s[q].n = m
    BY <2>1 DEF Gapless
  <2> QED BY <1>1, <2>2
<1> QED BY <1>2 DEF Gapless

LEMMA NothingYet ==
  ASSUME TypeInv', stored' = 0, ~wrapped', head' = 0, fil'.pos = 0,
         \A f \in DOMAIN card' : \A p \in DOMAIN card'[f] : card'[f][p].boot # boots'
  PROVE  RingInv'
<1>1. \A f \in Indices : ~Full(f)'
  BY Sizes DEF Full, Live, Indices
<1>2. ~(Top' > 0)
  <2>1. head' \in DOMAIN card' => Len(card'[head']) \in Nat
    BY DEF TypeInv
  <2> QED BY <2>1 DEF Top
<1>3. 1 .. stored' = {}
  OBVIOUS
<1>4. FullInv'
  BY <1>1 DEF FullInv
<1>5. HeadInv'
  BY <1>2 DEF HeadInv
<1>6. RestInv' /\ FreshInv'
  BY DEF RestInv, FreshInv
<1>7. OrderInv' /\ LinkInv'
  BY <1>1 DEF OrderInv, LinkInv
<1>8. CoverInv'
  BY <1>3 DEF CoverInv
<1> QED BY <1>4, <1>5, <1>6, <1>7, <1>8 DEF RingInv

LEMMA FullIs ==
  ASSUME TypeInv, FullInv, NEW f \in Indices, Full(f)
  PROVE  /\ f \in DOMAIN card /\ card[f] \in Seq(BlockType) /\ Len(card[f]) \in Nat
         /\ Len(card[f]) >= FileBlocks /\ DOMAIN card[f] = 1 .. Len(card[f])
         /\ 1 \in DOMAIN card[f] /\ FileBlocks \in DOMAIN card[f]
         /\ Gapless(boots, card[f], 1, FileBlocks)
         /\ card[f][1].boot = boots /\ card[f][1].n >= 1
         /\ card[f][1].n \in Nat
<1>1. /\ f \in DOMAIN card /\ Len(card[f]) >= FileBlocks /\ Gapless(boots, card[f], 1, FileBlocks)
  BY DEF FullInv
<1>2. card[f] \in Seq(BlockType)
  BY <1>1 DEF TypeInv
<1>3. Len(card[f]) \in Nat /\ DOMAIN card[f] = 1 .. Len(card[f])
  BY <1>2
<1>4. 1 \in DOMAIN card[f] /\ FileBlocks \in DOMAIN card[f] /\ 1 \in 1 .. FileBlocks
  BY <1>1, <1>3, Sizes
<1> QED BY <1>1, <1>2, <1>3, <1>4, BlockOnCard DEF Gapless

\* The files between the tail and the head are full.
LEMMA NextFull ==
  ASSUME TypeInv, NEW f \in Indices, Live(f), f # head, FileAfter(f) # head
  PROVE  Full(FileAfter(f))
<1>1. f \in Nat /\ f <= NumFiles - 1 /\ NumFiles \in Nat /\ head \in Nat /\ head <= NumFiles - 1
  BY Sizes DEF TypeInv, Indices
<1>2. FileAfter(f) \in Indices
  BY StepIs
<1>3. ASSUME ~wrapped
      PROVE  FileAfter(f) <= head
  BY <1>1, <1>3 DEF FileAfter, Live
<1> QED BY <1>2, <1>3 DEF Full, Live

\* The order in which the files are read, when the head moves on.
LEMMA PrecedesIs ==
  ASSUME NumFiles > 1, NEW h \in Indices, NEW f \in Indices, NEW g \in Indices
  PROVE  /\ Precedes(h, f, g) => f # h /\ f # g
         /\ f # FileAfter(h) /\ g # FileAfter(h) =>
              (Precedes(FileAfter(h), f, g) <=> Precedes(h, f, g))
         /\ f = FileAfter(h) /\ g # f => Precedes(h, f, g)
         /\ FileAfter(f) = FileAfter(h) => f = h
<1>1. /\ f \in Nat /\ f <= NumFiles - 1 /\ g \in Nat /\ g <= NumFiles - 1
      /\ h \in Nat /\ h <= NumFiles - 1 /\ NumFiles \in Nat
  BY Sizes DEF Indices
<1>2. CASE h = NumFiles - 1
  BY <1>1, <1>2 DEF Precedes, FileAfter
<1>3. CASE h # NumFiles - 1
  BY <1>1, <1>3 DEF Precedes, FileAfter
<1> QED BY <1>2, <1>3

\* The head's file, up to the block that was written last.
LEMMA RunIs ==
  ASSUME NEW k \in Nat, NEW old \in Seq(BlockType), NEW s \in Seq(BlockType),
         NEW t \in Nat, NEW c \in Nat, NEW m \in Nat,
         t <= Len(old), t < c, t + 1 = c \/ t = Len(old), c <= Len(s), m >= 1,
         t > 0 => Gapless(k, old, 1, t) /\ old[t].n + 1 = m,
         Continued(k, old, s, t, c, m)
  PROVE  /\ c \in DOMAIN s /\ 1 \in DOMAIN s
         /\ Gapless(k, s, 1, c) /\ s[c].boot = k /\ s[c].n = m
         /\ s[1].n = IF t > 0 THEN old[1].n ELSE m
         /\ \A p \in DOMAIN old : p < c => p \in DOMAIN s /\ s[p] = old[p]
<1>1. Len(s) \in Nat /\ Len(old) \in Nat
  BY LenProperties
<1>2. c \in DOMAIN s /\ 1 \in DOMAIN s /\ c \in t + 1 .. c
  <2>1. c \in 1 .. Len(s) /\ 1 \in 1 .. Len(s)
    BY <1>1
  <2>2. c \in t + 1 .. c
    OBVIOUS
  <2> QED BY <2>1, <2>2
<1>3. ASSUME NEW p \in DOMAIN old, p < c
      PROVE  p \in DOMAIN s /\ s[p] = old[p]
  <2>1. p \in 1 .. Len(old)
    OBVIOUS
  <2>2. p \in 1 .. t /\ p \in 1 .. Len(s)
    BY <1>1, <1>3, <2>1
  <2> QED BY <2>2 DEF Continued
<1>4. s[1].n = IF t > 0 THEN old[1].n ELSE m
  <2>1. IF t > 0 THEN 1 \in 1 .. t ELSE 1 \in t + 1 .. c
    OBVIOUS
  <2> QED BY <2>1 DEF Continued
<1>5. Gapless(k, s, 1, c) /\ s[c].n = m
  BY GaplessGrows
<1>6. s[c].boot = k
  BY <1>2 DEF Continued
<1> QED BY <1>2, <1>3, <1>4, <1>5, <1>6

\* What is known of the block behind a successful write.
LEMMA StoredHead ==
  ASSUME TypeInv, FileInv, RingInv, NEW s \in Seq(BlockType), StoredAs(s)
  PROVE  /\ fil.pos \in Nat /\ fil.pos + 1 \in DOMAIN s /\ 1 \in DOMAIN s /\ Len(s) \in Nat
         /\ DOMAIN s = 1 .. Len(s) /\ head \in DOMAIN card
         /\ Gapless(boots, s, 1, fil.pos + 1)
         /\ s[fil.pos + 1].boot = boots /\ s[fil.pos + 1].n = stored + 1
         /\ s[1].n = IF Top > 0 THEN card[head][1].n ELSE stored + 1
         /\ \A p \in DOMAIN card[head] : p <= fil.pos => p \in DOMAIN s /\ s[p] = card[head][p]
<1>1. StoredIn(s) /\ fil.open
  BY DEF StoredAs
<1>2. /\ head \in DOMAIN card /\ card[head] \in Seq(BlockType) /\ Len(card[head]) \in Nat
      /\ fil.pos \in Nat
      /\ \/ Top = fil.pos
         \/ fil.pos > Len(card[head]) /\ Top = Len(card[head])
      /\ Top \in Nat /\ Top <= fil.pos /\ Top <= Len(card[head])
  BY <1>1, OpenFile
<1>3. Len(s) \in Nat /\ fil.pos + 1 <= Len(s)
  BY <1>1 DEF StoredIn
<1>4. boots \in Nat /\ stored \in Nat /\ stored + 1 \in Nat /\ stored + 1 >= 1
  BY DEF TypeInv
<1>5. \A p \in Top + 1 .. fil.pos + 1 : s[p].boot = boots /\ s[p].n = stored + 1
  BY <1>1, <1>4, ThisBlock DEF StoredIn
<1>6. \A p \in 1 .. Top : s[p] = card[head][p]
  BY <1>1 DEF StoredIn
<1>7. Top > 0 => Gapless(boots, card[head], 1, Top) /\ card[head][Top].n = stored
  BY DEF RingInv, HeadInv
<1>8. /\ fil.pos + 1 \in DOMAIN s /\ 1 \in DOMAIN s
      /\ Gapless(boots, s, 1, fil.pos + 1)
      /\ s[fil.pos + 1].boot = boots /\ s[fil.pos + 1].n = stored + 1
      /\ s[1].n = IF Top > 0 THEN card[head][1].n ELSE stored + 1
      /\ \A p \in DOMAIN card[head] : p <= fil.pos => p \in DOMAIN s /\ s[p] = card[head][p]
  <2> DEFINE t == Top
             old == card[head]
             m == stored + 1
             c == fil.pos + 1
             k == boots
  <2>1. /\ k \in Nat /\ old \in Seq(BlockType) /\ t \in Nat /\ c \in Nat /\ m \in Nat
        /\ t <= Len(old) /\ t < c /\ c <= Len(s) /\ (t + 1 = c \/ t = Len(old)) /\ m >= 1
    BY <1>2, <1>3, <1>4
  <2>2. /\ t > 0 => Gapless(k, old, 1, t) /\ old[t].n + 1 = m
        /\ Continued(k, old, s, t, c, m)
    BY <1>5, <1>6, <1>7 DEF Continued
  <2>3. \A p \in DOMAIN old : p <= fil.pos => p < c
    <3> TAKE p \in DOMAIN old
    <3>1. p \in 1 .. Len(old)
      BY <1>2
    <3> QED BY <1>2, <3>1
  <2> HIDE DEF t, old, m, c, k
  <2>4. /\ c \in DOMAIN s /\ 1 \in DOMAIN s
        /\ Gapless(k, s, 1, c) /\ s[c].boot = k /\ s[c].n = m
        /\ s[1].n = IF t > 0 THEN old[1].n ELSE m
        /\ \A p \in DOMAIN old : p < c => p \in DOMAIN s /\ s[p] = old[p]
    BY <2>1, <2>2, RunIs
  <2> QED BY <2>3, <2>4 DEF t, old, m, c, k
<1>9. DOMAIN s = 1 .. Len(s)
  OBVIOUS
<1> QED BY <1>2, <1>3, <1>8, <1>9

\* Order and succession of the files, the head's with its new contents.
FirstOf(s, g) == IF g = head THEN s[1].n ELSE card[g][1].n

LEMMA StoredOrder ==
  ASSUME TypeInv, FileInv, RingInv, NEW s \in Seq(BlockType), StoredAs(s)
  PROVE  /\ \A f, g \in Indices : Full(f) /\ Live(g) /\ Precedes(head, f, g) =>
              \A p \in DOMAIN card[f] : card[f][p].boot = boots => card[f][p].n < FirstOf(s, g)
         /\ \A f \in Indices : Full(f) /\ Len(card[f]) = FileBlocks =>
              FirstOf(s, FileAfter(f)) = card[f][FileBlocks].n + 1
         /\ ~wrapped => FirstOf(s, 0) = 1
<1>1. /\ s[1].n = IF Top > 0 THEN card[head][1].n ELSE stored + 1
      /\ head \in DOMAIN card
  BY StoredHead
<1>2. Top \in Nat /\ stored \in Nat
  BY TopType DEF TypeInv
<1>3. FullInv /\ OrderInv /\ LinkInv /\ HeadInv
  BY DEF RingInv
<1>4. ASSUME NEW f \in Indices, NEW g \in Indices, Full(f), Live(g), Precedes(head, f, g),
             NEW p \in DOMAIN card[f], card[f][p].boot = boots
      PROVE  card[f][p].n < FirstOf(s, g)
  <2>1. CASE g = head => Top > 0
    <3>1. card[f][p].n < card[g][1].n
      BY <1>3, <1>4, <2>1 DEF OrderInv
    <3> QED BY <1>1, <2>1, <3>1 DEF FirstOf
  <2>2. CASE g = head /\ ~(Top > 0)
    <3>1. f \in DOMAIN card
      BY <1>3, <1>4, FullIs
    <3>2. card[f][p].n <= stored /\ card[f][p].n \in Nat
      BY <1>4, <3>1, BlockOnCard DEF FileInv
    <3> QED BY <1>1, <1>2, <2>2, <3>2 DEF FirstOf
  <2> QED BY <2>1, <2>2
<1>5. ASSUME NEW f \in Indices, Full(f), Len(card[f]) = FileBlocks
      PROVE  FirstOf(s, FileAfter(f)) = card[f][FileBlocks].n + 1
  <2>1. IF FileAfter(f) = head /\ Top = 0
        THEN card[f][FileBlocks].n = stored
        ELSE card[FileAfter(f)][1].n = card[f][FileBlocks].n + 1
    BY <1>3, <1>5 DEF LinkInv
  <2> QED BY <1>1, <1>2, <2>1 DEF FirstOf
<1>6. ASSUME ~wrapped
      PROVE  FirstOf(s, 0) = 1
  <2>1. CASE head = 0 /\ Top = 0
    <3>1. stored = 0
      BY <1>2, <1>3, <1>6, <2>1 DEF HeadInv
    <3> QED BY <1>1, <2>1, <3>1 DEF FirstOf
  <2>2. CASE head = 0 /\ Top # 0
    <3>1. Top > 0 /\ Top \in 1 .. Top /\ Top \in DOMAIN card[head]
      <4>1. Top <= Len(card[head]) /\ DOMAIN card[head] = 1 .. Len(card[head]) /\ Len(card[head]) \in Nat
        BY <1>1, TopType DEF TypeInv
      <4> QED BY <1>2, <2>2, <4>1
    <3>2. card[head][Top].n >= 1 /\ card[head][Top].n = stored
      BY <1>3, <3>1 DEF HeadInv, Gapless
    <3>3. card[0][1].n = 1
      BY <1>2, <1>3, <1>6, <3>2 DEF HeadInv
    <3> QED BY <1>1, <2>2, <3>1, <3>3 DEF FirstOf
  <2>3. CASE head # 0
    <3>1. Full(0) /\ 0 \in Indices
      BY <2>3, Sizes DEF Full, Live, TypeInv, Indices
    <3>2. /\ 0 \in DOMAIN card /\ 1 \in DOMAIN card[0] /\ card[0][1].boot = boots
          /\ card[0][1].n >= 1 /\ card[0][1].n \in Nat
      BY <1>3, <3>1, FullIs
    <3>3. card[0][1].n <= stored
      BY <3>2 DEF FileInv
    <3>4. stored > 0
      BY <1>2, <3>2, <3>3
    <3> QED BY <1>3, <1>6, <2>3, <3>4 DEF HeadInv, FirstOf
  <2> QED BY <2>1, <2>2, <2>3
<1> QED BY <1>4, <1>5, <1>6

\* The same file is written on.
LEMMA KeptRing ==
  ASSUME NumFiles > 1, TypeInv, FileInv, RingInv, NEW s \in Seq(BlockType), StoredAs(s), Kept(s)
  PROVE  RingInv'
<1>1. /\ fil.pos \in Nat /\ fil.pos + 1 \in DOMAIN s /\ 1 \in DOMAIN s /\ Len(s) \in Nat
      /\ DOMAIN s = 1 .. Len(s) /\ head \in DOMAIN card
      /\ Gapless(boots, s, 1, fil.pos + 1)
      /\ s[fil.pos + 1].boot = boots /\ s[fil.pos + 1].n = stored + 1
      /\ \A p \in DOMAIN card[head] : p <= fil.pos => p \in DOMAIN s /\ s[p] = card[head][p]
  BY StoredHead
<1>2. /\ \A f, g \in Indices : Full(f) /\ Live(g) /\ Precedes(head, f, g) =>
           \A p \in DOMAIN card[f] : card[f][p].boot = boots => card[f][p].n < FirstOf(s, g)
      /\ \A f \in Indices : Full(f) /\ Len(card[f]) = FileBlocks =>
           FirstOf(s, FileAfter(f)) = card[f][FileBlocks].n + 1
      /\ ~wrapped => FirstOf(s, 0) = 1
  BY StoredOrder
<1>3. /\ card'[head] = s /\ DOMAIN card' = DOMAIN card
      /\ \A f \in DOMAIN card \ {head} : card'[f] = card[f]
      /\ head' = head /\ tail' = tail /\ wrapped' = wrapped /\ boots' = boots
      /\ fil'.pos = fil.pos + 1 /\ stored' = stored + 1
      /\ fil.open /\ ~fil.error
  BY DEF Kept, StoredAs
<1>4. FullInv /\ RestInv /\ FreshInv /\ CoverInv
  BY DEF RingInv
<1>5. /\ head \in Indices /\ boots \in Nat /\ stored \in Nat
      /\ tail = IF wrapped THEN FileAfter(head) ELSE 0
  BY DEF TypeInv, FileInv
<1>6. Top' = fil.pos + 1
  <2>1. fil.pos + 1 <= Len(s)
    BY <1>1
  <2> QED BY <1>1, <1>3, <2>1 DEF Top
<1>7. \A f \in Indices : /\ Live(f)' <=> Live(f)
                         /\ Full(f)' <=> Full(f)
                         /\ Full(f) => f \in DOMAIN card /\ f # head /\ card'[f] = card[f]
  BY <1>3, <1>4 DEF Live, Full, FullInv
<1>8. \A g \in Indices : Full(g) \/ g = head => card'[g][1].n = FirstOf(s, g)
  BY <1>3, <1>7 DEF FirstOf
<1>9. FullInv'
  BY <1>3, <1>4, <1>7 DEF FullInv
<1>10. HeadInv'
  <2>1. ~wrapped => card'[0][1].n = 1
    <3>1. ~wrapped => 0 \in Indices /\ (Full(0) \/ 0 = head)
      BY <1>5, Sizes DEF Full, Live, Indices
    <3> QED BY <1>2, <1>8, <3>1
  <2>2. Top' > 0
    BY <1>1, <1>6
  <2> QED BY <1>1, <1>3, <1>6, <2>1, <2>2 DEF HeadInv
<1>11. RestInv'
  <2> SUFFICES ASSUME wrapped, Len(s) <= FileBlocks
               PROVE  \E a \in {fil.pos + 2, fil.pos + 3} :
                        /\ a = fil.pos + 3 /\ fil.pos + 2 <= Len(s) =>
                             fil'.error /\ s[fil.pos + 2].boot = boots /\ s[fil.pos + 2].n = 0
                        /\ a <= Len(s) =>
                             /\ Gapless(boots, s, a, Len(s))
                             /\ s[Len(s)].n + 1 = card'[tail][1].n
    <3>1. fil'.pos + 1 = fil.pos + 2 /\ fil'.pos + 2 = fil.pos + 3
      BY <1>1, <1>3
    <3> QED BY <1>3, <3>1 DEF RestInv
  <2>1. fil.pos + 2 # fil.pos + 3
    BY <1>1
  <2>2. CASE ~(fil.pos + 2 <= Len(s))
    BY <2>1, <2>2
  <2>3. CASE fil.pos + 2 <= Len(s)
    <3>1. /\ Len(s) = Len(card[head])
          /\ \A p \in fil.pos + 2 .. Len(s) : s[p] = card[head][p]
      <4>1. Len(s) # fil.pos + 1
        BY <1>1, <2>3
      <4> QED BY <4>1 DEF StoredAs, StoredIn
    <3>2. fil.pos + 1 <= Len(card[head]) /\ fil.pos + 1 # fil.pos + 2
      BY <1>1, <2>3, <3>1
    <3>3. /\ Gapless(boots, card[head], fil.pos + 1, Len(card[head]))
          /\ card[head][Len(card[head])].n + 1 = card[tail][1].n
      BY <1>1, <1>3, <1>4, <3>1, <3>2 DEF RestInv
    <3>4. Gapless(boots, s, fil.pos + 2, Len(s))
      <4> DEFINE old == card[head]
                 a == fil.pos + 1
                 c == fil.pos + 2
                 d == Len(s)
                 k == boots
      <4>1. /\ k \in Nat /\ a \in Nat /\ c \in Nat /\ d \in Nat /\ a >= 1 /\ a <= c /\ d = Len(old)
            /\ d <= d /\ d <= Len(old) /\ old \in Seq(BlockType) /\ Gapless(k, old, a, d)
            /\ \A p \in c .. d : s[p] = old[p]
        <5>1. old \in Seq(BlockType) /\ k \in Nat
          BY <1>1, <1>5 DEF TypeInv
        <5>2. Gapless(k, old, a, d) /\ d = Len(old) /\ \A p \in c .. d : s[p] = old[p]
          BY <3>1, <3>3
        <5>3. a \in Nat /\ c \in Nat /\ d \in Nat /\ a >= 1 /\ a <= c /\ d <= d
          BY <1>1
        <5> QED BY <5>1, <5>2, <5>3
      <4> HIDE DEF old, a, c, d, k
      <4>2. Gapless(k, old, c, d)
        BY <4>1, GaplessPart
      <4>3. Gapless(k, s, c, d)
        BY <4>1, <4>2, GaplessSame
      <4> QED BY <4>3 DEF c, d, k
    <3>5. card'[tail] = card[tail]
      <4>1. tail \in Indices /\ Full(tail)
        BY <1>5, StepIs DEF Full, Live
      <4> QED BY <1>7, <4>1
    <3>6. Len(s) \in fil.pos + 2 .. Len(s)
      BY <1>1, <2>3
    <3> QED BY <2>1, <3>1, <3>3, <3>4, <3>5, <3>6
  <2> QED BY <2>2, <2>3
<1>12. FreshInv'
  <2> SUFFICES ASSUME ~wrapped, NEW f \in DOMAIN card', NEW p \in DOMAIN card'[f],
                      card'[f][p].boot = boots
               PROVE  f < head \/ (f = head /\ p <= fil.pos + 1)
    BY <1>3 DEF FreshInv
  <2>1. CASE f = head
    <3>1. p \in DOMAIN s
      BY <1>3, <2>1
    <3>2. CASE p \in Top + 1 .. fil.pos + 1
      BY <2>1, <3>2
    <3>3. CASE p \in DOMAIN card[head] /\ s[p] = card[head][p] /\ (p <= Top \/ p >= fil.pos + 2)
      <4> DEFINE q == fil.pos
      <4>1. p <= q \/ p = q + 1
        <5>1. ~(head < head)
          BY <1>5, Sizes
        <5>2. card[head][p].boot = boots
          BY <1>3, <2>1, <3>3
        <5>3. head < head \/ p <= q \/ p = q + 1
          BY <1>1, <1>4, <3>3, <5>2 DEF FreshInv
        <5> QED BY <5>1, <5>3
      <4>2. p \in Nat /\ q \in Nat
        BY <1>1, <3>1
      <4> HIDE DEF q
      <4>3. p <= q + 1
        BY <4>1, <4>2
      <4> QED BY <2>1, <4>3 DEF q
    <3> QED BY <1>3, <3>1, <3>2, <3>3, StoredFrom DEF StoredAs
  <2>2. CASE f # head
    BY <1>3, <1>4, <2>2 DEF FreshInv
  <2> QED BY <2>1, <2>2
<1>13. OrderInv'
  <2> SUFFICES ASSUME NEW f \in Indices, NEW g \in Indices, Full(f), Live(g),
                      Precedes(head, f, g), NEW p \in DOMAIN card[f], card[f][p].boot = boots
               PROVE  card[f][p].n < card'[g][1].n
    BY <1>3, <1>7 DEF OrderInv
  <2>1. Full(g) \/ g = head
    BY DEF Full
  <2> QED BY <1>2, <1>8, <2>1
<1>14. LinkInv'
  <2> SUFFICES ASSUME NEW f \in Indices, Full(f), Len(card[f]) = FileBlocks
               PROVE  card'[FileAfter(f)][1].n = card[f][FileBlocks].n + 1
    <3>1. Top' # 0
      BY <1>1, <1>6
    <3> QED BY <1>3, <1>7, <3>1 DEF LinkInv
  <2>1. Full(FileAfter(f)) \/ FileAfter(f) = head
    BY NextFull DEF Full
  <2> QED BY <1>2, <1>8, <2>1, StepIs
<1>15. CoverInv'
  <2> SUFFICES ASSUME NEW m \in 1 .. stored + 1, wrapped => m >= card'[tail][1].n
               PROVE  \E f \in DOMAIN card' : \E p \in DOMAIN card'[f] :
                        /\ Live(f)' /\ (f = head => p <= fil.pos + 1)
                        /\ card'[f][p].boot = boots /\ card'[f][p].n = m
    BY <1>3 DEF CoverInv
  <2>1. CASE m = stored + 1
    <3>1. Live(head)'
      BY <1>3, <1>5, Sizes DEF Live
    <3>2. fil.pos + 1 \in DOMAIN card'[head] /\ fil.pos + 1 <= fil.pos + 1
      BY <1>1, <1>3
    <3> QED BY <1>1, <1>3, <2>1, <3>1, <3>2
  <2>2. CASE m \in 1 .. stored
    <3>1. wrapped => m >= card[tail][1].n
      <4>1. wrapped => tail \in Indices /\ Full(tail)
        BY <1>5, StepIs DEF Full, Live
      <4> QED BY <1>7, <4>1
    <3>2a. PICK f \in DOMAIN card : \E p \in DOMAIN card[f] :
             /\ Live(f) /\ (f = head => p <= fil.pos)
             /\ card[f][p].boot = boots /\ card[f][p].n = m
      BY <1>4, <2>2, <3>1 DEF CoverInv
    <3>2. PICK p \in DOMAIN card[f] :
            /\ Live(f) /\ (f = head => p <= fil.pos)
            /\ card[f][p].boot = boots /\ card[f][p].n = m
      BY <3>2a
    <3>3. Live(f)'
      BY <1>3, <3>2 DEF Live
    <3>4. CASE f = head
      <4>1. p \in DOMAIN s /\ s[p] = card[head][p]
        BY <1>1, <3>2, <3>4
      <4>2. p <= fil.pos + 1
        BY <1>1, <3>2, <3>4, <4>1
      <4> QED BY <1>3, <3>2, <3>3, <3>4, <4>1, <4>2
    <3>5. CASE f # head
      BY <1>3, <3>2, <3>3, <3>5
    <3> QED BY <3>4, <3>5
  <2> QED BY <1>5, <2>1, <2>2
<1> QED BY <1>9, <1>10, <1>11, <1>12, <1>13, <1>14, <1>15 DEF RingInv

\* The next file is opened.
LEMMA TurnedRing ==
  ASSUME NumFiles > 1, TypeInv, FileInv, RingInv, NEW s \in Seq(BlockType), StoredAs(s), Turned(s)
  PROVE  RingInv'
<1> DEFINE h == FileAfter(head)
<1>1. /\ fil.pos \in Nat /\ fil.pos + 1 \in DOMAIN s /\ 1 \in DOMAIN s /\ Len(s) \in Nat
      /\ DOMAIN s = 1 .. Len(s) /\ head \in DOMAIN card
      /\ Gapless(boots, s, 1, fil.pos + 1)
      /\ s[fil.pos + 1].boot = boots /\ s[fil.pos + 1].n = stored + 1
      /\ \A p \in DOMAIN card[head] : p <= fil.pos => p \in DOMAIN s /\ s[p] = card[head][p]
  BY StoredHead
<1>2. /\ \A f, g \in Indices : Full(f) /\ Live(g) /\ Precedes(head, f, g) =>
           \A p \in DOMAIN card[f] : card[f][p].boot = boots => card[f][p].n < FirstOf(s, g)
      /\ \A f \in Indices : Full(f) /\ Len(card[f]) = FileBlocks =>
           FirstOf(s, FileAfter(f)) = card[f][FileBlocks].n + 1
      /\ ~wrapped => FirstOf(s, 0) = 1
  BY StoredOrder
<1>3. FullInv /\ RestInv /\ FreshInv /\ CoverInv
  BY DEF RingInv
<1>4. /\ head \in Indices /\ boots \in Nat /\ stored \in Nat /\ stored + 1 \in Nat
      /\ tail = IF wrapped THEN FileAfter(head) ELSE 0
  BY DEF TypeInv, FileInv
<1>5. h \in Indices /\ h # head
  BY <1>4, StepIs
<1>6. /\ head' = h /\ (wrapped' <=> wrapped \/ head = NumFiles - 1)
      /\ wrapped' => tail' = FileAfter(h)
      /\ fil.pos + 1 >= FileBlocks /\ CardType(card')
      /\ DOMAIN card \subseteq DOMAIN card' /\ DOMAIN card' \subseteq DOMAIN card \cup {h}
      /\ card'[head] = s
      /\ \A f \in DOMAIN card \ {head, h} : card'[f] = card[f]
      /\ h \in DOMAIN card' => card'[h] = <<>> \/ (h \in DOMAIN card /\ card'[h] = card[h])
      /\ boots' = boots /\ stored' = stored + 1
  BY <1>5 DEF Turned, StoredAs
<1>7. fil'.pos = 0 /\ Top' = 0
  <2>1. fil'.pos = 0
    BY <1>5, OpenedIs DEF Turned
  <2>2. head' \in DOMAIN card' => Len(card'[head']) \in Nat
    BY <1>6 DEF CardType
  <2> QED BY <2>1, <2>2 DEF Top
\* The files behind the head are those that were, and the old head's.
<1>8. \A f \in Indices : /\ Live(f) => Live(f)'
                         /\ Full(f)' <=> f = head \/ (Full(f) /\ f # h)
                         /\ Live(f)' => f = h \/ f = head \/ Full(f)
  <2> TAKE f \in Indices
  <2>1. /\ f \in Nat /\ f <= NumFiles - 1 /\ head \in Nat /\ head <= NumFiles - 1
        /\ NumFiles \in Nat
    BY <1>4, Sizes DEF Indices
  <2>2. h = IF head = NumFiles - 1 THEN 0 ELSE head + 1
    BY DEF FileAfter
  <2>3. /\ Live(f) <=> wrapped \/ f <= head
        /\ Live(f)' <=> wrapped \/ head = NumFiles - 1 \/ f <= h
        /\ Full(f)' <=> Live(f)' /\ f # h
        /\ Full(f) <=> Live(f) /\ f # head
    BY <1>6 DEF Live, Full
  <2> HIDE DEF h
  <2> QED BY <1>5, <2>1, <2>2, <2>3
<1>9. wrapped' => \A f \in Indices : Live(f)
  <2>1. \A f \in Indices : f <= NumFiles - 1
    BY Sizes DEF Indices
  <2>2. CASE wrapped
    BY <2>2 DEF Live
  <2>3. CASE head = NumFiles - 1
    BY <2>1, <2>3 DEF Live
  <2> QED BY <1>6, <2>2, <2>3
<1>10. \A f \in Indices : Full(f) /\ f # h => f \in DOMAIN card /\ f # head /\ card'[f] = card[f]
  BY <1>3, <1>6 DEF Full, FullInv
<1>11. \A g \in Indices : (Full(g) /\ g # h) \/ g = head => card'[g][1].n = FirstOf(s, g)
  BY <1>6, <1>10 DEF FirstOf
<1> HIDE DEF h
<1>12. FullInv'
  <2>1. Len(s) >= FileBlocks /\ Gapless(boots, s, 1, FileBlocks)
    <3> DEFINE k == boots
               a == 1
               b == fil.pos + 1
               d == FileBlocks
    <3>1. /\ k \in Nat /\ a \in Nat /\ b \in Nat /\ d \in Nat /\ a >= 1 /\ b <= Len(s)
          /\ a <= a /\ d <= b /\ Gapless(k, s, a, b)
      BY <1>1, <1>4, <1>6, Sizes
    <3> HIDE DEF k, a, b, d
    <3>2. Gapless(k, s, a, d)
      BY <3>1, GaplessPart
    <3>3. Len(s) >= d
      BY <1>1, <3>1
    <3> QED BY <3>2, <3>3 DEF k, a, d
  <2>2. ASSUME NEW f \in Indices, Full(f)'
        PROVE  /\ f \in DOMAIN card' /\ Len(card'[f]) >= FileBlocks
               /\ Gapless(boots, card'[f], 1, FileBlocks)
    <3>1. CASE f = head
      BY <1>1, <1>6, <2>1, <3>1
    <3>2. CASE Full(f) /\ f # h
      BY <1>3, <1>6, <1>10, <3>2 DEF FullInv
    <3> QED BY <1>8, <2>2, <3>1, <3>2
  <2> QED BY <1>6, <2>2 DEF FullInv
<1>13. HeadInv'
  <2>1. ~(Top' > 0)
    BY <1>7
  <2>2. ASSUME ~wrapped'
        PROVE  head' # 0 /\ card'[0][1].n = 1
    <3>1. ~wrapped /\ head # NumFiles - 1 /\ h = head + 1 /\ head \in Nat
      BY <1>4, <1>6, <2>2, Sizes DEF FileAfter, h
    <3>2. 0 \in Indices /\ 0 # h /\ (0 = head \/ Full(0))
      BY <3>1, Sizes DEF Full, Live
    <3> QED BY <1>2, <1>6, <1>11, <3>1, <3>2
  <2> QED BY <2>1, <2>2 DEF HeadInv
<1>14. wrapped' => Full(h) /\ FileAfter(h) \in Indices /\ FileAfter(h) # h
                   /\ (FileAfter(h) = head \/ Full(FileAfter(h)))
  BY <1>5, <1>9, StepIs DEF Full
<1>15. RestInv'
  <2> SUFFICES ASSUME wrapped', h \in DOMAIN card', Len(card'[h]) <= FileBlocks, 1 <= Len(card'[h])
               PROVE  /\ Gapless(boots, card'[h], 1, Len(card'[h]))
                      /\ card'[h][Len(card'[h])].n + 1 = card'[FileAfter(h)][1].n
    <3>1. fil'.pos + 1 = 1 /\ fil'.pos + 2 = 2 /\ 1 # 2
      BY <1>7
    <3> QED BY <1>6, <3>1 DEF RestInv
  <2>1. card'[h] # <<>>
    OBVIOUS
  <2>2. card'[h] = card[h] /\ Full(h)
    BY <1>6, <1>14, <2>1
  <2>3. Len(card[h]) = FileBlocks
    <3>1. Len(card[h]) >= FileBlocks /\ Len(card[h]) \in Nat
      BY <1>3, <1>5, <2>2, FullIs
    <3> QED BY <2>2, <3>1, Sizes
  <2>4. Gapless(boots, card[h], 1, FileBlocks)
    BY <1>3, <1>5, <2>2, FullIs
  <2>5. card[h][FileBlocks].n + 1 = FirstOf(s, FileAfter(h))
    BY <1>2, <1>5, <2>2, <2>3
  <2>6. card'[FileAfter(h)][1].n = FirstOf(s, FileAfter(h))
    BY <1>11, <1>14
  <2> QED BY <2>2, <2>3, <2>4, <2>5, <2>6
<1>16. FreshInv'
  <2> SUFFICES ASSUME ~wrapped', NEW f \in DOMAIN card', NEW p \in DOMAIN card'[f],
                      card'[f][p].boot = boots
               PROVE  f < h
    BY <1>6 DEF FreshInv
  <2>1. ~wrapped /\ h = head + 1 /\ head \in Nat /\ f \in Nat
    BY <1>4, <1>6, Sizes DEF FileAfter, h, CardType
  <2>2. CASE f = head
    BY <2>1, <2>2
  <2>3. CASE f # head
    <3>1. card'[f] = card[f] /\ f \in DOMAIN card
      <4>1. card'[f] # <<>>
        OBVIOUS
      <4> QED BY <1>6, <2>3, <4>1
    <3>2. f < head
      BY <1>3, <2>1, <2>3, <3>1 DEF FreshInv
    <3> QED BY <2>1, <3>2
  <2> QED BY <2>2, <2>3
<1>17. OrderInv'
  <2> SUFFICES ASSUME NEW f \in Indices, NEW g \in Indices, Full(f)', Live(g)', g # h,
                      Precedes(h, f, g), NEW p \in DOMAIN card'[f], card'[f][p].boot = boots
               PROVE  card'[f][p].n < card'[g][1].n
    <3>1. ~(Top' > 0)
      BY <1>7
    <3> QED BY <1>6, <3>1 DEF OrderInv
  <2>1. f # h /\ Precedes(head, f, g)
    <3>1. f # h
      BY <1>5, <1>8
    <3> QED BY <1>4, <3>1, PrecedesIs DEF h
  <2>2. f # head
    BY <1>4, <2>1, PrecedesIs
  <2>3. Full(f) /\ card'[f] = card[f]
    BY <1>8, <1>10, <2>1, <2>2
  <2>4. (Full(g) \/ g = head) /\ Live(g)
    <3>1. Live(head)
      BY <1>4, Sizes DEF Live
    <3> QED BY <1>8, <3>1 DEF Full
  <2> QED BY <1>2, <1>11, <2>1, <2>3, <2>4
<1>18. LinkInv'
  <2> SUFFICES ASSUME NEW f \in Indices, Full(f)', Len(card'[f]) = FileBlocks
               PROVE  IF FileAfter(f) = h
                      THEN card'[f][FileBlocks].n = stored + 1
                      ELSE card'[FileAfter(f)][1].n = card'[f][FileBlocks].n + 1
    BY <1>6, <1>7 DEF LinkInv
  <2>1. CASE f = head
    <3>1. Len(s) = FileBlocks /\ FileAfter(f) = h
      BY <1>6, <2>1 DEF h
    <3>2. fil.pos + 1 = FileBlocks
      <4>1. fil.pos + 1 <= Len(s)
        BY DEF StoredAs, StoredIn
      <4> QED BY <1>1, <1>6, <3>1, <4>1, Sizes
    <3> QED BY <1>1, <1>6, <2>1, <3>1, <3>2
  <2>2. CASE f # head
    <3>1. Full(f) /\ f # h /\ card'[f] = card[f]
      BY <1>8, <1>10, <2>2
    <3>2. FileAfter(f) # h
      BY <1>4, <2>2, PrecedesIs DEF h
    <3>3. FileAfter(f) \in Indices /\ (Full(FileAfter(f)) \/ FileAfter(f) = head)
      BY <3>1, NextFull, StepIs DEF Full
    <3>4. card'[FileAfter(f)][1].n = FirstOf(s, FileAfter(f))
      BY <1>11, <3>2, <3>3
    <3>5. FirstOf(s, FileAfter(f)) = card[f][FileBlocks].n + 1
      BY <1>2, <3>1
    <3> QED BY <3>1, <3>2, <3>4, <3>5
  <2> QED BY <2>1, <2>2
<1>19. CoverInv'
  <2> SUFFICES ASSUME NEW m \in 1 .. stored + 1, wrapped' => m >= card'[FileAfter(h)][1].n
               PROVE  \E f \in DOMAIN card' : \E p \in DOMAIN card'[f] :
                        /\ Live(f)' /\ f # h
                        /\ card'[f][p].boot = boots /\ card'[f][p].n = m
    BY <1>6 DEF CoverInv
  <2>1. CASE m = stored + 1
    <3>1. PICK f \in DOMAIN card' : f = head
      BY <1>1, <1>6
    <3>2. Live(f)'
      <4>1. Live(f)
        BY <1>4, <3>1, Sizes DEF Live
      <4> QED BY <1>4, <1>8, <3>1, <4>1
    <3>3. fil.pos + 1 \in DOMAIN card'[f]
      BY <1>1, <1>6, <3>1
    <3> QED BY <1>1, <1>5, <1>6, <2>1, <3>1, <3>2, <3>3
  <2>2. CASE m \in 1 .. stored
    \* What is about to be overwritten is older than what the tail then holds.
    <3>1. ASSUME wrapped', NEW p \in DOMAIN card[h], card[h][p].boot = boots
          PROVE  card[h][p].n < card'[FileAfter(h)][1].n
      <4>1. Precedes(head, h, FileAfter(h))
        BY <1>4, <1>5, <1>14, <3>1, PrecedesIs DEF h
      <4>2. card[h][p].n < FirstOf(s, FileAfter(h))
        BY <1>2, <1>5, <1>9, <1>14, <3>1, <4>1
      <4> QED BY <1>11, <1>14, <3>1, <4>2
    <3>2. wrapped => m >= card[tail][1].n
      <4> SUFFICES ASSUME wrapped PROVE m >= card[h][1].n
        BY <1>4 DEF h
      <4>1. wrapped'
        BY <1>6
      <4>2. 1 \in DOMAIN card[h] /\ card[h][1].boot = boots /\ card[h][1].n \in Nat
        BY <1>3, <1>5, <1>14, <4>1, FullIs
      <4>3. card[h][1].n < card'[FileAfter(h)][1].n
        BY <3>1, <4>1, <4>2
      <4>4. card'[FileAfter(h)][1].n \in Nat
        <5>1. FileAfter(h) \in DOMAIN card' /\ 1 \in DOMAIN card'[FileAfter(h)]
          <6>1. CASE FileAfter(h) = head
            BY <1>1, <1>6, <6>1
          <6>2. CASE Full(FileAfter(h)) /\ FileAfter(h) # head
            BY <1>3, <1>6, <1>10, <1>14, <4>1, <6>2, FullIs
          <6> QED BY <1>14, <4>1, <6>1, <6>2
        <5>2. card'[FileAfter(h)] \in Seq(BlockType)
          BY <1>6, <5>1 DEF CardType
        <5> QED BY <5>1, <5>2, BlockIs, LenProperties
      <4> QED BY <2>2, <4>1, <4>2, <4>3, <4>4
    <3>3a. PICK f \in DOMAIN card : \E p \in DOMAIN card[f] :
             /\ Live(f) /\ (f = head => p <= fil.pos)
             /\ card[f][p].boot = boots /\ card[f][p].n = m
      BY <1>3, <2>2, <3>2 DEF CoverInv
    <3>3. PICK p \in DOMAIN card[f] :
            /\ Live(f) /\ (f = head => p <= fil.pos)
            /\ card[f][p].boot = boots /\ card[f][p].n = m
      BY <3>3a
    <3>4. f \in Indices /\ Live(f)'
      BY <1>8, <3>3 DEF TypeInv
    <3>5. f # h
      <4> SUFFICES ASSUME f = h PROVE FALSE
        OBVIOUS
      <4>1. wrapped'
        <5>1. ASSUME ~wrapped, head # NumFiles - 1
              PROVE  FALSE
          <6>1. h = head + 1 /\ head \in Nat /\ h <= head
            BY <1>4, <3>3, <5>1, Sizes DEF FileAfter, h, Live
          <6> QED BY <6>1
        <5> QED BY <1>6, <5>1
      <4>2. m < card'[FileAfter(h)][1].n
        BY <3>1, <3>3, <4>1
      <4>3. m >= card'[FileAfter(h)][1].n
        BY <4>1
      <4>4. card'[FileAfter(h)][1].n \in Nat
        <5>1. FileAfter(h) \in DOMAIN card' /\ 1 \in DOMAIN card'[FileAfter(h)]
          <6>1. CASE FileAfter(h) = head
            BY <1>1, <1>6, <6>1
          <6>2. CASE Full(FileAfter(h)) /\ FileAfter(h) # head
            BY <1>3, <1>6, <1>10, <1>14, <4>1, <6>2, FullIs
          <6> QED BY <1>14, <4>1, <6>1, <6>2
        <5>2. card'[FileAfter(h)] \in Seq(BlockType)
          BY <1>6, <5>1 DEF CardType
        <5> QED BY <5>1, <5>2, BlockIs, LenProperties
      <4> QED BY <2>2, <4>2, <4>3, <4>4
    <3>6. CASE f = head
      <4>1. p \in DOMAIN s /\ s[p] = card[head][p]
        BY <1>1, <3>3, <3>6
      <4> QED BY <1>6, <3>3, <3>4, <3>5, <3>6, <4>1
    <3>7. CASE f # head
      BY <1>6, <3>3, <3>4, <3>5, <3>7
    <3> QED BY <3>6, <3>7
  <2> QED BY <1>4, <2>1, <2>2
<1> QED BY <1>12, <1>13, <1>15, <1>16, <1>17, <1>18, <1>19 DEF RingInv

\* A write that fails, or whose synchronisation does.
Failing ==
    /\ fil.open /\ ~fil.error
    /\ UNCHANGED <<head, tail, wrapped, boots, stored>>
    /\ \/ ~InPlace /\ UNCHANGED card /\ fil'.pos = fil.pos + 1
       \/ /\ fil'.pos = fil.pos /\ fil'.error
          /\ card' = card \/ Torn(card')

LEMMA FailingIs ==
  ASSUME TypeInv, FileInv, SyncFails \/ WriteAborts
  PROVE  Failing
<1>1. MayStore /\ fil \in FileObject /\ UNCHANGED <<head, tail, wrapped, boots, stored>>
  BY DEF SyncFails, WriteAborts, TypeInv
<1>2. CASE SyncFails
  <2> DEFINE n == fil.pos + 1
             b == Append(fil.behind, Block(stored + 1))
  <2>1. ~InPlace /\ UNCHANGED card /\ fil' = [fil EXCEPT !.pos = n, !.behind = b]
    BY <1>2 DEF SyncFails, cardVars
  <2> HIDE DEF n, b
  <2>2. fil'.pos = n
    BY <1>1, <2>1 DEF FileObject
  <2> QED BY <1>1, <2>1, <2>2 DEF Failing, MayStore, n
<1>3. CASE WriteAborts
  <2>1. fil' = [fil EXCEPT !.error = TRUE] /\ card' \in {card} \cup PartlyWritten
    BY <1>3 DEF WriteAborts
  <2>2. fil'.pos = fil.pos /\ fil'.error
    BY <1>1, <2>1 DEF FileObject
  <2>3. card' = card \/ Torn(card')
    BY <1>1, <2>1, TornIs
  <2> QED BY <1>1, <2>2, <2>3 DEF Failing, MayStore
<1> QED BY <1>2, <1>3

LEMMA FailingRing ==
  ASSUME NumFiles > 1, TypeInv, FileInv, RingInv, Failing
  PROVE  RingInv'
<1> DEFINE old == card[head]
           new == card'[head]
           pos == fil.pos
<1>1. /\ fil.open /\ ~fil.error /\ head' = head /\ tail' = tail /\ wrapped' = wrapped
      /\ boots' = boots /\ stored' = stored
  BY DEF Failing
<1>2. /\ head \in DOMAIN card /\ old \in Seq(BlockType) /\ Len(old) \in Nat
      /\ pos \in Nat /\ Top \in Nat /\ Top <= pos /\ Top <= Len(old)
      /\ Top = pos \/ (pos > Len(old) /\ Top = Len(old))
  BY <1>1, OpenFile
<1>3. InPlace <=> pos < Len(old)
  BY <1>1, OpenFile DEF InPlace
\* What was complete before is untouched.
<1>4. /\ DOMAIN card' = DOMAIN card /\ Len(new) = Len(old) /\ DOMAIN new = DOMAIN old
      /\ \A f \in DOMAIN card \ {head} : card'[f] = card[f]
      /\ \A p \in DOMAIN old : p # pos + 1 => new[p] = old[p]
      /\ \/ card' = card
         \/ /\ pos < Len(old) /\ fil'.pos = pos /\ fil'.error
            /\ new[pos + 1].boot = boots /\ new[pos + 1].n = 0
  <2>1. CASE card' = card
    BY <2>1
  <2>2. CASE fil'.pos = fil.pos /\ fil'.error /\ Torn(card')
    <3>1. new[pos + 1].boot = boots /\ new[pos + 1].n = 0
      BY <2>2, ThisBlock DEF Torn
    <3>2. DOMAIN new = DOMAIN old
      BY <1>2, <2>2 DEF Torn, CardType
    <3> QED BY <1>3, <2>2, <3>1, <3>2 DEF Torn
  <2> QED BY <2>1, <2>2 DEF Failing
<1>5. \/ fil'.pos = pos /\ fil'.error
      \/ fil'.pos = pos + 1 /\ card' = card /\ ~InPlace
  BY DEF Failing
<1>6. \A p \in 1 .. Top : p \in DOMAIN old /\ new[p] = old[p]
  <2> TAKE p \in 1 .. Top
  <2>1. p \in 1 .. Len(old) /\ p # pos + 1
    BY <1>2
  <2>2. p \in DOMAIN old
    BY <1>2, <2>1
  <2> QED BY <1>4, <2>1, <2>2
<1>7. Top' = Top
  <2>1. Top' = IF fil'.pos <= Len(old) THEN fil'.pos ELSE Len(old)
    BY <1>1, <1>2, <1>4 DEF Top
  <2>2. ~InPlace => pos >= Len(old)
    BY <1>2, <1>3
  <2>3. CASE fil'.pos = pos
    BY <1>2, <2>1, <2>3
  <2>4. CASE fil'.pos = pos + 1 /\ ~InPlace
    BY <1>2, <2>1, <2>2, <2>4
  <2> QED BY <1>5, <2>3, <2>4
<1>8. FullInv /\ HeadInv /\ RestInv /\ FreshInv /\ OrderInv /\ LinkInv /\ CoverInv
  BY DEF RingInv
<1>9. \A f \in Indices : /\ Live(f)' <=> Live(f)
                         /\ Full(f)' <=> Full(f)
                         /\ Full(f) => f \in DOMAIN card /\ f # head /\ card'[f] = card[f]
  BY <1>1, <1>4, <1>8 DEF Live, Full, FullInv
<1>10. \A g \in Indices : Full(g) \/ (g = head /\ Top > 0) => card'[g][1] = card[g][1]
  <2>1. Top > 0 => 1 \in 1 .. Top
    BY <1>2
  <2> QED BY <1>6, <1>9, <2>1
<1>11. /\ head \in Indices /\ boots \in Nat /\ stored \in Nat
       /\ tail = IF wrapped THEN FileAfter(head) ELSE 0
  BY DEF TypeInv, FileInv
<1> HIDE DEF old, new, pos
<1>12. FullInv'
  BY <1>1, <1>4, <1>8, <1>9 DEF FullInv
<1>13. HeadInv'
  <2>1. ASSUME Top > 0
        PROVE  Gapless(boots, new, 1, Top) /\ new[Top].n = stored
    <3>1. Gapless(boots, old, 1, Top) /\ old[Top].n = stored
      BY <1>8, <2>1 DEF HeadInv, old
    <3>2. Top \in 1 .. Top /\ 1 \in Nat
      BY <1>2, <2>1
    <3> QED BY <1>2, <1>6, <3>1, <3>2, GaplessSame
  <2>2. ASSUME ~wrapped, stored > 0
        PROVE  (head = 0 => Top > 0) /\ card'[0][1].n = 1
    <3>1. (head = 0 => Top > 0) /\ card[0][1].n = 1
      BY <1>8, <2>2 DEF HeadInv
    <3>2. 0 \in Indices /\ (Full(0) \/ 0 = head)
      BY <1>11, <2>2, Sizes DEF Full, Live, Indices
    <3> QED BY <1>10, <3>1, <3>2
  <2> QED BY <1>1, <1>7, <2>1, <2>2 DEF HeadInv, new
<1>14. RestInv'
  <2> SUFFICES ASSUME wrapped, Len(new) <= FileBlocks
               PROVE  \E a \in {fil'.pos + 1, fil'.pos + 2} :
                        /\ a = fil'.pos + 2 /\ fil'.pos + 1 <= Len(new) =>
                             fil'.error /\ new[fil'.pos + 1].boot = boots /\ new[fil'.pos + 1].n = 0
                        /\ a <= Len(new) =>
                             /\ Gapless(boots, new, a, Len(new))
                             /\ new[Len(new)].n + 1 = card'[tail][1].n
    BY <1>1, <1>4 DEF RestInv, new
  <2>1. pos + 1 # pos + 2 /\ pos + 2 # pos + 3
    BY <1>2
  <2>2. PICK a \in {pos + 1, pos + 2} :
          /\ a = pos + 2 /\ pos + 1 <= Len(old) => FALSE
          /\ a <= Len(old) =>
               /\ Gapless(boots, old, a, Len(old))
               /\ old[Len(old)].n + 1 = card[tail][1].n
    BY <1>1, <1>2, <1>4, <1>8 DEF RestInv, old, pos
  <2>3. card'[tail] = card[tail]
    <3>1. tail \in Indices /\ Full(tail)
      BY <1>11, StepIs DEF Full, Live
    <3> QED BY <1>9, <3>1
  <2>4. CASE fil'.pos = pos + 1 /\ card' = card /\ ~InPlace
    <3>1. pos >= Len(old)
      BY <1>2, <1>3, <2>4
    <3>2. new = old
      BY <2>4 DEF new, old
    <3>3. fil'.pos + 1 # fil'.pos + 2 /\ ~(fil'.pos + 1 <= Len(old))
      BY <1>2, <2>4, <3>1
    <3> QED BY <3>2, <3>3
  <2>5. CASE fil'.pos = pos /\ fil'.error /\ card' = card
    <3>1. new = old
      BY <2>5 DEF new, old
    <3> QED BY <2>1, <2>2, <2>3, <2>5, <3>1
  <2>6. CASE /\ pos < Len(old) /\ fil'.pos = pos /\ fil'.error
             /\ new[pos + 1].boot = boots /\ new[pos + 1].n = 0
    <3>1. a = pos + 1 /\ a <= Len(old)
      BY <1>2, <2>2, <2>6
    <3>2. ASSUME pos + 2 <= Len(new)
          PROVE  Gapless(boots, new, pos + 2, Len(new)) /\ new[Len(new)].n = old[Len(old)].n
      <4> DEFINE c == pos + 2
                 d == Len(old)
                 k == boots
      <4>1. /\ k \in Nat /\ a \in Nat /\ c \in Nat /\ d \in Nat /\ a >= 1 /\ a <= c /\ d <= d
            /\ d <= Len(old) /\ old \in Seq(BlockType) /\ Gapless(k, old, a, d)
        BY <1>2, <1>11, <2>2, <3>1
      <4>2. \A p \in c .. d : p # pos + 1 /\ p \in 1 .. Len(old)
        BY <1>2
      <4>3. \A p \in c .. d : new[p] = old[p]
        <5>1. \A p \in 1 .. Len(old) : p \in DOMAIN old
          BY <1>2
        <5> QED BY <1>4, <4>2, <5>1
      <4>4. d \in c .. d
        <5>1. Len(new) = Len(old)
          BY <1>4
        <5> QED BY <1>2, <3>2, <5>1
      <4> HIDE DEF c, d, k
      <4>5. Gapless(k, old, c, d)
        BY <4>1, GaplessPart
      <4>6. Gapless(k, new, c, d)
        BY <4>1, <4>3, <4>5, GaplessSame
      <4> QED BY <1>4, <4>3, <4>4, <4>6 DEF c, d, k
    <3> QED BY <2>2, <2>3, <2>6, <3>1, <3>2
  <2> QED BY <1>4, <1>5, <2>4, <2>5, <2>6
<1>15. FreshInv'
  <2> SUFFICES ASSUME ~wrapped, NEW f \in DOMAIN card', NEW p \in DOMAIN card'[f],
                      card'[f][p].boot = boots
               PROVE  \/ f < head
                      \/ f = head /\ p <= fil'.pos
                      \/ f = head /\ p = fil'.pos + 1 /\ card'[f][p].n = 0 /\ fil'.error
    BY <1>1 DEF FreshInv
  <2>1. CASE card'[f][p] = card[f][p]
    <3>1. f < head \/ (f = head /\ p <= pos)
      BY <1>1, <1>4, <1>8, <2>1 DEF FreshInv, pos, new, old
    <3>2. f = head => p \in Nat
      <4>1. f = head => p \in DOMAIN old
        BY <1>4 DEF new
      <4> QED BY <1>2, <4>1
    <3>3. f = head /\ p <= pos => p <= fil'.pos
      BY <1>2, <1>5, <3>2
    <3> QED BY <3>1, <3>3
  <2>2. CASE card'[f][p] # card[f][p]
    <3>1. f = head /\ p = pos + 1 /\ card' # card
      BY <1>4, <2>2 DEF new, old
    <3> QED BY <1>4, <3>1 DEF new
  <2> QED BY <2>1, <2>2
<1>16. OrderInv'
  <2> SUFFICES ASSUME NEW f \in Indices, NEW g \in Indices, Full(f), Live(g), g = head => Top > 0,
                      Precedes(head, f, g), NEW p \in DOMAIN card[f], card[f][p].boot = boots
               PROVE  card[f][p].n < card'[g][1].n
    BY <1>1, <1>7, <1>9 DEF OrderInv
  <2>1. card'[g][1] = card[g][1]
    BY <1>10 DEF Full
  <2> QED BY <1>8, <2>1 DEF OrderInv
<1>17. LinkInv'
  <2> SUFFICES ASSUME NEW f \in Indices, Full(f), Len(card[f]) = FileBlocks
               PROVE  IF FileAfter(f) = head /\ Top = 0
                      THEN card[f][FileBlocks].n = stored
                      ELSE card'[FileAfter(f)][1].n = card[f][FileBlocks].n + 1
    BY <1>1, <1>7, <1>9 DEF LinkInv
  <2>1. IF FileAfter(f) = head /\ Top = 0
        THEN card[f][FileBlocks].n = stored
        ELSE card[FileAfter(f)][1].n = card[f][FileBlocks].n + 1
    BY <1>8 DEF LinkInv
  <2>2. FileAfter(f) \in Indices /\ (Full(FileAfter(f)) \/ FileAfter(f) = head)
    BY NextFull, StepIs DEF Full
  <2>3. ~(FileAfter(f) = head /\ Top = 0) => card'[FileAfter(f)][1] = card[FileAfter(f)][1]
    <3>1. Top # 0 => Top > 0
      BY <1>2
    <3> QED BY <1>10, <2>2, <3>1
  <2> QED BY <2>1, <2>3
<1>18. CoverInv'
  <2> SUFFICES ASSUME NEW m \in 1 .. stored, wrapped => m >= card'[tail][1].n
               PROVE  \E f \in DOMAIN card' : \E p \in DOMAIN card'[f] :
                        /\ Live(f)' /\ (f = head => p <= fil'.pos)
                        /\ card'[f][p].boot = boots /\ card'[f][p].n = m
    BY <1>1 DEF CoverInv
  <2>1. wrapped => m >= card[tail][1].n
    <3>1. wrapped => tail \in Indices /\ Full(tail)
      BY <1>11, StepIs DEF Full, Live
    <3> QED BY <1>9, <3>1
  <2>2. PICK f \in DOMAIN card : \E p \in DOMAIN card[f] :
          /\ Live(f) /\ (f = head => p <= pos)
          /\ card[f][p].boot = boots /\ card[f][p].n = m
    BY <1>8, <2>1 DEF CoverInv, pos
  <2>3. PICK p \in DOMAIN card[f] :
          /\ Live(f) /\ (f = head => p <= pos)
          /\ card[f][p].boot = boots /\ card[f][p].n = m
    BY <2>2
  <2>4. Live(f)'
    BY <1>1, <2>3 DEF Live
  <2>5. CASE f = head
    <3>1. p \in Nat /\ p # pos + 1 /\ p <= fil'.pos
      <4>1. p \in Nat /\ p <= pos
        BY <1>2, <2>3, <2>5 DEF old
      <4> QED BY <1>2, <1>5, <4>1
    <3>2. p \in DOMAIN new /\ new[p] = old[p]
      BY <1>4, <2>5, <3>1 DEF old
    <3> QED BY <1>4, <2>3, <2>4, <2>5, <3>1, <3>2 DEF new, old
  <2>6. CASE f # head
    BY <1>4, <2>3, <2>4, <2>6
  <2> QED BY <2>5, <2>6
<1> QED BY <1>12, <1>13, <1>14, <1>15, <1>16, <1>17, <1>18 DEF RingInv

LEMMA RingStep ==
  ASSUME NumFiles > 1, TypeInv, FileInv, RingInv, [Next]_vars
  PROVE  RingInv'
<1>1. CASE UNCHANGED vars
  <2>1. UNCHANGED <<card, fil, head, tail, wrapped, boots, stored>>
    BY <1>1 DEF vars, cardVars, logVars, ghostVars
  <2> QED BY <2>1 DEF RingInv, FullInv, HeadInv, RestInv, FreshInv, OrderInv, LinkInv, CoverInv,
                      Full, Live, Top
<1>2. CASE StoreBlock \/ StoreBlockTruncating
  <2>1. PICK s \in Seq(BlockType) : StoredAs(s)
    BY <1>2, StoreStep
  <2> QED BY <2>1, KeptRing, TurnedRing DEF StoredAs
<1>3. CASE SyncFails \/ WriteAborts
  BY <1>3, FailingIs, FailingRing
<1>4. CASE MetaData \/ PreallocationComplete \/ PreallocateFile \/ OpenMostRecentFile \/ PowerCut
  <2>1. Next /\ TypeInv'
    BY <1>4, TypeStep DEF Next
  <2>2. stage # "running" \/ stage' # "running"
    BY <1>4 DEF MetaData, PreallocationComplete, PreallocateFile, OpenMostRecentFile, PowerCut
  <2>3. \A f \in DOMAIN card' : \A p \in DOMAIN card'[f] : card'[f][p].boot # boots'
    BY <2>1, <2>2, BlocksStep
  <2>4. fil'.pos = 0
    <3>1. ClosedFile.pos = 0 /\ Opened(0).pos = 0
      BY Sizes, OpenedIs
    <3>2. CASE MetaData \/ PreallocationComplete \/ PreallocateFile
      <4>1. fil' = fil /\ stage # "running"
        BY <3>2 DEF MetaData, PreallocationComplete, PreallocateFile, logVars
      <4> QED BY <3>1, <4>1 DEF FileInv
    <3> QED BY <1>4, <3>1, <3>2 DEF OpenMostRecentFile, PowerCut
  <2>5. stored' = 0 /\ ~wrapped' /\ head' = 0
    <3>1. CASE MetaData \/ PreallocationComplete \/ PreallocateFile
      BY <3>1 DEF MetaData, PreallocationComplete, PreallocateFile, logVars, FileInv
    <3>2. CASE OpenMostRecentFile
      BY <3>2 DEF OpenMostRecentFile, FileInv
    <3>3. CASE PowerCut
      BY <3>3 DEF PowerCut
    <3> QED BY <1>4, <3>1, <3>2, <3>3
  <2> QED BY <2>1, <2>3, <2>4, <2>5, NothingYet
<1> QED BY <1>1, <1>2, <1>3, <1>4 DEF Next

\* The order of the files gives the distance of their numbers.
LEMMA BehindIs ==
  ASSUME NumFiles > 1, NEW h \in Indices, NEW f \in Indices
  PROVE  /\ FilesBehind(h, f) \in Int
         /\ FilesBehind(FileAfter(h), h) = 1
         /\ f # h /\ f # FileAfter(h) => FilesBehind(FileAfter(h), f) = FilesBehind(h, f) + 1
         /\ FilesBehind(h, FileAfter(h)) = NumFiles - 1
<1>1. /\ f \in Nat /\ f <= NumFiles - 1 /\ h \in Nat /\ h <= NumFiles - 1 /\ NumFiles \in Nat
  BY Sizes DEF Indices
<1>2. CASE h = NumFiles - 1
  BY <1>1, <1>2 DEF FilesBehind, FileAfter
<1>3. CASE h # NumFiles - 1
  BY <1>1, <1>3 DEF FilesBehind, FileAfter
<1> QED BY <1>2, <1>3

LEMMA OneMore ==
  ASSUME NEW x \in Int, NEW k \in Nat
  PROVE  (x + 1) * k = x * k + k /\ x * k \in Int /\ 1 * k = k
BY SMTT(20)

LEMMA NumberStep ==
  ASSUME NumFiles > 1, TypeInv, FileInv, RingInv, NumberInv, [Next]_vars
  PROVE  NumberInv'
<1>1. CASE UNCHANGED vars
  <2>1. UNCHANGED <<card, stage, fil, head, wrapped, stored, faults>>
    BY <1>1 DEF vars, cardVars, bootVars, logVars, ghostVars
  <2> QED BY <2>1 DEF NumberInv, Full, Live, Top
<1> SUFFICES ASSUME Next, faults' = 0 PROVE NumberInv'
  BY <1>1 DEF NumberInv
<1>2. faults \in Nat /\ stored \in Nat /\ fil.pos \in Nat /\ head \in Indices /\ CardType(card)
  BY DEF TypeInv, FileObject, CardType
<1>3. ~Failed
  BY <1>2 DEF Failed
<1>4. CASE StoreBlock \/ StoreBlockTruncating
  <2>1. PICK s \in Seq(BlockType) : StoredAs(s)
    BY <1>4, StoreStep
  <2> DEFINE pos == fil.pos
             first == stored - pos + 1
  <2>2. /\ \A f \in DOMAIN card : Len(card[f]) <= FileBlocks
        /\ fil.behind = <<>> /\ pos < FileBlocks
        /\ \A f \in Indices : Full(f) =>
             card[f][1].n + FilesBehind(head, f) * FileBlocks = first
        /\ Top > 0 => card[head][1].n = first
    BY <2>1 DEF StoredAs, NumberInv
  <2>3. /\ fil.open /\ stage' = "running" /\ stored' = stored + 1 /\ FullInv
        /\ (Kept(s) \/ Turned(s))
    BY <2>1 DEF StoredAs, FileInv, RingInv
  <2>4. /\ head \in DOMAIN card /\ Top = pos /\ s[1].n = first /\ 1 \in DOMAIN s
    <3>1. Top = pos /\ head \in DOMAIN card
      BY <2>2, <2>3, OpenFile
    <3>2. s[1].n = (IF Top > 0 THEN card[head][1].n ELSE stored + 1) /\ 1 \in DOMAIN s
      BY <2>1, StoredHead
    <3> QED BY <1>2, <2>2, <3>1, <3>2
  <2>5. Len(s) <= FileBlocks /\ Len(s) \in Nat
    <3>1. Len(s) = pos + 1 \/ Len(s) = Len(card[head])
      BY <2>1 DEF StoredAs, StoredIn
    <3>2. Len(s) \in Nat /\ (Len(s) = Len(card[head]) => Len(s) <= FileBlocks)
      BY <2>2, <2>4
    <3> QED BY <1>2, <2>2, <3>1, <3>2, Sizes
  <2>6. first \in Int
    BY <1>2
  <2>7. CASE Kept(s)
    <3>1. /\ DOMAIN card' = DOMAIN card /\ card'[head] = s
          /\ \A f \in DOMAIN card \ {head} : card'[f] = card[f]
          /\ head' = head /\ wrapped' = wrapped
          /\ fil'.pos = pos + 1 /\ fil'.behind = <<>> /\ fil'.open /\ pos + 1 < FileBlocks
      BY <2>7 DEF Kept
    <3>2. stored' - fil'.pos + 1 = first
      BY <1>2, <2>3, <3>1
    <3>3. ASSUME NEW f \in Indices, Full(f)'
          PROVE  card'[f][1].n + FilesBehind(head, f) * FileBlocks = first
      <4>1. Full(f) /\ f # head
        BY <3>1, <3>3 DEF Full, Live
      <4>2. f \in DOMAIN card
        BY <2>3, <4>1 DEF FullInv
      <4> QED BY <2>2, <3>1, <4>1, <4>2
    <3>4. \A f \in DOMAIN card' : Len(card'[f]) <= FileBlocks
      BY <2>2, <2>5, <3>1
    <3> QED BY <2>4, <3>1, <3>2, <3>3, <3>4 DEF NumberInv
  <2>8. CASE Turned(s)
    <3> DEFINE h == FileAfter(head)
    <3>1. h \in Indices /\ h # head
      BY <1>2, StepIs
    <3>2. /\ head' = h /\ pos + 1 >= FileBlocks
          /\ wrapped' <=> wrapped \/ head = NumFiles - 1
          /\ DOMAIN card' \subseteq DOMAIN card \cup {h} /\ card'[head] = s
          /\ \A f \in DOMAIN card \ {head, h} : card'[f] = card[f]
          /\ h \in DOMAIN card' => card'[h] = <<>> \/ (h \in DOMAIN card /\ card'[h] = card[h])
          /\ fil' = Opened(h)
      <4>1. /\ head' = h /\ pos + 1 >= FileBlocks
            /\ wrapped' <=> wrapped \/ head = NumFiles - 1
            /\ fil' = Opened(h)
        BY <2>8 DEF Turned
      <4>2. /\ DOMAIN card' \subseteq DOMAIN card \cup {h} /\ card'[head] = s
            /\ \A f \in DOMAIN card \ {head, h} : card'[f] = card[f]
            /\ h \in DOMAIN card' => card'[h] = <<>> \/ (h \in DOMAIN card /\ card'[h] = card[h])
        BY <2>8, <3>1, <4>1 DEF Turned
      <4> QED BY <4>1, <4>2
    <3>3. fil'.pos = 0 /\ fil'.behind = <<>> /\ fil'.open
      BY <3>1, <3>2, OpenedIs
    <3>4. pos + 1 = FileBlocks
      BY <1>2, <2>2, <3>2, Sizes
    <3>5. stored' - fil'.pos + 1 = first + FileBlocks
      BY <1>2, <2>3, <3>3, <3>4
    <3>6. \A f \in DOMAIN card' : Len(card'[f]) <= FileBlocks
      <4>1. Len(<<>>) <= FileBlocks
        BY Sizes
      <4> QED BY <2>2, <2>5, <3>2, <4>1
    <3>7. ~(Top' > 0)
      <4>1. head' \in DOMAIN card' => Len(card'[head']) \in Nat
        BY <2>8 DEF Turned, CardType
      <4> QED BY <3>3, <4>1 DEF Top
    <3>8. ASSUME NEW f \in Indices, Full(f)'
          PROVE  card'[f][1].n + FilesBehind(h, f) * FileBlocks = first + FileBlocks
      <4>1. CASE f = head
        <5>1. FilesBehind(h, f) = 1
          BY <1>2, <4>1, BehindIs
        <5>2. 1 * FileBlocks = FileBlocks
          BY Sizes
        <5> QED BY <2>4, <3>2, <4>1, <5>1, <5>2
      <4>2. CASE f # head
        <5>1. f # h
          BY <3>2, <3>8 DEF Full
        <5>2. Full(f)
          <6>1. /\ f \in Nat /\ f <= NumFiles - 1 /\ head \in Nat /\ head <= NumFiles - 1
                /\ NumFiles \in Nat
            BY <1>2, Sizes DEF Indices
          <6>2. wrapped \/ head = NumFiles - 1 \/ f <= h
            BY <3>2, <3>8 DEF Full, Live
          <6>3. wrapped \/ f <= head
            BY <5>1, <6>1, <6>2 DEF FileAfter
          <6> QED BY <4>2, <6>3 DEF Full, Live
        <5>3. card'[f] = card[f]
          BY <2>3, <3>2, <4>2, <5>1, <5>2 DEF FullInv
        <5>4. card[f][1].n + FilesBehind(head, f) * FileBlocks = first
          BY <2>2, <5>2
        <5>5. card[f][1].n \in Nat
          BY <2>3, <5>2, FullIs
        <5> DEFINE x == FilesBehind(head, f)
                   y == x * FileBlocks
        <5>6. x \in Int /\ FilesBehind(h, f) = x + 1
          BY <1>2, <4>2, <5>1, BehindIs
        <5>7. (x + 1) * FileBlocks = y + FileBlocks /\ y \in Int
          <6> HIDE DEF x
          <6> QED BY <5>6, OneMore, Sizes
        <5>8. card'[f][1].n + FilesBehind(h, f) * FileBlocks = card[f][1].n + (y + FileBlocks)
          BY <5>3, <5>6, <5>7
        <5>9. card[f][1].n + y = first
          BY <5>4
        <5>10. first \in Int /\ FileBlocks \in Nat
          BY <2>6, Sizes
        <5> DEFINE n == card[f][1].n
                   z == FilesBehind(h, f) * FileBlocks
        <5>11. card'[f][1].n = n
          BY <5>3
        <5>12. z = y + FileBlocks
          BY <5>6, <5>7
        <5> HIDE DEF x, y, z, first, n
        <5>13. n + z = first + FileBlocks
          BY <5>5, <5>7, <5>9, <5>10, <5>12 DEF n
        <5> QED BY <5>11, <5>13 DEF z
      <4> QED BY <4>1, <4>2
    <3>9. \A f \in Indices : Full(f)' =>
            card'[f][1].n + FilesBehind(head', f) * FileBlocks = stored' - fil'.pos + 1
      BY <3>2, <3>5, <3>8
    <3>10. fil'.pos < FileBlocks
      BY <3>3, Sizes
    <3> QED BY <3>3, <3>6, <3>7, <3>9, <3>10 DEF NumberInv
  <2> QED BY <2>3, <2>7, <2>8
<1>5. CASE SyncFails \/ WriteAborts
  BY <1>3, <1>5 DEF SyncFails, WriteAborts
<1>6. CASE MetaData \/ PreallocationComplete \/ PreallocateFile \/ OpenMostRecentFile \/ PowerCut
  <2>1. faults = 0
    BY <1>3, <1>6 DEF MetaData, PreallocationComplete, PreallocateFile, OpenMostRecentFile,
                      PowerCut, ghostVars
  <2>2. \A f \in DOMAIN card : Len(card[f]) <= FileBlocks
    BY <2>1 DEF NumberInv
  <2>3. ASSUME NEW f, card' = WithFile(card, f, Preallocated) \/ card' = WithFile(card, f, <<>>)
        PROVE  \A g \in DOMAIN card' : Len(card'[g]) <= FileBlocks
    <3>1. Len(Preallocated) = FileBlocks /\ Len(<<>>) <= FileBlocks /\ FileBlocks <= FileBlocks
      BY BlankIs, Sizes
    <3> QED BY <2>2, <2>3, <3>1 DEF WithFile
  <2>4. \A f \in DOMAIN card' : Len(card'[f]) <= FileBlocks
    <3>1. CASE MetaData \/ PreallocationComplete
      BY <2>2, <3>1 DEF MetaData, PreallocationComplete, cardVars
    <3>2. CASE PreallocateFile
      <4>1. card' = card \/ card' = WithFile(card, next, Preallocated)
        BY <1>3, <3>2 DEF PreallocateFile
      <4> QED BY <2>2, <2>3, <4>1
    <3>3. CASE OpenMostRecentFile
      <4>1. card' = card \/ card' = WithFile(card, 0, <<>>)
        BY <3>3 DEF OpenMostRecentFile
      <4> QED BY <2>2, <2>3, <4>1
    <3>4. CASE PowerCut
      <4>1. card' = card \/ Torn(card') \/ card' = WithFile(card, next, <<>>)
        BY <3>4, CutShortIs DEF PowerCut
      <4>2. CASE Torn(card')
        <5>1. /\ Len(card'[head]) = Len(card[head]) /\ DOMAIN card' = DOMAIN card
              /\ \A f \in DOMAIN card \ {head} : card'[f] = card[f]
          BY <4>2 DEF Torn
        <5> QED BY <2>2, <5>1
      <4> QED BY <2>2, <2>3, <4>1, <4>2
    <3> QED BY <1>6, <3>1, <3>2, <3>3, <3>4
  <2>5. fil'.behind = <<>> /\ fil'.pos = 0 /\ (stage' = "running" => fil'.open)
    <3>1. /\ ClosedFile.pos = 0 /\ ClosedFile.behind = <<>>
          /\ Opened(0).pos = 0 /\ Opened(0).behind = <<>> /\ Opened(0).open
      BY Sizes, OpenedIs
    <3>2. CASE MetaData \/ PreallocationComplete \/ PreallocateFile
      <4>1. fil' = fil /\ stage # "running" /\ stage' # "running"
        <5>1. CASE PreallocateFile
          BY <5>1 DEF PreallocateFile, logVars
        <5> QED BY <3>2, <5>1 DEF MetaData, PreallocationComplete, logVars
      <4> QED BY <3>1, <4>1 DEF FileInv
    <3> QED BY <1>3, <1>6, <3>1, <3>2 DEF OpenMostRecentFile, PowerCut
  <2>6. /\ \A f \in Indices : ~Full(f)'
        /\ ~(Top' > 0)
    <3>1. ~wrapped' /\ head' = 0
      <4>1. CASE MetaData \/ PreallocationComplete \/ PreallocateFile
        BY <4>1 DEF MetaData, PreallocationComplete, PreallocateFile, logVars, FileInv
      <4> QED BY <1>6, <4>1 DEF OpenMostRecentFile, PowerCut
    <3>2. head' \in DOMAIN card' => Len(card'[head']) \in Nat
      BY CardStep DEF CardType
    <3> QED BY <2>5, <3>1, <3>2, Sizes DEF Full, Live, Top, Indices
  <2> QED BY <2>4, <2>5, <2>6, Sizes DEF NumberInv
<1> QED BY <1>4, <1>5, <1>6 DEF Next

-----------------------------------------------------------------------------
(* The invariant *)

LogInv ==
    /\ TypeInv /\ FileInv /\ ExistInv /\ EpochInv
    /\ NumFiles > 1 => RingInv /\ NumberInv

LEMMA InitInv == Init => LogInv
<1> SUFFICES ASSUME Init PROVE LogInv
  OBVIOUS
<1>1. /\ DOMAIN card = {} /\ epochOnCard = 0 /\ stage = "meta" /\ next = 0 /\ epoch = 0
      /\ fil = ClosedFile /\ head = 0 /\ tail = 0 /\ wrapped = FALSE /\ boots = 1 /\ stored = 0
      /\ epochKept = TRUE /\ creationFailed = FALSE /\ faults = 0
  BY DEF Init
<1>2. /\ ClosedFile \in FileObject /\ ClosedFile.pos = 0 /\ ClosedFile.behind = <<>>
      /\ ~ClosedFile.open /\ 0 \in Indices
  BY Sizes, OpenedIs
<1>3. card \in [DOMAIN card -> Seq(BlockType)]
  BY <1>1 DEF Init
<1>4. TypeInv
  <2>1. DOMAIN card \subseteq Indices /\ card \in [DOMAIN card -> Seq(BlockType)]
    BY <1>1, <1>3
  <2>2. /\ epochOnCard \in Nat /\ epoch \in Nat /\ next \in Nat /\ stored \in Nat /\ faults \in Nat
        /\ boots \in Nat \ {0} /\ stage \in {"meta", "preallocate", "open", "running"}
        /\ stage = "preallocate" => next \in Indices
    BY <1>1
  <2>3. /\ fil \in FileObject /\ head \in Indices /\ tail \in Indices
        /\ wrapped \in BOOLEAN /\ epochKept \in BOOLEAN /\ creationFailed \in BOOLEAN
    BY <1>1, <1>2
  <2> QED BY <2>1, <2>2, <2>3 DEF TypeInv
<1>5. FileInv
  BY <1>1, <1>2 DEF FileInv
<1>6. ExistInv
  BY <1>1 DEF ExistInv
<1>7. EpochInv
  <2>1. [k \in Nat |-> 0] \in [Nat -> Nat]
    OBVIOUS
  <2>2. PICK E \in [Nat -> Nat] : \A k \in Nat : E[k] = 0
    BY <2>1
  <2>3. \A i, j \in Nat : i <= j => E[i] <= E[j] /\ E[j] <= E[i] + (j - i)
    BY <2>2
  <2>4. EpochsOf(E)
    BY <1>1, <2>2, <2>3 DEF EpochsOf
  <2> QED BY <2>4 DEF EpochInv
<1>8. \A f \in Indices : ~Full(f)
  BY <1>1, Sizes DEF Full, Live, Indices
<1>9. ~(Top > 0)
  BY <1>1 DEF Top
<1>10. RingInv
  <2>1. 1 .. stored = {}
    BY <1>1
  <2>2. FullInv /\ OrderInv /\ LinkInv
    BY <1>8 DEF FullInv, OrderInv, LinkInv
  <2>3. HeadInv /\ RestInv /\ FreshInv
    BY <1>1, <1>9 DEF HeadInv, RestInv, FreshInv
  <2>4. CoverInv
    BY <2>1 DEF CoverInv
  <2> QED BY <2>2, <2>3, <2>4 DEF RingInv
<1>11. NumberInv
  BY <1>1, <1>2, <1>8, <1>9, Sizes DEF NumberInv
<1> QED BY <1>4, <1>5, <1>6, <1>7, <1>10, <1>11 DEF LogInv

LEMMA StepInv == LogInv /\ [Next]_vars => LogInv'
BY TypeStep, FileStep, ExistStep, EpochStep, RingStep, NumberStep DEF LogInv

\* The log files, for all constants: types, what is known of the file that is written and of
\* the blocks on the card, and how the numbers run through the ring of files.
THEOREM LogFilesInvariant == Spec => []LogInv
<1> QED BY InitInv, StepInv, PTL DEF Spec

\* All files exist once the boot is through, unless the creation of one has failed: what
\* m_preallocate_log_files infers from the last file's existence holds.
THEOREM FilesExist == Spec => []AllFilesExist
<1>1. LogInv => AllFilesExist
  BY DEF LogInv, ExistInv, AllFilesExist
<1> QED BY <1>1, LogFilesInvariant, PTL

\* Two boots' blocks share an epoch only when an epoch range of boots lies between them,
\* whatever boots the power cut short (LogMetaData.epoch).
THEOREM EpochsTellBootsApart == Spec => []EpochTellsBoots
<1>1. LogInv => EpochTellsBoots
  BY EpochTells DEF LogInv
<1> QED BY <1>1, LogFilesInvariant, PTL

-----------------------------------------------------------------------------
(* The walk of the page over the files *)

LEMMA WalkIs ==
  ASSUME TypeInv, FileInv, NumFiles > 1
  PROVE  /\ LastOfWalk \in Nat /\ LastOfWalk = IF wrapped THEN NumFiles - 1 ELSE head
         /\ \A i \in 0 .. LastOfWalk :
              /\ Walk(i) \in Indices /\ Live(Walk(i))
              /\ Walk(i) = head <=> i = LastOfWalk
              /\ \A j \in 0 .. LastOfWalk : i < j => Precedes(head, Walk(i), Walk(j))
         /\ \A f \in Indices : Live(f) => \E i \in 0 .. LastOfWalk : Walk(i) = f
         /\ Walk(0) = tail
<1>1. /\ head \in Nat /\ head <= NumFiles - 1 /\ tail \in Nat /\ tail <= NumFiles - 1
      /\ NumFiles \in Nat \ {0}
      /\ tail = IF wrapped THEN FileAfter(head) ELSE 0
  BY Sizes DEF TypeInv, FileInv, Indices
<1>2. FileAfter(head) = IF head = NumFiles - 1 THEN 0 ELSE head + 1
  BY DEF FileAfter
<1>3. LastOfWalk = IF wrapped THEN NumFiles - 1 ELSE head
  <2> DEFINE d == head + NumFiles - tail
  <2>1. d \in 0 .. 2 * NumFiles - 1
        /\ d = IF wrapped THEN (IF head = NumFiles - 1 THEN 2 * NumFiles - 1 ELSE NumFiles - 1)
               ELSE head + NumFiles
    BY <1>1, <1>2
  <2> HIDE DEF d
  <2>2. d % NumFiles = IF d < NumFiles THEN d ELSE d - NumFiles
    BY <1>1, <2>1, TurnIs
  <2> QED BY <1>1, <2>1, <2>2 DEF LastOfWalk, d
<1>4. ASSUME NEW i \in 0 .. LastOfWalk
      PROVE  Walk(i) = IF tail + i < NumFiles THEN tail + i ELSE tail + i - NumFiles
  <2> DEFINE d == tail + i
  <2>1. d \in 0 .. 2 * NumFiles - 1 /\ i \in Nat
    BY <1>1, <1>3
  <2> HIDE DEF d
  <2>2. d % NumFiles = IF d < NumFiles THEN d ELSE d - NumFiles
    BY <1>1, <2>1, TurnIs
  <2>3. Walk(i) = d % NumFiles
    BY DEF Walk, d
  <2> QED BY <1>1, <2>1, <2>2, <2>3 DEF d
<1>5. LastOfWalk \in Nat
  BY <1>1, <1>3
<1>6. Walk(0) = tail
  <2>1. 0 \in 0 .. LastOfWalk
    BY <1>5
  <2> QED BY <1>1, <1>4, <2>1
<1>7. CASE ~wrapped
  <2>1. tail = 0 /\ LastOfWalk = head
    BY <1>1, <1>3, <1>7
  <2>2. \A i \in 0 .. LastOfWalk : Walk(i) = i
    BY <1>1, <1>4, <2>1
  <2>3. \A i \in 0 .. LastOfWalk : /\ i \in Indices /\ Live(i) /\ i <= head
                                   /\ \A j \in 0 .. LastOfWalk : i < j => Precedes(head, i, j)
    BY <1>1, <1>7, <2>1 DEF Indices, Live, Precedes
  <2>4. \A f \in Indices : Live(f) => f \in 0 .. LastOfWalk
    BY <1>1, <1>7, <2>1 DEF Indices, Live
  <2> QED BY <1>3, <1>5, <1>6, <2>1, <2>2, <2>3, <2>4
<1>8. CASE wrapped
  <2>1. tail = FileAfter(head) /\ LastOfWalk = NumFiles - 1
    BY <1>1, <1>3, <1>8
  <2>2. ASSUME NEW i \in 0 .. LastOfWalk
        PROVE  Walk(i) \in Indices /\ Live(Walk(i)) /\ (Walk(i) = head <=> i = LastOfWalk)
    BY <1>1, <1>2, <1>4, <1>8, <2>1 DEF Indices, Live
  <2>3. ASSUME NEW i \in 0 .. LastOfWalk, NEW j \in 0 .. LastOfWalk, i < j
        PROVE  Precedes(head, Walk(i), Walk(j))
    <3>1. /\ Walk(i) = IF tail + i < NumFiles THEN tail + i ELSE tail + i - NumFiles
          /\ Walk(j) = IF tail + j < NumFiles THEN tail + j ELSE tail + j - NumFiles
      BY <1>4
    <3>2. CASE head = NumFiles - 1
      BY <1>1, <1>2, <2>1, <2>3, <3>1, <3>2 DEF Precedes
    <3>3. CASE head # NumFiles - 1
      BY <1>1, <1>2, <2>1, <2>3, <3>1, <3>3 DEF Precedes
    <3> QED BY <3>2, <3>3
  <2>4. ASSUME NEW f \in Indices
        PROVE  \E i \in 0 .. LastOfWalk : Walk(i) = f
    <3> DEFINE i == IF f >= tail THEN f - tail ELSE f + NumFiles - tail
    <3>1. f \in Nat /\ f <= NumFiles - 1
      BY Sizes DEF Indices
    <3>2. i \in 0 .. LastOfWalk
      BY <1>1, <2>1, <3>1
    <3>3. Walk(i) = f
      BY <1>1, <1>4, <3>1, <3>2
    <3> QED BY <3>2, <3>3
  <2> QED BY <1>3, <1>5, <1>6, <2>2, <2>3, <2>4
<1> QED BY <1>7, <1>8

LEMMA ExportedIs ==
  ASSUME NEW i, NEW p
  PROVE  <<i, p>> \in Exported <=>
           /\ i \in 0 .. LastOfWalk /\ Walk(i) \in DOMAIN card /\ p \in DOMAIN card[Walk(i)]
<1>1. ASSUME <<i, p>> \in Exported
      PROVE  i \in 0 .. LastOfWalk /\ Walk(i) \in DOMAIN card /\ p \in DOMAIN card[Walk(i)]
  <2>1. PICK j \in 0 .. LastOfWalk : Exists(Walk(j)) /\ <<i, p>> \in {<<j, r>> : r \in DOMAIN card[Walk(j)]}
    BY <1>1 DEF Exported
  <2>2. PICK r \in DOMAIN card[Walk(j)] : <<i, p>> = <<j, r>>
    BY <2>1
  <2>3. i = j /\ p = r
    BY <2>2
  <2> QED BY <2>1, <2>3 DEF Exists
<1>2. ASSUME i \in 0 .. LastOfWalk, Walk(i) \in DOMAIN card, p \in DOMAIN card[Walk(i)]
      PROVE  <<i, p>> \in Exported
  <2>1. <<i, p>> \in {<<i, r>> : r \in DOMAIN card[Walk(i)]} /\ Exists(Walk(i))
    BY <1>2 DEF Exists
  <2> QED BY <1>2, <2>1 DEF Exported
<1> QED BY <1>1, <1>2

LEMMA ExportedPlace ==
  ASSUME NEW q \in Exported
  PROVE  /\ q = <<q[1], q[2]>> /\ q[1] \in 0 .. LastOfWalk
         /\ Walk(q[1]) \in DOMAIN card /\ q[2] \in DOMAIN card[Walk(q[1])]
<1>1. PICK j \in 0 .. LastOfWalk : Exists(Walk(j)) /\ q \in {<<j, r>> : r \in DOMAIN card[Walk(j)]}
  BY DEF Exported
<1>2. PICK r \in DOMAIN card[Walk(j)] : q = <<j, r>>
  BY <1>1
<1> QED BY <1>1, <1>2 DEF Exists

-----------------------------------------------------------------------------
(* What the page decodes *)

LEMMA HeadRest ==
  ASSUME TypeInv, RingInv, wrapped, head \in DOMAIN card, Len(card[head]) <= FileBlocks,
         FileInv
  PROVE  \E a \in Nat :
           /\ a >= 1
           /\ \A p \in DOMAIN card[head] :
                \/ p <= Top \/ p >= a
                \/ card[head][p].boot = boots /\ card[head][p].n = 0
           /\ a <= Len(card[head]) =>
                /\ Gapless(boots, card[head], a, Len(card[head]))
                /\ card[head][Len(card[head])].n + 1 = card[tail][1].n
<1> DEFINE pos == fil.pos
           old == card[head]
<1>1. pos \in Nat /\ Len(old) \in Nat /\ old \in Seq(BlockType)
      /\ Top = IF pos <= Len(old) THEN pos ELSE Len(old)
  BY TopType DEF TypeInv, Top
<1>2. PICK a \in {pos + 1, pos + 2} :
        /\ a = pos + 2 /\ pos + 1 <= Len(old) => old[pos + 1].boot = boots /\ old[pos + 1].n = 0
        /\ a <= Len(old) =>
             /\ Gapless(boots, old, a, Len(old))
             /\ old[Len(old)].n + 1 = card[tail][1].n
  BY DEF RingInv, RestInv
<1>3. ASSUME NEW p \in DOMAIN old
      PROVE  p <= Top \/ p >= a \/ (old[p].boot = boots /\ old[p].n = 0)
  <2>1. p \in 1 .. Len(old)
    BY <1>1
  <2>2. CASE p <= pos
    BY <1>1, <2>1, <2>2
  <2>3. CASE p > pos /\ ~(p >= a)
    <3>1. p = pos + 1 /\ a = pos + 2 /\ pos + 1 <= Len(old)
      BY <1>1, <2>1, <2>3
    <3> QED BY <1>2, <3>1
  <2> QED BY <1>1, <2>1, <2>2, <2>3
<1>4. a \in Nat /\ a >= 1
  BY <1>1
<1> QED BY <1>2, <1>3, <1>4

\* The files that the page walks over hold this boot's blocks, as far as they were written.
LEMMA LiveBlock ==
  ASSUME TypeInv, FileInv, RingInv, NoFileOverlong,
         NEW f \in DOMAIN card, Live(f), NEW p \in DOMAIN card[f],
         f = head /\ ~wrapped => p <= fil.pos
  PROVE  /\ card[f][p].boot = boots /\ card[f][p].epoch = epoch % EpochRange
         /\ card[f][p].n \in Nat /\ card[f][p].n <= stored
         /\ f # head => p \in 1 .. FileBlocks
<1>1. f \in Indices
  BY DEF TypeInv
<1>2. FullInv /\ HeadInv
  BY DEF RingInv
<1>3. f # head => p \in 1 .. FileBlocks /\ Gapless(boots, card[f], 1, FileBlocks)
  <2>1. ASSUME f # head
        PROVE  Len(card[f]) = FileBlocks /\ Gapless(boots, card[f], 1, FileBlocks)
    <3>1. Full(f)
      BY <1>1, <2>1 DEF Full
    <3>2. Len(card[f]) \in Nat /\ Len(card[f]) >= FileBlocks /\ Gapless(boots, card[f], 1, FileBlocks)
      BY <1>1, <1>2, <3>1, FullIs
    <3>3. Len(card[f]) <= FileBlocks
      BY DEF NoFileOverlong
    <3> QED BY <3>2, <3>3, Sizes
  <2>2. p \in 1 .. Len(card[f])
    BY BlockOnCard
  <2> QED BY <2>1, <2>2
<1>4. card[f][p].boot = boots
  <2>1. CASE f # head
    BY <1>3, <2>1 DEF Gapless
  <2>2. CASE f = head /\ p <= Top
    <3>1. Top \in Nat /\ p \in 1 .. Len(card[f])
      BY TopType, BlockOnCard
    <3>2. p \in 1 .. Top /\ Top > 0
      BY <2>2, <3>1
    <3> QED BY <1>2, <2>2, <3>2 DEF HeadInv, Gapless
  <2>3. CASE f = head /\ ~(p <= Top)
    <3>1. p \in 1 .. Len(card[f]) /\ Len(card[f]) \in Nat /\ fil.pos \in Nat
      BY BlockOnCard, TopType
    <3>2. ~(p <= fil.pos)
      BY <2>3, <3>1 DEF Top
    <3>3. wrapped
      BY <2>3, <3>2
    <3>4. Len(card[head]) <= FileBlocks
      BY <2>3 DEF NoFileOverlong
    <3>5. PICK a \in Nat :
            /\ a >= 1
            /\ \A r \in DOMAIN card[head] :
                 \/ r <= Top \/ r >= a
                 \/ card[head][r].boot = boots /\ card[head][r].n = 0
            /\ a <= Len(card[head]) =>
                 /\ Gapless(boots, card[head], a, Len(card[head]))
                 /\ card[head][Len(card[head])].n + 1 = card[tail][1].n
      BY <2>3, <3>3, <3>4, HeadRest
    <3>6. CASE p >= a
      <4>1. a <= Len(card[head]) /\ p \in a .. Len(card[head])
        BY <2>3, <3>1, <3>6
      <4> QED BY <2>3, <3>5, <4>1 DEF Gapless
    <3> QED BY <2>3, <3>5, <3>6
  <2> QED BY <2>1, <2>2, <2>3
<1> QED BY <1>3, <1>4, BlockOnCard DEF FileInv

LEMMA WrappedNumbers ==
  ASSUME NumFiles > 1, TypeInv, FileInv, RingInv, NoFileOverlong, wrapped
  PROVE  \E k \in 1 .. stored :
           /\ k <= card[tail][1].n
           /\ \A f \in DOMAIN card : \A p \in DOMAIN card[f] :
                card[f][p].n = 0 \/ card[f][p].n \in k .. stored
           /\ \A m \in k .. stored : \E f \in DOMAIN card : \E p \in DOMAIN card[f] :
                card[f][p].n = m
<1> DEFINE t == card[tail][1].n
<1>1. /\ FullInv /\ HeadInv /\ OrderInv /\ CoverInv
      /\ \A f \in DOMAIN card : f \in Indices /\ Live(f)
      /\ \A f \in Indices : Live(f)
      /\ head \in Indices /\ stored \in Nat
  BY DEF RingInv, Live, TypeInv
<1>2. tail \in Indices /\ tail = FileAfter(head) /\ tail # head /\ Full(tail)
  <2>1. tail = FileAfter(head)
    BY DEF FileInv
  <2> QED BY <1>1, <2>1, StepIs DEF Full
<1>3. tail \in DOMAIN card /\ 1 \in DOMAIN card[tail] /\ t >= 1 /\ t \in Nat /\ t <= stored
  <2>1. tail \in DOMAIN card /\ 1 \in DOMAIN card[tail] /\ t >= 1 /\ t \in Nat
    BY <1>1, <1>2, FullIs
  <2> QED BY <1>1, <1>2, <2>1, LiveBlock
<1>4. ASSUME NEW f \in DOMAIN card, NEW p \in DOMAIN card[f]
      PROVE  card[f][p].n \in Nat /\ card[f][p].n <= stored
  BY <1>1, <1>4, LiveBlock
<1>5. ASSUME NEW f \in DOMAIN card, NEW p \in DOMAIN card[f], f # head
      PROVE  card[f][p].n >= t
  <2>1. Full(f) /\ f \in Indices
    BY <1>1, <1>5 DEF Full
  <2>2. /\ p \in 1 .. FileBlocks /\ Gapless(boots, card[f], 1, FileBlocks)
        /\ 1 \in DOMAIN card[f] /\ 1 \in 1 .. FileBlocks
    BY <1>1, <1>5, <2>1, LiveBlock, FullIs, Sizes
  <2>3. card[f][1].n <= card[f][p].n
    BY <2>2, Sizes DEF Gapless
  <2>4. CASE f = tail
    BY <2>3, <2>4
  <2>5. CASE f # tail
    <3>1. Precedes(head, tail, f)
      BY <1>1, <1>2, <2>1, <2>5, PrecedesIs
    <3>2. t < card[f][1].n
      <4>1. card[tail][1].boot = boots
        BY <1>1, <1>2, FullIs
      <4> QED BY <1>1, <1>2, <1>3, <1>5, <2>1, <3>1, <4>1 DEF OrderInv
    <3>3. card[f][1].n \in Nat /\ card[f][p].n \in Nat
      BY <1>4, <2>2
    <3> QED BY <1>3, <2>3, <3>2, <3>3
  <2> QED BY <2>4, <2>5
<1>6. ASSUME head \in DOMAIN card, NEW p \in DOMAIN card[head], p <= Top
      PROVE  card[head][p].n >= t
  <2>1. p \in 1 .. Top /\ Top > 0 /\ 1 \in 1 .. Top /\ 1 \in DOMAIN card[head]
    <3>1. p \in 1 .. Len(card[head]) /\ Top \in Nat /\ Len(card[head]) \in Nat
      BY <1>6, BlockOnCard, TopType
    <3>2. 1 \in 1 .. Len(card[head])
      BY <3>1
    <3>3. 1 \in DOMAIN card[head]
      BY <1>6, <3>2 DEF TypeInv
    <3> QED BY <1>6, <3>1, <3>3
  <2>2. card[head][1].n <= card[head][p].n
    BY <1>1, <2>1 DEF HeadInv, Gapless
  <2>3. Precedes(head, tail, head)
    BY <1>1, <1>2, PrecedesIs
  <2>4. t < card[head][1].n
    <3>1. card[tail][1].boot = boots
      BY <1>1, <1>2, FullIs
    <3> QED BY <1>1, <1>2, <1>3, <2>1, <2>3, <3>1 DEF OrderInv
  <2>5. card[head][1].n \in Nat /\ card[head][p].n \in Nat
    BY <1>4, <1>6, <2>1
  <2> QED BY <1>3, <2>2, <2>4, <2>5
<1>7. \A m \in t .. stored : \E f \in DOMAIN card : \E p \in DOMAIN card[f] : card[f][p].n = m
  <2> TAKE m \in t .. stored
  <2>1. m \in 1 .. stored /\ m >= t
    BY <1>3
  <2> QED BY <1>1, <2>1 DEF CoverInv
<1> HIDE DEF t
<1>8. CASE head \notin DOMAIN card
  <2>1. t \in 1 .. stored /\ t <= t
    BY <1>1, <1>3
  <2>2. ASSUME NEW f \in DOMAIN card, NEW p \in DOMAIN card[f]
        PROVE  card[f][p].n \in t .. stored
    <3>1. f # head
      BY <1>8
    <3> QED BY <1>1, <1>3, <1>4, <1>5, <3>1
  <2> QED BY <1>7, <2>1, <2>2 DEF t
<1>9. CASE head \in DOMAIN card
  <2> DEFINE old == card[head]
             l == Len(old)
  <2>1. PICK a \in Nat :
          /\ a >= 1
          /\ \A p \in DOMAIN old : p <= Top \/ p >= a \/ (old[p].boot = boots /\ old[p].n = 0)
          /\ a <= l => Gapless(boots, old, a, l) /\ old[l].n + 1 = t
    <3>1. Len(card[head]) <= FileBlocks
      BY <1>9 DEF NoFileOverlong
    <3> QED BY <1>9, <3>1, HeadRest DEF t
  <2>2. l \in Nat /\ \A p \in 1 .. l : p \in DOMAIN old
    BY <1>9 DEF TypeInv
  <2>3. \A p \in DOMAIN old : p \in 1 .. l
    BY <1>9, BlockOnCard
  <2>4. CASE a <= l
    <3> DEFINE k == old[a].n
    <3>1. a \in a .. l /\ l \in a .. l /\ a \in DOMAIN old /\ l \in DOMAIN old
      BY <2>1, <2>2, <2>4
    <3>2. k >= 1 /\ k <= old[l].n /\ k \in Nat /\ old[l].n \in Nat /\ old[l].n + 1 = t
      BY <1>4, <1>9, <2>1, <2>4, <3>1 DEF Gapless
    <3>3. k \in 1 .. stored /\ k <= t
      BY <1>1, <1>3, <3>2
    <3>4. ASSUME NEW f \in DOMAIN card, NEW p \in DOMAIN card[f]
          PROVE  card[f][p].n = 0 \/ card[f][p].n \in k .. stored
      <4>1. card[f][p].n \in Nat /\ card[f][p].n <= stored
        BY <1>4
      <4>2. CASE card[f][p].n >= t
        BY <1>1, <1>3, <3>2, <3>3, <4>1, <4>2
      <4>3. CASE f = head /\ p >= a
        <5>1. p \in a .. l
          BY <2>2, <2>3, <4>3
        <5>2. k <= card[f][p].n
          BY <2>1, <2>4, <3>1, <4>3, <5>1 DEF Gapless
        <5> QED BY <1>1, <3>2, <4>1, <5>2
      <4> QED BY <1>5, <1>6, <1>9, <2>1, <4>2, <4>3
    <3>5. ASSUME NEW m \in k .. stored
          PROVE  \E f \in DOMAIN card : \E p \in DOMAIN card[f] : card[f][p].n = m
      <4>1. CASE m >= t
        <5>1. m \in t .. stored
          BY <1>1, <1>3, <3>2, <4>1
        <5> QED BY <1>7, <5>1
      <4>2. CASE ~(m >= t)
        <5>1. m \in old[a].n .. old[l].n
          BY <1>1, <1>3, <3>2, <4>2
        <5>2. PICK q \in a .. l : old[q].n = m
          BY <2>1, <2>4, <3>1, <5>1 DEF Gapless
        <5>3. q \in DOMAIN old
          BY <2>1, <2>2
        <5> QED BY <1>9, <5>2, <5>3
      <4> QED BY <4>1, <4>2
    <3> QED BY <3>3, <3>4, <3>5 DEF t
  <2>5. CASE ~(a <= l)
    <3>1. t \in 1 .. stored /\ t <= t
      BY <1>1, <1>3
    <3>2. ASSUME NEW f \in DOMAIN card, NEW p \in DOMAIN card[f]
          PROVE  card[f][p].n = 0 \/ card[f][p].n \in t .. stored
      <4>1. card[f][p].n \in Nat /\ card[f][p].n <= stored
        BY <1>4
      <4>2. f = head => ~(p >= a)
        BY <2>1, <2>2, <2>3, <2>5
      <4>3. card[f][p].n = 0 \/ card[f][p].n >= t
        BY <1>5, <1>6, <1>9, <2>1, <4>2
      <4> QED BY <1>1, <1>3, <4>1, <4>3
    <3> QED BY <1>7, <3>1, <3>2 DEF t
  <2> QED BY <2>4, <2>5
<1> QED BY <1>8, <1>9

-----------------------------------------------------------------------------
(* The export *)

\* A block with this boot's epoch is this boot's.
LEMMA ThisEpoch ==
  ASSUME TypeInv, FileInv, EpochInv, EpochsTellBoots,
         NEW f \in DOMAIN card, NEW p \in DOMAIN card[f],
         NEW g \in DOMAIN card, NEW r \in DOMAIN card[g],
         card[f][p].boot = boots, card[g][r].epoch = card[f][p].epoch
  PROVE  card[g][r].boot = boots
<1> DEFINE b == card[g][r]
           c == card[f][p]
<1>1. /\ b.boot \in Nat /\ b.boot <= boots /\ c.boot = boots /\ boots \in Nat /\ boots > 0
      /\ boots <= EpochRange /\ EpochRange \in Nat \ {0} /\ b.epoch = c.epoch
  <2>1. boots \in Nat /\ boots > 0 /\ boots <= EpochRange
    BY DEF TypeInv, EpochsTellBoots
  <2>2. b.boot \in Nat
    BY BlockOnCard
  <2>3. b.boot <= boots
    BY DEF FileInv
  <2> QED BY <2>1, <2>2, <2>3, Sizes
<1>2. SUFFICES ASSUME b.boot < c.boot PROVE FALSE
  BY <1>1
<1>3. b.boot = 0
  <2>1. b.boot + EpochRange <= c.boot
    BY <1>1, <1>2, EpochTells DEF EpochsTellBoots, EpochTellsBoots
  <2> QED BY <1>1, <2>1
<1>4. PICK E \in [Nat -> Nat] : EpochsOf(E)
  BY DEF EpochInv, EpochsTellBoots
<1>5. b = Blank
  BY <1>1, <1>3, <1>4, EpochUnfolds
<1>6. c # Blank
  <2>1. c.boot # 0
    BY <1>1
  <2> HIDE DEF c
  <2> QED BY <2>1, BlankIs
<1>7. c.epoch = E[c.boot] % EpochRange
  BY <1>4, <1>6, EpochUnfolds
<1>8. E[c.boot] % EpochRange \in 0 .. EpochRange - 1
  BY <1>1, <1>4, Division
<1>9. c.epoch \in 0 .. EpochRange - 1
  BY <1>7, <1>8
<1>10. c.epoch = EpochRange
  <2>1. b.epoch = EpochRange
    BY <1>5, BlankIs
  <2> QED BY <1>1, <2>1
<1> HIDE DEF c
<1> QED BY <1>1, <1>9, <1>10

\* A place is decoded when everything up to it has its epoch.
LEMMA DecodedIs ==
  ASSUME NEW b
  PROVE  b \in Decoded <=>
           \E q \in Exported :
              /\ b = BlockAt(q)
              /\ \A s \in Exported :
                   s[1] < q[1] \/ (s[1] = q[1] /\ s[2] <= q[2]) => BlockAt(s).epoch = b.epoch
BY DEF Decoded, UpTo

\* Every file of this boot is walked over, and what it holds is exported.
LEMMA Placed ==
  ASSUME TypeInv, FileInv, NumFiles > 1,
         NEW f \in DOMAIN card, Live(f), NEW p \in DOMAIN card[f]
  PROVE  \E q \in Exported : Walk(q[1]) = f /\ q[2] = p
<1>1. PICK i \in 0 .. LastOfWalk : Walk(i) = f
  BY WalkIs DEF TypeInv
<1> DEFINE q == <<i, p>>
<1>2. q \in Exported
  BY <1>1, ExportedIs
<1>3. Walk(q[1]) = f /\ q[2] = p
  BY <1>1
<1> QED BY <1>2, <1>3

\* What is exported, seen at its place on the card.
LEMMA PlaceIs ==
  ASSUME TypeInv, FileInv, NumFiles > 1, NEW q \in Exported
  PROVE  /\ q[1] \in 0 .. LastOfWalk /\ q[1] \in Nat
         /\ Walk(q[1]) \in DOMAIN card /\ Live(Walk(q[1])) /\ q[2] \in DOMAIN card[Walk(q[1])]
         /\ q[2] \in Nat /\ BlockAt(q) = card[Walk(q[1])][q[2]]
         /\ Walk(q[1]) = head <=> q[1] = LastOfWalk
<1>1. q[1] \in 0 .. LastOfWalk /\ Walk(q[1]) \in DOMAIN card /\ q[2] \in DOMAIN card[Walk(q[1])]
  BY ExportedPlace
<1>2. LastOfWalk \in Nat /\ Live(Walk(q[1])) /\ (Walk(q[1]) = head <=> q[1] = LastOfWalk)
  BY <1>1, WalkIs
<1>3. q[1] \in Nat
  BY <1>1, <1>2
<1>4. q[2] \in 1 .. Len(card[Walk(q[1])])
  BY <1>1, BlockOnCard
<1>5. q[2] \in Nat
  BY <1>4
<1> QED BY <1>1, <1>2, <1>3, <1>5 DEF BlockAt

\* In a ring that has wrapped everything exported is this boot's.
LEMMA WrappedExport ==
  ASSUME TypeInv, FileInv, RingInv, NoFileOverlong, NumFiles > 1, wrapped
  PROVE  /\ \A b \in Decoded : b.boot = boots
         /\ \E k \in 1 .. stored : DecodedNumbers = k .. stored /\ k <= card[tail][1].n
<1>1. ASSUME NEW q \in Exported
      PROVE  BlockAt(q).boot = boots /\ BlockAt(q).epoch = epoch % EpochRange
  <2>1. Walk(q[1]) \in DOMAIN card /\ Live(Walk(q[1])) /\ q[2] \in DOMAIN card[Walk(q[1])]
        /\ BlockAt(q) = card[Walk(q[1])][q[2]]
    BY PlaceIs
  <2> QED BY <2>1, LiveBlock
<1>2. ASSUME NEW b
      PROVE  b \in Decoded <=> \E q \in Exported : b = BlockAt(q)
  BY <1>1, DecodedIs
<1>3. ASSUME NEW b
      PROVE  b \in Decoded <=> \E f \in DOMAIN card : \E p \in DOMAIN card[f] : b = card[f][p]
  <2>1. ASSUME b \in Decoded
        PROVE  \E f \in DOMAIN card : \E p \in DOMAIN card[f] : b = card[f][p]
    <3>1. PICK q \in Exported : b = BlockAt(q)
      BY <1>2, <2>1
    <3> QED BY <3>1, PlaceIs
  <2>2. ASSUME NEW f \in DOMAIN card, NEW p \in DOMAIN card[f], b = card[f][p]
        PROVE  b \in Decoded
    <3>1. Live(f)
      BY DEF Live
    <3>2. PICK q \in Exported : Walk(q[1]) = f /\ q[2] = p
      BY <3>1, Placed
    <3> QED BY <1>2, <2>2, <3>2 DEF BlockAt
  <2> QED BY <2>1, <2>2
<1>4. PICK k \in 1 .. stored :
        /\ k <= card[tail][1].n
        /\ \A f \in DOMAIN card : \A p \in DOMAIN card[f] :
             card[f][p].n = 0 \/ card[f][p].n \in k .. stored
        /\ \A m \in k .. stored : \E f \in DOMAIN card : \E p \in DOMAIN card[f] :
             card[f][p].n = m
  BY WrappedNumbers
<1>5. DecodedNumbers \subseteq k .. stored
  BY <1>3, <1>4 DEF DecodedNumbers
<1>6. ASSUME NEW m \in k .. stored
      PROVE  m \in DecodedNumbers
  <2>1. PICK f \in DOMAIN card : \E p \in DOMAIN card[f] : card[f][p].n = m
    BY <1>4
  <2>2. PICK p \in DOMAIN card[f] : card[f][p].n = m
    BY <2>1
  <2>3. card[f][p] \in Decoded /\ m # 0
    BY <1>3
  <2> QED BY <2>2, <2>3 DEF DecodedNumbers
<1>7. \A b \in Decoded : b.boot = boots
  BY <1>1, <1>2
<1> QED BY <1>4, <1>5, <1>6, <1>7

\* Before the ring wraps, the walk begins with the boot's first block.
LEMMA FirstExported ==
  ASSUME TypeInv, FileInv, RingInv, NumFiles > 1, ~wrapped, stored > 0
  PROVE  0 \in DOMAIN card /\ 1 \in DOMAIN card[0] /\ card[0][1].boot = boots /\ Live(0)
<1>1. /\ FullInv /\ HeadInv /\ 0 \in Indices /\ head \in Nat
  BY Sizes DEF RingInv, TypeInv, Indices
<1>2. Live(0)
  BY <1>1 DEF Live
<1>3. CASE head = 0
  <2>1. Top > 0 /\ head \in DOMAIN card /\ Top \in Nat
    BY <1>1, <1>3, TopType DEF HeadInv
  <2>2. Top <= Len(card[head]) /\ Len(card[head]) \in Nat /\ Gapless(boots, card[head], 1, Top)
    BY <1>1, <2>1, TopType DEF HeadInv
  <2>3. 1 \in 1 .. Top /\ 1 \in 1 .. Len(card[head])
    BY <2>1, <2>2
  <2>4. 1 \in DOMAIN card[head]
    BY <2>1, <2>3 DEF TypeInv
  <2> QED BY <1>2, <1>3, <2>1, <2>2, <2>3, <2>4 DEF Gapless
<1>4. CASE head # 0
  BY <1>1, <1>2, <1>4, FullIs DEF Full
<1> QED BY <1>3, <1>4

LEMMA UnwrappedExport ==
  ASSUME TypeInv, FileInv, RingInv, EpochInv, EpochsTellBoots, NoFileOverlong, NumFiles > 1,
         ~wrapped, stored > 0
  PROVE  /\ \A b \in Decoded : b.boot = boots
         /\ DecodedNumbers = 1 .. stored
<1>1. /\ 0 \in DOMAIN card /\ 1 \in DOMAIN card[0] /\ card[0][1].boot = boots /\ Live(0)
      /\ stored \in Nat
  BY FirstExported DEF TypeInv
<1>2. tail = 0 /\ LastOfWalk \in Nat /\ Walk(0) = tail
  BY WalkIs DEF FileInv
<1> DEFINE z == <<0, 1>>
<1>3. z \in Exported /\ BlockAt(z) = card[0][1] /\ z[1] = 0 /\ z[2] = 1
  <2>1. 0 \in 0 .. LastOfWalk
    BY <1>2
  <2> QED BY <1>1, <1>2, <2>1, ExportedIs DEF BlockAt
<1> HIDE DEF z
<1>4. ASSUME NEW b \in Decoded
      PROVE  b.boot = boots /\ b.n \in Nat /\ b.n <= stored
  <2>1. PICK q \in Exported :
          /\ b = BlockAt(q)
          /\ \A s \in Exported :
               s[1] < q[1] \/ (s[1] = q[1] /\ s[2] <= q[2]) => BlockAt(s).epoch = b.epoch
    BY DecodedIs
  <2>2. /\ Walk(q[1]) \in DOMAIN card /\ q[2] \in DOMAIN card[Walk(q[1])]
        /\ q[1] \in Nat /\ q[2] \in Nat /\ BlockAt(q) = card[Walk(q[1])][q[2]]
    BY PlaceIs
  <2>3. z[1] < q[1] \/ (z[1] = q[1] /\ z[2] <= q[2])
    <3>1. q[2] \in 1 .. Len(card[Walk(q[1])])
      BY <2>2, BlockOnCard
    <3>2. q[2] >= 1
      BY <3>1
    <3> QED BY <1>3, <2>2, <3>2
  <2>4. card[0][1].epoch = b.epoch
    BY <1>3, <2>1, <2>3
  <2>5. card[Walk(q[1])][q[2]].boot = boots
    BY <1>1, <2>1, <2>2, <2>4, ThisEpoch
  <2>6. card[Walk(q[1])][q[2]].n \in Nat /\ card[Walk(q[1])][q[2]].n <= stored
    BY <2>2, <2>5, BlockOnCard DEF FileInv
  <2> QED BY <2>1, <2>2, <2>5, <2>6
<1>5. DecodedNumbers \subseteq 1 .. stored
  <2>1. ASSUME NEW b \in Decoded, b.n # 0
        PROVE  b.n \in 1 .. stored
    BY <1>1, <1>4, <2>1
  <2> QED BY <2>1 DEF DecodedNumbers
<1>6. ASSUME NEW m \in 1 .. stored
      PROVE  m \in DecodedNumbers
  <2>1. PICK f \in DOMAIN card : \E p \in DOMAIN card[f] :
          Live(f) /\ (f = head => p <= fil.pos) /\ card[f][p].boot = boots /\ card[f][p].n = m
    BY DEF RingInv, CoverInv
  <2>2. PICK p \in DOMAIN card[f] :
          Live(f) /\ (f = head => p <= fil.pos) /\ card[f][p].boot = boots /\ card[f][p].n = m
    BY <2>1
  <2>3. PICK q \in Exported : Walk(q[1]) = f /\ q[2] = p
    BY <2>2, Placed
  <2>4. BlockAt(q) = card[f][p] /\ card[f][p].epoch = epoch % EpochRange
        /\ q[1] \in 0 .. LastOfWalk /\ (f = head <=> q[1] = LastOfWalk)
    BY <2>2, <2>3, PlaceIs, LiveBlock
  <2>5. ASSUME NEW s \in Exported, s[1] < q[1] \/ (s[1] = q[1] /\ s[2] <= q[2])
        PROVE  BlockAt(s).epoch = epoch % EpochRange
    <3>1. /\ s[1] \in 0 .. LastOfWalk /\ s[1] \in Nat /\ s[2] \in Nat
          /\ Walk(s[1]) \in DOMAIN card /\ Live(Walk(s[1])) /\ s[2] \in DOMAIN card[Walk(s[1])]
          /\ BlockAt(s) = card[Walk(s[1])][s[2]]
          /\ Walk(s[1]) = head <=> s[1] = LastOfWalk
      BY PlaceIs
    <3>2. Walk(s[1]) = head => s[2] <= fil.pos
      <4>1. SUFFICES ASSUME Walk(s[1]) = head PROVE s[2] <= fil.pos
        OBVIOUS
      <4>2. s[1] = q[1] /\ s[2] <= q[2] /\ q[1] = LastOfWalk
        BY <1>2, <2>4, <2>5, <3>1, <4>1
      <4>3. p <= fil.pos /\ p \in Nat /\ fil.pos \in Nat
        <5>1. f = head /\ p \in 1 .. Len(card[f])
          BY <2>4, <4>2, BlockOnCard
        <5> QED BY <2>2, <5>1, TopType
      <4> QED BY <2>3, <3>1, <4>2, <4>3
    <3> QED BY <3>1, <3>2, LiveBlock
  <2>6. card[f][p] \in Decoded
    BY <2>4, <2>5, DecodedIs
  <2> QED BY <2>2, <2>6 DEF DecodedNumbers
<1> QED BY <1>4, <1>5, <1>6

\* The page's recording of this boot ends with the newest block and has no gap: rotation, epoch
\* and the page's walk fit together, whatever failed, as long as no file is overlong.
THEOREM ExportContiguous == Spec => []ExportIsContiguous
<1>1. LogInv => ExportIsContiguous
  <2> SUFFICES ASSUME LogInv, stored > 0, EpochsTellBoots, NoFileOverlong, NumFiles > 1
               PROVE  /\ \A b \in Decoded : b.boot = boots
                      /\ \E k \in 1 .. stored : DecodedNumbers = k .. stored
    BY DEF ExportIsContiguous
  <2>1. TypeInv /\ FileInv /\ EpochInv /\ RingInv
    BY DEF LogInv
  <2>2. CASE wrapped
    BY <2>1, <2>2, WrappedExport
  <2>3. CASE ~wrapped
    <3>1. 1 \in 1 .. stored
      BY <2>1 DEF TypeInv
    <3> QED BY <2>1, <2>3, <3>1, UnwrappedExport
  <2> QED BY <2>2, <2>3
<1> QED BY <1>1, LogFilesInvariant, PTL

\* Without failures every block of the complete files can be exported: what a rotation
\* overwrites is more than NumFiles - 1 files old.
THEOREM CompleteFilesExported == Spec => []ExportHoldsCompleteFiles
<1>1. LogInv => ExportHoldsCompleteFiles
  <2> SUFFICES ASSUME LogInv, faults = 0, EpochsTellBoots, NEW n \in 1 .. stored,
                      n + (NumFiles - 1) * FileBlocks > stored
               PROVE  n \in DecodedNumbers
    BY DEF ExportHoldsCompleteFiles
  <2>1. TypeInv /\ FileInv /\ EpochInv
    BY DEF LogInv
  <2>2. stored \in Nat /\ stored > 0 /\ n \in Nat /\ n <= stored
    BY <2>1 DEF TypeInv
  <2>3. NumFiles > 1
    <3>1. ASSUME NumFiles = 1
          PROVE  FALSE
      <4>1. (NumFiles - 1) * FileBlocks = 0
        BY <3>1, Sizes
      <4> QED BY <2>2, <4>1
    <3> QED BY <3>1, Sizes
  <2>4. RingInv /\ NumberInv
    BY <2>3 DEF LogInv
  <2>5. NoFileOverlong
    BY <2>4 DEF NumberInv, NoFileOverlong
  <2>6. CASE ~wrapped
    BY <2>1, <2>2, <2>3, <2>4, <2>5, <2>6, UnwrappedExport
  <2>7. CASE wrapped
    <3>1. PICK k \in 1 .. stored : DecodedNumbers = k .. stored /\ k <= card[tail][1].n
      BY <2>1, <2>3, <2>4, <2>5, <2>7, WrappedExport
    <3>2. head \in Indices /\ tail = FileAfter(head) /\ Full(tail)
      <4>1. head \in Indices /\ tail = FileAfter(head)
        BY <2>1, <2>7 DEF TypeInv, FileInv
      <4> QED BY <2>3, <2>7, <4>1, StepIs DEF Full, Live
    <3>3. FilesBehind(head, tail) = NumFiles - 1
      BY <2>3, <3>2, StepIs, BehindIs
    <3>4. card[tail][1].n + FilesBehind(head, tail) * FileBlocks = stored - fil.pos + 1
      BY <2>4, <3>2 DEF NumberInv, Full
    <3>5. card[tail][1].n \in Nat /\ fil.pos \in Nat
      BY <2>1, <2>4, <3>2, FullIs, TopType DEF RingInv, Full
    <3> DEFINE x == (NumFiles - 1) * FileBlocks
    <3>6. x \in Int
      BY Sizes, SMTT(20)
    <3>7. card[tail][1].n + x = stored - fil.pos + 1 /\ n + x > stored
      BY <3>3, <3>4
    <3> HIDE DEF x
    <3>8. k <= n
      BY <2>2, <3>1, <3>5, <3>6, <3>7
    <3> QED BY <2>2, <3>1, <3>8
  <2> QED BY <2>6, <2>7
<1> QED BY <1>1, LogFilesInvariant, PTL
=============================================================================
