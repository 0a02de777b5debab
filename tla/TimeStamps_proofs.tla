-------------------------- MODULE TimeStamps_proofs --------------------------
(***************************************************************************)
(* Proofs about TimeStamps: the sample of the time and the stamps of the    *)
(* frames, for every period of the timer and every watermark.               *)
(***************************************************************************)
EXTENDS TimeStamps, TLAPS

-----------------------------------------------------------------------------
(* Division by the period *)

LEMMA PeriodFacts == Period \in Nat /\ Period > 1
BY TimeAssumption

\* What \div and % of FDCAN_GetTimestampHook's and ReconstructFullTimestamp's
\* arithmetic return.
LEMMA Division ==
    ASSUME NEW n \in Int
    PROVE  /\ n \div Period \in Int
           /\ n % Period \in 0 .. Period - 1
           /\ n = Period * (n \div Period) + (n % Period)
BY PeriodFacts, SMTT(20)

\* Multiples of the period are a period apart.
LEMMA Multiples ==
    ASSUME NEW a \in Int, NEW b \in Int, a > b
    PROVE  Period * a >= Period * b + Period
<1>1. PICK k \in Nat : a = b + 1 + k
  <2>1. a - b - 1 \in Nat /\ a = b + 1 + (a - b - 1)
    BY SMT
  <2> QED BY <2>1
<1>2. Period * a = Period * b + Period + Period * k
  BY <1>1, PeriodFacts, SMTT(20)
<1>3. Period * k >= 0
  BY PeriodFacts, SMTT(20)
<1> QED BY <1>2, <1>3, PeriodFacts, SMTT(20)

\* A time a period earlier has the same remainder.
LEMMA SameRemainder ==
    ASSUME NEW n \in Int
    PROVE  (n - Period) % Period = n % Period
<1> DEFINE q == n \div Period
           r == n % Period
           q2 == (n - Period) \div Period
           r2 == (n - Period) % Period
<1>1. q \in Int /\ r \in 0 .. Period - 1 /\ n = Period * q + r
  BY Division
<1>2. n - Period \in Int
  BY PeriodFacts
<1>3. q2 \in Int /\ r2 \in 0 .. Period - 1 /\ n - Period = Period * q2 + r2
  BY <1>2, Division
<1>4. Period \in Int /\ Period * q \in Int /\ Period * q2 \in Int
  BY <1>1, <1>3, PeriodFacts
<1> HIDE DEF q, r, q2, r2
<1>5. ~(q > q2 + 1)
  <2>1. SUFFICES ASSUME q > q2 + 1 PROVE FALSE
    OBVIOUS
  <2>2. Period * q >= Period * (q2 + 1) + Period
    BY <2>1, <1>1, <1>3, Multiples
  <2>3. Period * (q2 + 1) = Period * q2 + Period
    BY <1>3, <1>4, SMT
  <2> QED BY <2>2, <2>3, <1>1, <1>3, <1>4, SMT
<1>6. ~(q2 >= q)
  <2>1. SUFFICES ASSUME q2 >= q PROVE FALSE
    OBVIOUS
  <2>2. Period * q2 >= Period * q
    <3>1. CASE q2 = q
      BY <3>1, <1>4, SMT
    <3>2. CASE q2 > q
      BY <3>2, Multiples, <1>1, <1>3, <1>4, PeriodFacts, SMT
    <3> QED BY <3>1, <3>2, <2>1, <1>1, <1>3, SMT
  <2> QED BY <2>2, <1>1, <1>3, <1>4, PeriodFacts, SMT
<1>7. q = q2 + 1
  BY <1>5, <1>6, <1>1, <1>3, SMT
<1>8. Period * q = Period * q2 + Period
  BY <1>7, <1>3, <1>4, SMT
<1>9. r = r2
  BY <1>8, <1>1, <1>3, <1>4, SMT
<1> QED BY <1>9 DEF r, r2

\* The half period rounded up and the one rounded down.
LEMMA Halves ==
    /\ HalfPeriod \in Nat /\ Period \div 2 \in Nat
    /\ HalfPeriod + (Period \div 2) = Period
    /\ HalfPeriod - (Period \div 2) \in {0, 1}
BY PeriodFacts, SMTT(20) DEF HalfPeriod

\* The comparison of the captured counter with the timer's finds the period a
\* frame arrived in if it arrived less than half a period before or after the
\* sample (ReconstructFullTimestamp, before its correction).
LEMMA NearestIsArrival ==
    ASSUME NEW t \in Int, NEW g \in Int, t - g < HalfPeriod, g - t < HalfPeriod
    PROVE  Nearest(t % Period, g) = t
<1> DEFINE qt == t \div Period
           rt == t % Period
           qg == g \div Period
           rg == g % Period
           h == Period \div 2
<1>1. qt \in Int /\ rt \in 0 .. Period - 1 /\ t = Period * qt + rt
  BY Division
<1>2. qg \in Int /\ rg \in 0 .. Period - 1 /\ g = Period * qg + rg
  BY Division
<1>3. /\ HalfPeriod \in Nat /\ h \in Nat
      /\ HalfPeriod + h = Period
      /\ HalfPeriod - h \in {0, 1}
  BY Halves
<1>4. Period \in Nat /\ Period > 1 /\ Period * qt \in Int /\ Period * qg \in Int
  BY <1>1, <1>2, PeriodFacts
<1>5. Nearest(rt, g) = rt + Period * (IF rt - rg > h THEN qg - 1
                                     ELSE IF rt - rg < -h THEN qg + 1 ELSE qg)
  BY DEF Nearest
<1> HIDE DEF qt, rt, qg, rg, h
<1>6. ~(qt > qg + 1)
  <2>1. SUFFICES ASSUME qt > qg + 1 PROVE FALSE
    OBVIOUS
  <2>2. Period * qt >= Period * (qg + 1) + Period
    BY <2>1, <1>1, <1>2, Multiples
  <2>3. Period * (qg + 1) = Period * qg + Period
    BY <1>2, <1>4, SMT
  <2> QED BY <2>2, <2>3, <1>1, <1>2, <1>3, <1>4, SMT
<1>7. ~(qg > qt + 1)
  <2>1. SUFFICES ASSUME qg > qt + 1 PROVE FALSE
    OBVIOUS
  <2>2. Period * qg >= Period * (qt + 1) + Period
    BY <2>1, <1>1, <1>2, Multiples
  <2>3. Period * (qt + 1) = Period * qt + Period
    BY <1>1, <1>4, SMT
  <2> QED BY <2>2, <2>3, <1>1, <1>2, <1>3, <1>4, SMT
<1>8. CASE qt = qg
  <2>1. Period * qt = Period * qg
    BY <1>8
  <2>2. ~(rt - rg > h) /\ ~(rt - rg < -h)
    BY <2>1, <1>1, <1>2, <1>3, <1>4, SMT
  <2>3. Nearest(rt, g) = rt + Period * qg
    BY <2>2, <1>5
  <2> QED BY <2>1, <2>3, <1>1, <1>4, SMT DEF rt
<1>9. CASE qt = qg - 1
  <2>1. Period * qt = Period * qg - Period
    BY <1>9, <1>2, <1>4, SMT
  <2>2. rt - rg > h
    BY <2>1, <1>1, <1>2, <1>3, <1>4, SMT
  <2>3. Nearest(rt, g) = rt + Period * qt
    BY <2>2, <1>5, <1>9
  <2> QED BY <2>3, <1>1, <1>4, SMT DEF rt
<1>10. CASE qt = qg + 1
  <2>1. Period * qt = Period * qg + Period
    BY <1>10, <1>2, <1>4, SMT
  <2>2. rt - rg < -h
    BY <2>1, <1>1, <1>2, <1>3, <1>4, SMT
  <2>3. ~(rt - rg > h)
    BY <2>2, <1>1, <1>2, <1>3, SMT
  <2>4. Nearest(rt, g) = rt + Period * qt
    BY <2>2, <2>3, <1>5, <1>10
  <2> QED BY <2>4, <1>1, <1>4, SMT DEF rt
<1> QED BY <1>6, <1>7, <1>8, <1>9, <1>10, <1>1, <1>2, SMT

\* Where the sample is a period early, so is the time it makes of a frame.
LEMMA NearestOfEarlySample ==
    ASSUME NEW t \in Int, NEW g \in Int,
           t - (g + Period) < HalfPeriod, (g + Period) - t < HalfPeriod
    PROVE  Nearest(t % Period, g) = t - Period
<1>1. Period \in Nat /\ t - Period \in Int /\ HalfPeriod \in Nat
  BY PeriodFacts, Halves
<1>2. (t - Period) - g < HalfPeriod /\ g - (t - Period) < HalfPeriod
  BY <1>1, SMT
<1>3. Nearest((t - Period) % Period, g) = t - Period
  BY <1>1, <1>2, NearestIsArrival
<1> QED BY <1>3, SameRemainder


\* The stamp is never further from the sample than half a period.
LEMMA NearestToSample ==
    ASSUME NEW hw \in 0 .. Period - 1, NEW g \in Int
    PROVE  /\ Nearest(hw, g) \in Int
           /\ Nearest(hw, g) - g <= Period \div 2
           /\ g - Nearest(hw, g) <= Period \div 2
<1> DEFINE q == g \div Period
           r == g % Period
           h == Period \div 2
<1>1. q \in Int /\ r \in 0 .. Period - 1 /\ g = Period * q + r
  BY Division
<1>2. h \in Nat /\ HalfPeriod \in Nat /\ HalfPeriod + h = Period /\ HalfPeriod - h \in {0, 1}
  BY Halves
<1>3. Nearest(hw, g) = hw + Period * (IF hw - r > h THEN q - 1
                                      ELSE IF hw - r < -h THEN q + 1 ELSE q)
  BY DEF Nearest
<1>4. Period \in Nat /\ hw \in Int /\ Period * q \in Int
  BY <1>1, PeriodFacts
<1> HIDE DEF q, r, h
<1>5. CASE hw - r > h
  <2>1. Period * (q - 1) = Period * q - Period
    BY <1>1, <1>4, SMT
  <2>2. Nearest(hw, g) = hw + (Period * q - Period)
    BY <1>3, <1>5, <2>1
  <2> QED BY <2>2, <1>1, <1>2, <1>4, <1>5, SMT DEF h
<1>6. CASE hw - r < -h
  <2>1. Period * (q + 1) = Period * q + Period
    BY <1>1, <1>4, SMT
  <2>2. ~(hw - r > h)
    BY <1>1, <1>2, <1>4, <1>6, SMT
  <2>3. Nearest(hw, g) = hw + (Period * q + Period)
    BY <1>3, <1>6, <2>1, <2>2
  <2> QED BY <2>3, <1>1, <1>2, <1>4, <1>6, SMT DEF h
<1>7. CASE ~(hw - r > h) /\ ~(hw - r < -h)
  <2>1. Nearest(hw, g) = hw + Period * q
    BY <1>3, <1>7
  <2> QED BY <2>1, <1>1, <1>2, <1>4, <1>7, SMT DEF h
<1> QED BY <1>5, <1>6, <1>7

\* The monotonic correction of ReconstructFullTimestamp never acts, whatever the
\* last stamp: it asks for one that is not after the sample and more than half a
\* period after the new stamp, which is at most half a period before the sample.
THEOREM CorrectionNeverActs ==
    ASSUME NEW hw \in 0 .. Period - 1, NEW g \in Int, NEW previous \in Int
    PROVE  ReconstructFullTimestamp(hw, g, previous) = Nearest(hw, g)
<1> DEFINE r == Nearest(hw, g)
           h == Period \div 2
<1>1. r \in Int /\ g - r <= h /\ h \in Nat
  BY NearestToSample, Halves
<1>2. Corrected(r, g, previous) =
        IF 0 < previous /\ previous <= g /\ g - previous <= 2 * Period /\ previous - (r + h) > 0
        THEN r + (((previous - (r + h)) + Period - 1) \div Period) * Period
        ELSE r
  BY DEF Corrected
<1>3. ReconstructFullTimestamp(hw, g, previous) = Corrected(r, g, previous)
  BY DEF ReconstructFullTimestamp
<1> HIDE DEF r, h
<1>4. ~(previous <= g /\ previous - (r + h) > 0)
  BY <1>1, SMT
<1> QED BY <1>2, <1>3, <1>4 DEF r

-----------------------------------------------------------------------------
(* The invariant *)

\* The types that the arithmetic needs.
Types ==
    /\ epoch \in Nat /\ cnt \in 0 .. Period - 1 /\ uif \in BOOLEAN /\ Time \in Int
    /\ fifo \in [Channels -> Seq(Int)] /\ irq \in {0, 1, 2} /\ reading \in {0, 1, 2}
    /\ global \in [Channels -> Int] /\ sampledAt \in [Channels -> Int]
    /\ raced \in [Channels -> BOOLEAN] /\ last \in [Channels -> Int]

\* Time lacks the period whose end its interrupt has not come to yet.
TimeInv ==
    /\ ~(uif /\ timer = "cleared")
    /\ Time + (IF uif \/ timer = "cleared" THEN Period ELSE 0) = epoch * Period

\* A controller's own interrupt has a fresh sample, and no frame is of the future.
LatencyInv ==
    /\ irq # 0 => Now - sampledAt[irq] < HalfPeriod
    /\ \A c \in Channels : \A i \in 1 .. Len(fifo[c]) : fifo[c][i] <= Now

IInv == Types /\ TimeInv /\ LatencyInv /\ SampleExact

LEMMA NowInt == Types => Now \in Int /\ epoch * Period \in Int
BY PeriodFacts, SMT DEF Types, Now

LEMMA InitInv == Init => IInv
<1> SUFFICES ASSUME Init PROVE IInv
  OBVIOUS
<1>1. epoch * Period = 0 /\ Now = 0
  BY PeriodFacts, SMT DEF Init, Now
<1>2. Types
  <2>1. 0 \in 0 .. Period - 1 /\ 0 \in Nat /\ 0 \in Int /\ <<>> \in Seq(Int)
    BY PeriodFacts, SMT
  <2> QED BY <2>1 DEF Init, Types
<1>3. TimeInv
  BY <1>1 DEF Init, TimeInv
<1>4. LatencyInv
  <2>1. \A c \in Channels : Len(fifo[c]) = 0
    BY DEF Init
  <2>2. \A c \in Channels : 1 .. Len(fifo[c]) = {}
    BY <2>1, SMT
  <2> QED BY <2>2 DEF Init, LatencyInv
<1>5. SampleExact
  BY SMT DEF Init, SampleExact, Shortfall
<1> QED BY <1>2, <1>3, <1>4, <1>5 DEF IInv

\* Time passes by one.
LEMMA TickTime == Types /\ Tick => Types' /\ Now' = Now + 1
<1> SUFFICES ASSUME Types, Tick PROVE Types' /\ Now' = Now + 1
  OBVIOUS
<1>0. UNCHANGED <<Time, fifo, irq, reading, global, sampledAt, raced, last>>
  BY DEF Tick, hwVars, irqVars, sampleVars
<1>1. CASE cnt + 1 < Period
  <2>1. cnt' = cnt + 1 /\ epoch' = epoch /\ uif' = uif
    BY <1>1 DEF Tick
  <2>2. cnt' \in 0 .. Period - 1 /\ Now' = Now + 1
    BY <1>1, <2>1, PeriodFacts, NowInt, SMT DEF Types, Now
  <2> QED BY <1>0, <2>1, <2>2 DEF Types
<1>2. CASE ~(cnt + 1 < Period)
  <2>1. cnt' = 0 /\ epoch' = epoch + 1 /\ uif' = TRUE /\ cnt = Period - 1
    BY <1>2, PeriodFacts, SMT DEF Types, Tick
  <2>2. (epoch + 1) * Period = epoch * Period + Period
    BY PeriodFacts, SMT DEF Types
  <2>3. cnt' \in 0 .. Period - 1 /\ epoch' \in Nat /\ Now' = Now + 1
    BY <2>1, <2>2, PeriodFacts, NowInt, SMT DEF Types, Now
  <2> QED BY <1>0, <2>1, <2>3 DEF Types
<1> QED BY <1>1, <1>2

LEMMA TickInv == IInv /\ Tick => IInv'
<1> SUFFICES ASSUME IInv, Tick PROVE IInv'
  OBVIOUS
<1>1. Types /\ Types' /\ Now' = Now + 1 /\ Now \in Int
  BY TickTime, NowInt DEF IInv
<1>2. UNCHANGED <<timer, Time, fifo, irq, sampledAt, global, raced>>
  BY DEF Tick, hwVars, irqVars, sampleVars
<1>3. TimeInv'
  <2>1. CASE cnt + 1 < Period
    BY <1>2, <2>1 DEF IInv, TimeInv, Tick
  <2>2. CASE ~(cnt + 1 < Period)
    <3>1. epoch' = epoch + 1 /\ uif' = TRUE /\ ~uif /\ timer # "cleared"
      BY <2>2 DEF Tick
    <3>2. (epoch + 1) * Period = epoch * Period + Period
      BY <1>1, PeriodFacts, SMT DEF Types
    <3>3. Time + 0 = epoch * Period /\ Time \in Int
      BY <3>1 DEF IInv, TimeInv, Types
    <3>4. Time' + Period = epoch' * Period
      BY <1>2, <3>1, <3>2, <3>3, PeriodFacts, SMT
    <3> QED BY <1>2, <3>1, <3>4 DEF TimeInv
  <2> QED BY <2>1, <2>2
<1>4. LatencyInv'
  <2>1. irq' # 0 => Now' - sampledAt'[irq'] < HalfPeriod
    <3>1. irq # 0 => Now + 1 - sampledAt[irq] < HalfPeriod
      BY DEF Tick
    <3>2. irq' = irq /\ sampledAt'[irq'] = sampledAt[irq]
      BY <1>2
    <3>3. Now' = Now + 1
      BY <1>1
    <3>4. irq # 0 => irq \in Channels
      BY <1>1 DEF Types, Channels
    <3>5. irq # 0 => sampledAt[irq] \in Int
      BY <1>1, <3>4 DEF Types
    <3> DEFINE a == sampledAt[irq]
               b == sampledAt'[irq']
               n == Now'
    <3>6. b = a /\ n = Now + 1 /\ (irq # 0 => a \in Int /\ Now + 1 - a < HalfPeriod)
      BY <3>1, <3>2, <3>3, <3>5
    <3> HIDE DEF a, b, n
    <3>7. irq # 0 => n - b < HalfPeriod
      BY <1>1, <3>6, Halves, SMT
    <3> QED BY <3>2, <3>7 DEF b, n
  <2>2. ASSUME NEW c \in Channels, NEW i \in 1 .. Len(fifo'[c])
        PROVE  fifo'[c][i] <= Now'
    <3>1. fifo'[c] = fifo[c] /\ fifo[c] \in Seq(Int) /\ i \in 1 .. Len(fifo[c])
      BY <1>1, <1>2 DEF Types
    <3>2. fifo[c][i] \in Int /\ fifo[c][i] <= Now
      BY <3>1 DEF IInv, LatencyInv
    <3> QED BY <1>1, <3>1, <3>2, SMT
  <2> QED BY <2>1, <2>2 DEF LatencyInv
<1>5. SampleExact'
  BY <1>2 DEF IInv, SampleExact, Shortfall
<1> QED BY <1>1, <1>3, <1>4, <1>5 DEF IInv

LEMMA ArriveInv == ASSUME IInv, NEW c \in Channels, Arrive(c) PROVE IInv'
<1>1. /\ UNCHANGED <<epoch, cnt, uif, timer, Time, irq, reading, sampledAt, global, raced, last>>
      /\ Now' = Now
  BY DEF Arrive, timerVars, irqVars, sampleVars, Now
<1>2. Types /\ Now \in Int
  BY NowInt DEF IInv
<1>3. TimeInv' /\ SampleExact'
  BY <1>1 DEF IInv, TimeInv, SampleExact, Shortfall
<1>4. CASE fifo' = fifo
  BY <1>1, <1>3, <1>4 DEF IInv, Types, LatencyInv
<1>5. CASE fifo' = [fifo EXCEPT ![c] = Append(@, Now)]
  <2>1. fifo' \in [Channels -> Seq(Int)]
    BY <1>2, <1>5 DEF Types
  <2>2. ASSUME NEW d \in Channels, NEW i \in 1 .. Len(fifo'[d])
        PROVE  fifo'[d][i] <= Now'
    <3>1. fifo[d] \in Seq(Int)
      BY <1>2 DEF Types
    <3>2. CASE d # c
      <4>1. fifo'[d] = fifo[d]
        BY <1>2, <1>5, <3>2 DEF Types
      <4> QED BY <1>1, <4>1 DEF IInv, LatencyInv
    <3>3. CASE d = c
      <4>1. fifo'[d] = Append(fifo[d], Now)
        BY <1>2, <1>5, <3>3 DEF Types
      <4>2. CASE i = Len(fifo[d]) + 1
        BY <1>1, <1>2, <3>1, <4>1, <4>2, SMT
      <4>3. CASE i # Len(fifo[d]) + 1
        <5>1. i \in 1 .. Len(fifo[d]) /\ fifo'[d][i] = fifo[d][i]
          BY <1>2, <3>1, <4>1, <4>3, SMT
        <5> QED BY <1>1, <5>1 DEF IInv, LatencyInv
      <4> QED BY <4>2, <4>3
    <3> QED BY <3>2, <3>3
  <2>3. LatencyInv'
    BY <1>1, <2>2 DEF IInv, LatencyInv
  <2> QED BY <1>1, <1>2, <1>3, <2>1, <2>3 DEF IInv, Types
<1> QED BY <1>4, <1>5 DEF Arrive

LEMMA SampleInv == ASSUME IInv, NEW c \in Channels, Sample(c) PROVE IInv'
<1>1. /\ Types /\ Now \in Int /\ Period \in Nat /\ HalfPeriod \in Nat /\ HalfPeriod > 0
      /\ epoch * Period \in Int
  BY NowInt, PeriodFacts, SMTT(20) DEF IInv, HalfPeriod
<1>2. UNCHANGED <<epoch, cnt, uif, timer, Time, fifo, reading, last>> /\ Now' = Now
  BY DEF Sample, timerVars, hwVars, Now
<1>3. /\ irq' = c
      /\ global' = [global EXCEPT ![c] = Time + cnt + (IF uif THEN Period ELSE 0)]
      /\ sampledAt' = [sampledAt EXCEPT ![c] = Now]
      /\ raced' = [raced EXCEPT ![c] = timer = "cleared"]
  BY DEF Sample
<1>4. Types'
  <2>1. Time + cnt + (IF uif THEN Period ELSE 0) \in Int
    BY <1>1, SMT DEF Types
  <2>2. irq' \in {0, 1, 2}
    BY <1>3 DEF Channels
  <2> QED BY <1>1, <1>2, <1>3, <2>1, <2>2 DEF Types
<1>5. SampleExact'
  <2>1. SUFFICES ASSUME NEW d \in Channels
                 PROVE  sampledAt'[d] = global'[d] + (IF raced'[d] THEN Period ELSE 0)
    BY DEF SampleExact, Shortfall
  <2>2. CASE d # c
    <3>1. sampledAt'[d] = sampledAt[d] /\ global'[d] = global[d] /\ raced'[d] = raced[d]
      BY <1>1, <1>3, <2>2 DEF Types
    <3> QED BY <3>1 DEF IInv, SampleExact, Shortfall
  <2>3. CASE d = c
    <3> DEFINE s == epoch * Period
               clear == timer = "cleared"
    <3>1. /\ sampledAt'[d] = Now /\ raced'[d] = clear
          /\ global'[d] = Time + cnt + (IF uif THEN Period ELSE 0)
      BY <1>1, <1>3, <2>3 DEF Types
    <3>2. Now = s + cnt /\ s \in Int /\ Time \in Int /\ cnt \in Int
      BY <1>1 DEF Now, Types
    <3>3. ~(uif /\ clear) /\ Time + (IF uif \/ clear THEN Period ELSE 0) = s
      BY DEF IInv, TimeInv
    <3>4. uif \in BOOLEAN /\ clear \in BOOLEAN
      BY <1>1 DEF Types
    <3> HIDE DEF s, clear
    <3>5. CASE clear
      <4>1. ~uif /\ Time + Period = s
        BY <3>3, <3>5
      <4>2. global'[d] = Time + cnt + 0
        BY <3>1, <4>1
      <4>3. sampledAt'[d] = global'[d] + Period
        BY <1>1, <3>1, <3>2, <4>1, <4>2, SMT
      <4> QED BY <3>1, <3>5, <4>3
    <3>6. CASE ~clear
      <4>1. Time + (IF uif THEN Period ELSE 0) = s
        BY <3>3, <3>6
      <4>2. sampledAt'[d] = global'[d] + 0
        BY <1>1, <3>1, <3>2, <4>1, SMT
      <4> QED BY <3>1, <3>6, <4>2
    <3> QED BY <3>5, <3>6
  <2> QED BY <2>2, <2>3
<1>6. TimeInv'
  BY <1>2 DEF IInv, TimeInv
<1>7. LatencyInv'
  <2>1. sampledAt'[irq'] = Now
    BY <1>1, <1>3 DEF Types
  <2>2. Now' - sampledAt'[irq'] < HalfPeriod
    BY <1>1, <1>2, <2>1, SMT
  <2> QED BY <1>2, <2>2 DEF IInv, LatencyInv
<1> QED BY <1>4, <1>5, <1>6, <1>7 DEF IInv

\* What ReconstructFullTimestamp makes of the frame that is read.
LEMMA StampOfFrame ==
    ASSUME IInv, ReadFrame
    PROVE  /\ reading \in Channels /\ fifo[reading] \in Seq(Int) /\ fifo[reading] # <<>>
           /\ Head(fifo[reading]) \in Int /\ Head(fifo[reading]) <= Now
           /\ fifo' = [fifo EXCEPT ![reading] = Tail(@)]
           /\ last' = [last EXCEPT ![reading] =
                         Nearest(Head(fifo[reading]) % Period, global[reading])]
           /\ last' \in [Channels -> Int]
<1>1. Types
  BY DEF IInv
<1>2. reading \in Channels /\ fifo[reading] # <<>>
  BY <1>1 DEF ReadFrame, Types, Channels
<1>3. fifo[reading] \in Seq(Int) /\ global[reading] \in Int /\ last[reading] \in Int
  BY <1>1, <1>2 DEF Types
<1>4. Head(fifo[reading]) = fifo[reading][1] /\ 1 \in 1 .. Len(fifo[reading])
      /\ Head(fifo[reading]) \in Int
  BY <1>2, <1>3, SMT
<1>5. Head(fifo[reading]) <= Now
  BY <1>2, <1>4 DEF IInv, LatencyInv
<1>6. Head(fifo[reading]) % Period \in 0 .. Period - 1
  BY <1>4, Division
<1>7. /\ ReconstructFullTimestamp(Head(fifo[reading]) % Period, global[reading], last[reading])
         = Nearest(Head(fifo[reading]) % Period, global[reading])
      /\ Nearest(Head(fifo[reading]) % Period, global[reading]) \in Int
  BY <1>3, <1>6, CorrectionNeverActs, NearestToSample
<1>8. last' = [last EXCEPT ![reading] =
                 Nearest(Head(fifo[reading]) % Period, global[reading])]
  BY <1>1, <1>7 DEF ReadFrame, Types
<1> QED BY <1>1, <1>2, <1>3, <1>4, <1>5, <1>7, <1>8 DEF ReadFrame, Types

LEMMA ReadFrameInv == IInv /\ ReadFrame => IInv'
<1> SUFFICES ASSUME IInv, ReadFrame PROVE IInv'
  OBVIOUS
<1>1. /\ UNCHANGED <<epoch, cnt, uif, timer, Time, irq, reading, global, sampledAt, raced>>
      /\ Now' = Now
  BY DEF ReadFrame, timerVars, sampleVars, Now
<1>2. /\ reading \in Channels /\ fifo[reading] \in Seq(Int) /\ fifo[reading] # <<>>
      /\ fifo' = [fifo EXCEPT ![reading] = Tail(@)] /\ last' \in [Channels -> Int]
  BY StampOfFrame
<1>3. Tail(fifo[reading]) \in Seq(Int)
  BY <1>2, SMT
<1>4. Types'
  BY <1>1, <1>2, <1>3 DEF IInv, Types
<1>5. TimeInv' /\ SampleExact'
  BY <1>1 DEF IInv, TimeInv, SampleExact, Shortfall
<1>6. ASSUME NEW c \in Channels, NEW i \in 1 .. Len(fifo'[c])
      PROVE  fifo'[c][i] <= Now'
  <2>1. CASE c # reading
    <3>1. fifo'[c] = fifo[c]
      BY <1>2, <2>1 DEF IInv, Types
    <3> QED BY <1>1, <3>1 DEF IInv, LatencyInv
  <2>2. CASE c = reading
    <3>1. fifo'[c] = Tail(fifo[c])
      BY <1>2, <2>2 DEF IInv, Types
    <3> DEFINE s == fifo[c]
    <3>2. s \in Seq(Int) /\ s # <<>> /\ i \in 1 .. Len(Tail(s))
      BY <1>2, <2>2, <3>1
    <3> HIDE DEF s
    <3>3. i + 1 \in 1 .. Len(s) /\ Tail(s)[i] = s[i + 1]
      BY <3>2, SMT
    <3>4. i + 1 \in 1 .. Len(fifo[c]) /\ fifo'[c][i] = fifo[c][i + 1]
      BY <3>1, <3>3 DEF s
    <3> QED BY <1>1, <3>4 DEF IInv, LatencyInv
  <2> QED BY <2>1, <2>2
<1>7. LatencyInv'
  BY <1>1, <1>6 DEF IInv, LatencyInv
<1> QED BY <1>4, <1>5, <1>7 DEF IInv

\* The steps of the timer's interrupt and the ends of an FDCAN interrupt.
OtherStep ==
    \/ TimerClears \/ TimerAdds \/ PollLooks \/ PollFindsFrames \/ PollPends
    \/ CallBack \/ NextController \/ Leave \/ UNCHANGED vars

\* They leave the time and the samples alone, and no frame comes or goes.
LEMMA OtherFrame ==
    OtherStep => /\ UNCHANGED <<epoch, cnt, fifo, global, sampledAt, raced, last>>
                 /\ Now' = Now
BY DEF OtherStep, TimerClears, TimerAdds, PollLooks, PollFindsFrames, PollPends, CallBack,
       NextController, Leave, vars, timerVars, hwVars, irqVars, sampleVars, Now

LEMMA OtherInv == IInv /\ OtherStep => IInv'
<1> SUFFICES ASSUME IInv, OtherStep PROVE IInv'
  OBVIOUS
<1>1. Types /\ Period \in Nat /\ epoch * Period \in Int
  BY NowInt, PeriodFacts DEF IInv
<1>2. UNCHANGED <<epoch, cnt, fifo, global, sampledAt, raced, last>> /\ Now' = Now
  BY OtherFrame
<1>3. irq' \in {irq, 0} /\ reading' \in {0, 1, 2}
  BY <1>1 DEF OtherStep, TimerClears, TimerAdds, PollLooks, PollFindsFrames, PollPends, CallBack,
              NextController, Leave, vars, irqVars, Types
<1>4. TimeInv' /\ uif' \in BOOLEAN /\ Time' \in Int
  <2>1. CASE TimerClears
    <3>1. uif /\ ~uif' /\ timer' = "cleared" /\ Time' = Time
      BY <2>1 DEF TimerClears
    <3>2. Time + Period = epoch * Period
      BY <3>1 DEF IInv, TimeInv
    <3>3. Time' + Period = epoch' * Period
      BY <1>2, <3>1, <3>2
    <3>4. uif' = FALSE /\ Time' \in Int
      BY <1>1, <2>1, <3>1 DEF TimerClears, Types
    <3>5. TimeInv'
      BY <3>1, <3>3 DEF TimeInv
    <3> QED BY <3>4, <3>5
  <2>2. CASE TimerAdds
    <3>1. timer = "cleared" /\ timer' # "cleared" /\ Time' = Time + Period /\ uif' = uif
      BY <2>2 DEF TimerAdds
    <3>2. ~uif /\ Time + Period = epoch * Period
      BY <3>1 DEF IInv, TimeInv
    <3>3. Time' \in Int /\ Time' + 0 = epoch' * Period
      BY <1>1, <1>2, <3>1, <3>2, SMT DEF Types
    <3> QED BY <1>1, <3>1, <3>2, <3>3 DEF TimeInv, Types
  <2>3. CASE ~TimerClears /\ ~TimerAdds
    <3>1. uif' = uif /\ Time' = Time /\ (timer' = "cleared" <=> timer = "cleared")
      BY <2>3 DEF OtherStep, PollLooks, PollFindsFrames, PollPends, CallBack,
                  NextController, Leave, vars, timerVars
    <3> QED BY <1>1, <1>2, <3>1 DEF IInv, TimeInv, Types
  <2> QED BY <2>1, <2>2, <2>3
<1>5. Types'
  BY <1>1, <1>2, <1>3, <1>4 DEF Types
<1>6. LatencyInv' /\ SampleExact'
  BY <1>2, <1>3 DEF IInv, LatencyInv, SampleExact, Shortfall
<1> QED BY <1>4, <1>5, <1>6 DEF IInv

\* The invariant holds in every reachable state.
LEMMA Invariant == Spec => []IInv
<1>1. IInv /\ [Next]_vars => IInv'
  BY TickInv, ArriveInv, SampleInv, ReadFrameInv, OtherInv DEF Next, OtherStep
<1> QED BY <1>1, InitInv, PTL DEF Spec

-----------------------------------------------------------------------------
(* The theorems *)

\* The time that an FDCAN interrupt samples for its controller is the time, or one
\* period early when it preempts the timer's interrupt between flag and addition.
THEOREM SampleIsExact == Spec => []SampleExact
BY Invariant, PTL DEF IInv

\* A frame leaves its FIFO in no step but ReadFrame.
LEMMA OnlyReadFrame ==
    ASSUME IInv, [Next]_vars, NEW c \in Channels, fifo[c] # <<>>, fifo'[c] = Tail(fifo[c])
    PROVE  ReadFrame /\ reading = c
<1>1. fifo[c] \in Seq(Int) /\ fifo \in [Channels -> Seq(Int)]
  BY DEF IInv, Types
<1>2. fifo'[c] # fifo[c]
  <2>1. Len(Tail(fifo[c])) = Len(fifo[c]) - 1 /\ Len(fifo[c]) \in Nat
    BY <1>1, SMT
  <2>2. Len(Tail(fifo[c])) # Len(fifo[c])
    BY <2>1, SMT
  <2> QED BY <2>2
<1>3. ASSUME NEW d \in Channels PROVE ~Arrive(d)
  <2>1. SUFFICES ASSUME Arrive(d) PROVE FALSE
    OBVIOUS
  <2>2. fifo' = [fifo EXCEPT ![d] = Append(@, Now)]
    BY <1>2, <2>1 DEF Arrive
  <2>3. d = c /\ fifo'[c] = Append(fifo[c], Now)
    BY <1>1, <1>2, <2>2
  <2>4. /\ Len(Tail(fifo[c])) = Len(fifo[c]) - 1 /\ Len(fifo[c]) \in Nat
        /\ Len(Append(fifo[c], Now)) = Len(fifo[c]) + 1
    BY <1>1, NowInt, SMT DEF IInv
  <2>5. Len(Tail(fifo[c])) # Len(Append(fifo[c], Now))
    BY <2>4, SMT
  <2> QED BY <2>3, <2>5
<1>4. ~OtherStep
  BY <1>2, OtherFrame
<1>5. ~Tick /\ \A d \in Channels : ~Sample(d)
  BY <1>2 DEF Tick, Sample, hwVars
<1>6. ReadFrame
  BY <1>3, <1>4, <1>5 DEF Next, OtherStep
<1>7. fifo' = [fifo EXCEPT ![reading] = Tail(@)]
  BY <1>6 DEF ReadFrame
<1> QED BY <1>1, <1>2, <1>6, <1>7

\* Reading a frame stamps it right, but for the sample's shortfall, if it came
\* within half a period of the last sample for its controller; early if it came
\* later, late if it came before; never early in its controller's own interrupt.
THEOREM StampsFollowSamples == Spec => StampFollowsSample
<1> DEFINE after(c) == Head(fifo[c]) - sampledAt[c]
           right(c) == Head(fifo[c]) - Shortfall(c)
           Stamped(c) == /\ after(c) < HalfPeriod /\ -after(c) < HalfPeriod => last'[c] = right(c)
                         /\ after(c) > Period \div 2 => last'[c] < right(c)
                         /\ -after(c) > Period \div 2 => last'[c] > right(c)
                         /\ irq = c => last'[c] >= right(c)
<1>1. ASSUME IInv, [Next]_vars, NEW c \in Channels, fifo[c] # <<>>, fifo'[c] = Tail(fifo[c])
      PROVE  Stamped(c)
  <2> DEFINE t == Head(fifo[c])
             g == global[c]
             s == Shortfall(c)
             x == Nearest(t % Period, g)
             h == Period \div 2
  <2>1. ReadFrame /\ reading = c
    BY <1>1, OnlyReadFrame
  <2>2. t \in Int /\ t <= Now /\ Now \in Int /\ last'[c] = x
    BY <1>1, <2>1, StampOfFrame, NowInt DEF IInv, Types
  <2>3. g \in Int /\ Period \in Nat /\ raced[c] \in BOOLEAN /\ sampledAt[c] \in Int
    BY <1>1, PeriodFacts DEF IInv, Types
  <2>4. s \in Int /\ sampledAt[c] = g + s /\ (s = 0 \/ s = Period)
    BY <1>1, <2>3 DEF IInv, SampleExact, Shortfall
  <2>5. x \in Int /\ x - g <= h /\ g - x <= h
    BY <2>2, <2>3, Division, NearestToSample
  <2>6. HalfPeriod \in Nat /\ h \in Nat /\ HalfPeriod - h \in {0, 1}
    BY Halves
  <2>7. irq = c => Now - sampledAt[c] < HalfPeriod
    BY <1>1 DEF IInv, LatencyInv, Channels
  <2>8. t - sampledAt[c] < HalfPeriod /\ -(t - sampledAt[c]) < HalfPeriod => x = t - s
    <3>1. SUFFICES ASSUME t - sampledAt[c] < HalfPeriod, -(t - sampledAt[c]) < HalfPeriod
                   PROVE  x = t - s
      OBVIOUS
    <3>2. CASE s = 0
      <4>1. t - g < HalfPeriod /\ g - t < HalfPeriod
        BY <2>2, <2>3, <2>4, <2>6, <3>1, <3>2, SMT
      <4>2. x = t
        BY <2>2, <2>3, <4>1, NearestIsArrival
      <4> QED BY <2>2, <3>2, <4>2, SMT
    <3>3. CASE s = Period
      <4>1. t - (g + Period) < HalfPeriod /\ (g + Period) - t < HalfPeriod
        BY <2>2, <2>3, <2>4, <2>6, <3>1, <3>3, SMT
      <4>2. x = t - Period
        BY <2>2, <2>3, <4>1, NearestOfEarlySample
      <4> QED BY <3>3, <4>2
    <3> QED BY <2>4, <3>2, <3>3
  <2> HIDE DEF t, g, s, x, h
  <2>9. t - sampledAt[c] > h => x < t - s
    BY <2>2, <2>3, <2>4, <2>5, <2>6, SMT
  <2>10. -(t - sampledAt[c]) > h => x > t - s
    BY <2>2, <2>3, <2>4, <2>5, <2>6, SMT
  <2>11. irq = c => x >= t - s
    BY <2>2, <2>3, <2>4, <2>5, <2>6, <2>7, <2>8, SMT
  <2> QED BY <2>2, <2>8, <2>9, <2>10, <2>11 DEF t, s, h
<1>2. IInv /\ [Next]_vars =>
        [\A c \in Channels : fifo[c] # <<>> /\ fifo'[c] = Tail(fifo[c]) => Stamped(c)]_vars
  BY <1>1
<1>3. Spec => [][\A c \in Channels : fifo[c] # <<>> /\ fifo'[c] = Tail(fifo[c]) => Stamped(c)]_vars
  <2> HIDE DEF Stamped
  <2> QED BY <1>2, Invariant, PTL DEF Spec
<1> QED BY <1>3 DEF StampFollowsSample
=============================================================================
