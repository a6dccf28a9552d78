-------------------------- MODULE BookmapFeed_proofs --------------------------
(***************************************************************************)
(* Bookmap's feed on the backend.  Of BookmapFlow: the rows of minutes     *)
(* whose closed bar was stored stay exact (FinalOrderFlow), the open       *)
(* minute on a quiet chart is what the bridge counted (QuietChartIsExact), *)
(* and bars stored as closed are complete (ClosedBarsComplete).  Of        *)
(* SourceArbitration, which decides when the feed has the chart: one task  *)
(* at a time writes the derived rows, for the source on the chart.         *)
(***************************************************************************)
EXTENDS BookmapFlow, SourceArbitration, FiniteSetTheorems, SequenceTheorems, TLAPS

(* ------------------------------- buckets -------------------------------- *)

LEMMA BucketBelow ==
  ASSUME NEW m \in Nat, NEW tf \in Nat \ {0}
  PROVE  Bucket(m, tf) \in Nat /\ Bucket(m, tf) <= m
<1> DEFINE q == m \div tf
<1>1. q \in Nat /\ m % tf \in 0 .. tf - 1 /\ m = tf * q + (m % tf)
  OBVIOUS
<1> HIDE DEF q
<1>2. q * tf \in Nat /\ q * tf = tf * q
  BY <1>1
<1> QED
  BY <1>1, <1>2 DEF Bucket, q

LEMMA BucketGrows ==
  ASSUME NEW m \in Nat, NEW n \in Nat, NEW tf \in Nat \ {0}, m <= n
  PROVE  Bucket(m, tf) <= Bucket(n, tf)
<1> DEFINE q == m \div tf
           r == n \div tf
<1>1. q \in Nat /\ m % tf \in 0 .. tf - 1 /\ m = tf * q + (m % tf)
  OBVIOUS
<1>2. r \in Nat /\ n % tf \in 0 .. tf - 1 /\ n = tf * r + (n % tf)
  OBVIOUS
<1> HIDE DEF q, r
<1>3. tf * q <= m /\ n < tf * r + tf
  BY <1>1, <1>2
<1>4. q <= r
  <2> SUFFICES ASSUME q >= r + 1 PROVE FALSE
    BY <1>1, <1>2
  <2>1. tf * q >= tf * (r + 1)
    BY <1>1, <1>2
  <2>2. tf * (r + 1) = tf * r + tf
    BY <1>2
  <2> QED
    BY <1>1, <1>2, <1>3, <2>1, <2>2
<1>5. q * tf <= r * tf
  BY <1>1, <1>2, <1>4
<1> QED
  BY <1>5 DEF Bucket, q, r

LEMMA BucketOfOne ==
  ASSUME NEW m \in Nat
  PROVE  Bucket(m, 1) = m
BY DEF Bucket

(* Buckets of the session's minutes, in the form the proofs use. *)
LEMMA Buckets ==
  /\ Minutes \subseteq Nat
  /\ Timeframes \subseteq Nat \ {0} /\ 1 \in Timeframes
  /\ \A m \in Minutes, tf \in Timeframes :
       Bucket(m, tf) \in Minutes /\ Bucket(m, tf) <= m
  /\ \A m, n \in Nat, tf \in Timeframes : m <= n => Bucket(m, tf) <= Bucket(n, tf)
  /\ \A m \in Nat : Bucket(m, 1) = m
<1>1. Minutes \subseteq Nat /\ Timeframes \subseteq Nat \ {0} /\ 1 \in Timeframes
  BY EnginesAssumption
<1>2. ASSUME NEW m \in Minutes, NEW tf \in Timeframes
      PROVE  Bucket(m, tf) \in Minutes /\ Bucket(m, tf) <= m
  <2>1. m \in Nat /\ tf \in Nat \ {0} /\ 0 .. m \subseteq Minutes
    BY EnginesAssumption
  <2>2. Bucket(m, tf) \in Nat /\ Bucket(m, tf) <= m
    BY <2>1, BucketBelow
  <2> QED
    BY <2>1, <2>2
<1>3. \A m, n \in Nat, tf \in Timeframes : m <= n => Bucket(m, tf) <= Bucket(n, tf)
  BY <1>1, BucketGrows
<1> QED
  BY <1>1, <1>2, <1>3, BucketOfOne

(* -------------------------------- sums ---------------------------------- *)

LEMMA SumOfOne ==
  ASSUME NEW k, NEW n \in Nat
  PROVE  SumFunction([m \in {k} |-> n]) = n
<1> DEFINE f == [m \in {k} |-> n]
           D == DOMAIN f
           pick(s) == CHOOSE x \in s : TRUE
           Sums(g) == g = [s \in SUBSET {k} |->
                        IF s = {} THEN 0 ELSE f[pick(s)] + g[s \ {pick(s)}]]
           g0 == [s \in SUBSET {k} |-> IF s = {} THEN 0 ELSE n]
<1>0. D = {k} /\ f[k] = n
  OBVIOUS
<1>1. SumFunction(f) = (CHOOSE g : Sums(g))[{k}]
  BY <1>0 DEF SumFunction, SumFunctionOnSet, FoldFunctionOnSet, MapThenFoldSet
<1>2. ASSUME NEW s \in SUBSET {k}, s # {} PROVE s = {k} /\ pick(s) = k /\ s \ {pick(s)} = {}
  <2>1. s = {k}
    BY <1>2
  <2>2. pick(s) \in s
    BY <1>2
  <2> QED
    BY <2>1, <2>2
<1>3. Sums(g0)
  <2>1. ASSUME NEW s \in SUBSET {k}
        PROVE  g0[s] = IF s = {} THEN 0 ELSE f[pick(s)] + g0[s \ {pick(s)}]
    BY <1>0, <1>2, <2>1
  <2> QED
    BY <2>1
<1>4. Sums(CHOOSE g : Sums(g))
  <2> HIDE DEF Sums
  <2> QED
    BY <1>3
<1> DEFINE h == CHOOSE g : Sums(g)
<1>5. h[{k}] = f[pick({k})] + h[{k} \ {pick({k})}] /\ h[{}] = 0
  <2> HIDE DEF h, f, pick
  <2>1. h = [s \in SUBSET {k} |-> IF s = {} THEN 0 ELSE f[pick(s)] + h[s \ {pick(s)}]]
    BY <1>4 DEF h
  <2> QED
    BY <2>1
<1>6. h[{k}] = n
  <2> HIDE DEF h, f, pick
  <2>1. pick({k}) = k /\ {k} \ {pick({k})} = {}
    BY <1>2
  <2> QED
    BY <1>0, <1>5, <2>1
<1> QED
  BY <1>1, <1>6

(* ------------------------------- the queue ------------------------------ *)

Frame == [type : {"trade", "bar"}, time : Minutes, count : Nat, closed : BOOLEAN,
          partial : BOOLEAN, upto : Nat]
IsBar(f) == f.type = "bar"

(* The queue loses d frames in front and gains those of add behind. *)
Shifts(d, add) ==
  /\ d \in Nat /\ add \in Seq(Frame) /\ queue' \in Seq(Frame)
  /\ d <= Len(queue) + Len(add)
  /\ Len(queue') = Len(queue) + Len(add) - d
  /\ \A i \in 1 .. Len(queue') :
       /\ i + d <= Len(queue) => queue'[i] = queue[i + d]
       /\ i + d > Len(queue) => queue'[i] = add[(i + d) - Len(queue)]
  /\ \A j \in 1 .. Len(queue) : j > d => queue'[j - d] = queue[j]
  /\ \A j \in 1 .. Len(add) : Len(queue) + j > d => queue'[(Len(queue) + j) - d] = add[j]

Lost(d, add) ==
  /\ d > 0 => unseen'
  /\ unseen => unseen'
  /\ shed \subseteq shed'
  /\ \A j \in 1 .. Len(queue) : j <= d /\ queue[j].closed => queue[j].time \in shed'
  /\ \A j \in 1 .. Len(add) : Len(queue) + j <= d /\ add[j].closed => add[j].time \in shed'

LEMMA EnqueueShifts ==
  ASSUME queue \in Seq(Frame), NEW add \in Seq(Frame), Enqueue(add)
  PROVE  \E d \in Nat : /\ Shifts(d, add) /\ Lost(d, add)
                        /\ d = 0 \/ d < Len(queue) + Len(add)
                        /\ d = 0 => shed' = shed
<1> DEFINE all == queue \o add
           d == IF Len(all) > MaxQueue THEN Len(all) - MaxQueue ELSE 0
           lost == Range(SubSeq(all, 1, d))
<1>1. /\ all \in Seq(Frame) /\ Len(all) = Len(queue) + Len(add)
      /\ Len(queue) \in Nat /\ Len(add) \in Nat
      /\ \A i \in 1 .. Len(queue) + Len(add) : all[i] =
           IF i <= Len(queue) THEN queue[i] ELSE add[i - Len(queue)]
  BY ConcatProperties, LenProperties
<1>2. /\ queue' = SubSeq(all, d + 1, Len(all))
      /\ unseen' = (unseen \/ lost # {})
      /\ shed' = shed \cup {f.time : f \in {f \in lost : f.closed}}
  BY DEF Enqueue
<1> HIDE DEF all
<1>3. d \in Nat /\ d <= Len(all) /\ (d = 0 \/ d < Len(all))
  BY <1>1, FlowAssumption
<1> HIDE DEF d, lost
<1>4. \A i \in 1 .. Len(all) : all[i] \in Frame
  BY <1>1, ElementOfSeq
<1>5. /\ queue' \in Seq(Frame) /\ Len(queue') = Len(all) - d
      /\ \A i \in 1 .. Len(all) - d : queue'[i] = all[i + d]
  <2>1. /\ SubSeq(all, d + 1, Len(all)) \in Seq(Frame)
        /\ Len(SubSeq(all, d + 1, Len(all))) =
             IF d + 1 <= Len(all) THEN Len(all) - (d + 1) + 1 ELSE 0
        /\ \A i \in 1 .. Len(all) - (d + 1) + 1 :
             SubSeq(all, d + 1, Len(all))[i] = all[(d + 1 + i) - 1]
    BY <1>1, <1>3, <1>4, SubSeqProperties
  <2>2. /\ Len(all) - (d + 1) + 1 = Len(all) - d
        /\ \A i \in 1 .. Len(all) - d : (d + 1 + i) - 1 = i + d
    BY <1>1, <1>3
  <2> QED
    BY <1>1, <1>2, <1>3, <2>1, <2>2
<1>6. /\ SubSeq(all, 1, d) \in Seq(Frame) /\ Len(SubSeq(all, 1, d)) = d
      /\ \A i \in 1 .. d : SubSeq(all, 1, d)[i] = all[i]
  <2>1. /\ SubSeq(all, 1, d) \in Seq(Frame)
        /\ Len(SubSeq(all, 1, d)) = IF 1 <= d THEN d - 1 + 1 ELSE 0
        /\ \A i \in 1 .. d - 1 + 1 : SubSeq(all, 1, d)[i] = all[1 + i - 1]
    BY <1>1, <1>3, <1>4, SubSeqProperties
  <2> QED
    BY <1>1, <1>3, <2>1
<1>7. lost = {SubSeq(all, 1, d)[i] : i \in 1 .. d}
  BY <1>6, RangeEquality DEF lost
<1>8. lost = {all[i] : i \in 1 .. d}
  BY <1>6, <1>7
<1>9. \A j \in 1 .. d : all[j] \in lost
  BY <1>8
<1>a. /\ \A j \in 1 .. Len(queue) : j \in 1 .. Len(all) /\ all[j] = queue[j]
      /\ \A j \in 1 .. Len(add) :
           Len(queue) + j \in 1 .. Len(all) /\ all[Len(queue) + j] = add[j]
  <2>1. ASSUME NEW j \in 1 .. Len(add)
        PROVE  Len(queue) + j \in 1 .. Len(all) /\ all[Len(queue) + j] = add[j]
    <3>1. /\ Len(queue) + j \in 1 .. Len(queue) + Len(add)
          /\ Len(queue) + j > Len(queue) /\ (Len(queue) + j) - Len(queue) = j
      BY <1>1
    <3> QED
      BY <1>1, <3>1
  <2> QED
    BY <1>1, <2>1
<1>10. Shifts(d, add)
  <2>1. ASSUME NEW i \in 1 .. Len(queue')
        PROVE  /\ i + d <= Len(queue) => queue'[i] = queue[i + d]
               /\ i + d > Len(queue) => queue'[i] = add[(i + d) - Len(queue)]
    <3>1. /\ i \in 1 .. Len(all) - d /\ i + d \in 1 .. Len(queue) + Len(add)
          /\ queue'[i] = all[i + d]
      BY <1>1, <1>3, <1>5
    <3> DEFINE k == i + d
    <3>2. k \in 1 .. Len(queue) + Len(add) /\ queue'[i] = all[k]
      BY <3>1
    <3> HIDE DEF k
    <3>3. all[k] = IF k <= Len(queue) THEN queue[k] ELSE add[k - Len(queue)]
      BY <1>1, <3>2
    <3>4. /\ k <= Len(queue) => queue'[i] = queue[k]
          /\ k > Len(queue) => queue'[i] = add[k - Len(queue)]
      BY <1>1, <3>2, <3>3
    <3> QED
      BY <3>4 DEF k
  <2>2. ASSUME NEW j \in 1 .. Len(queue), j > d
        PROVE  queue'[j - d] = queue[j]
    <3>1. j - d \in 1 .. Len(all) - d /\ (j - d) + d = j
      BY <1>1, <1>3, <2>2
    <3> QED
      BY <1>5, <1>a, <3>1
  <2>3. ASSUME NEW j \in 1 .. Len(add), Len(queue) + j > d
        PROVE  queue'[(Len(queue) + j) - d] = add[j]
    <3>1. (Len(queue) + j) - d \in 1 .. Len(all) - d /\ ((Len(queue) + j) - d) + d = Len(queue) + j
      BY <1>1, <1>3, <2>3
    <3> QED
      BY <1>5, <1>a, <3>1
  <2> QED
    BY <1>1, <1>3, <1>5, <2>1, <2>2, <2>3 DEF Shifts
<1>11. Lost(d, add)
  <2>1. \A j \in 1 .. d : all[j].closed => all[j].time \in shed'
    BY <1>2, <1>9
  <2>2. d > 0 => 1 \in 1 .. d
    BY <1>3
  <2>3. d > 0 => lost # {}
    BY <1>9, <2>2
  <2>4. \A j \in 1 .. Len(queue) : j <= d => j \in 1 .. d /\ all[j] = queue[j]
    BY <1>1, <1>3
  <2>5. \A j \in 1 .. Len(add) : Len(queue) + j <= d =>
          Len(queue) + j \in 1 .. d /\ all[Len(queue) + j] = add[j]
    BY <1>1, <1>3, <1>a
  <2> QED
    BY <1>2, <2>1, <2>3, <2>4, <2>5 DEF Lost
<1>12. d = 0 => shed' = shed
  <2>1. d = 0 => lost = {}
    BY <1>8
  <2> QED
    BY <1>2, <2>1
<1> QED
  BY <1>1, <1>3, <1>10, <1>11, <1>12

LEMMA TailShifts ==
  ASSUME queue \in Seq(Frame), queue # <<>>, queue' = Tail(queue)
  PROVE  Shifts(1, <<>>) /\ Len(queue) \in Nat \ {0} /\ Head(queue) = queue[1]
<1>1. Len(queue) \in Nat \ {0}
  BY EmptySeq
<1>2. /\ Tail(queue) \in Seq(Frame) /\ Len(Tail(queue)) = Len(queue) - 1
      /\ \A i \in 1 .. Len(Tail(queue)) : Tail(queue)[i] = queue[i + 1]
  BY HeadTailProperties
<1>3. Head(queue) = queue[1]
  BY HeadTailProperties
<1>4. <<>> \in Seq(Frame) /\ Len(<<>>) = 0
  BY EmptySeq
<1> QED
  BY <1>1, <1>2, <1>3, <1>4 DEF Shifts

(* ------------------------------ the bridge ------------------------------ *)

(* Nothing was traded before the minute. *)
First(trades, m) == \A k \in Minutes : k < m => trades[k] = 0

(* The minute's bar as the bridge closes it. *)
Closing(trades, m, bar) ==
  \E p \in BOOLEAN : /\ bar = [time |-> m, count |-> trades[m], partial |-> p]
                     /\ p <=> First(trades, m)

Clock ==
  /\ now \in Minutes /\ sequence \in Nat /\ total \in [Minutes -> Nat]
  /\ total[now] <= sequence
  /\ \A m \in Minutes : m > now => total[m] = 0

OpenBar == IF total[now] = 0 THEN current = NoMinute ELSE Closing(total, now, current)

LastBar ==
  IF First(total, now) THEN last = NoMinute
  ELSE /\ last.time \in Minutes /\ last.time < now /\ total[last.time] > 0
       /\ \A m \in Minutes : last.time < m /\ m < now => total[m] = 0
       /\ Closing(total, last.time, last)

Bridge == Clock /\ OpenBar /\ LastBar

LEMMA BridgeFacts ==
  ASSUME Bridge
  PROVE  /\ (current = NoMinute) <=> (total[now] = 0)
         /\ current # NoMinute =>
              /\ current.time = now /\ current.count = total[now] /\ total[now] > 0
              /\ current.partial \in BOOLEAN /\ (current.partial <=> First(total, now))
         /\ (last = NoMinute) <=> First(total, now)
         /\ last # NoMinute =>
              /\ last.time \in Minutes /\ last.time \in Nat /\ last.time < now
              /\ total[last.time] > 0
              /\ last.count = total[last.time]
              /\ last.partial \in BOOLEAN /\ (last.partial <=> First(total, last.time))
              /\ \A m \in Minutes : m < now /\ total[m] > 0 => m <= last.time
<1>1. (\A m \in Minutes : m \in Nat) /\ now \in Minutes /\ now \in Nat /\ total \in [Minutes -> Nat]
  BY EnginesAssumption DEF Bridge, Clock
<1>2. ASSUME NEW m \in Minutes, NEW bar, Closing(total, m, bar)
      PROVE  /\ bar # NoMinute /\ bar.time = m /\ bar.count = total[m]
             /\ bar.partial \in BOOLEAN /\ (bar.partial <=> First(total, m))
  <2>1. PICK p \in BOOLEAN : /\ bar = [time |-> m, count |-> total[m], partial |-> p]
                             /\ p <=> First(total, m)
    BY <1>2 DEF Closing
  <2>2. bar.time = m /\ bar.count = total[m] /\ bar.partial = p
    BY <2>1
  <2>3. NoMinute.time = -1
    BY DEF NoMinute, Open
  <2> QED
    BY <1>1, <2>1, <2>2, <2>3
<1>3. (current = NoMinute) <=> (total[now] = 0)
  BY <1>1, <1>2 DEF Bridge, OpenBar
<1>4. current # NoMinute => Closing(total, now, current) /\ total[now] > 0
  BY <1>1 DEF Bridge, OpenBar
<1>5. (last = NoMinute) <=> First(total, now)
  BY <1>1, <1>2 DEF Bridge, LastBar
<1>6. ASSUME last # NoMinute
      PROVE  /\ last.time \in Minutes /\ last.time < now /\ total[last.time] > 0
             /\ Closing(total, last.time, last)
             /\ \A m \in Minutes : m < now /\ total[m] > 0 => m <= last.time
  <2>1. ~First(total, now)
    BY <1>5, <1>6
  <2>2. /\ last.time \in Minutes /\ last.time < now /\ total[last.time] > 0
        /\ \A m \in Minutes : last.time < m /\ m < now => total[m] = 0
        /\ Closing(total, last.time, last)
    BY <2>1 DEF Bridge, LastBar
  <2> DEFINE t == last.time
  <2> HIDE DEF t
  <2>3. t \in Nat /\ \A m \in Minutes : t < m /\ m < now => total[m] = 0
    BY <1>1, <2>2 DEF t
  <2>4. \A m \in Minutes : m < now /\ total[m] > 0 => m <= t
    BY <1>1, <2>3
  <2> QED
    BY <2>2, <2>4 DEF t
<1> QED
  BY <1>1, <1>2, <1>3, <1>4, <1>5, <1>6

LEMMA TradeCounts ==
  ASSUME Bridge, OnTrade
  PROVE  /\ now' = now /\ sequence' = sequence + 1 /\ last' = last
         /\ total' \in [Minutes -> Nat] /\ total'[now] = total[now] + 1
         /\ \A m \in Minutes : m # now => total'[m] = total[m]
         /\ \A m \in Minutes : m <= now => (First(total', m) <=> First(total, m))
         /\ Bridge'
<1>1. (\A m \in Minutes : m \in Nat) /\ now \in Minutes /\ now \in Nat /\ total \in [Minutes -> Nat] /\ sequence \in Nat
      /\ total[now] <= sequence
  BY EnginesAssumption DEF Bridge, Clock
<1>2. now' = now /\ sequence' = sequence + 1 /\ last' = last
  BY DEF OnTrade
<1>2a. total' = [total EXCEPT ![now] = @ + 1]
  BY DEF OnTrade
<1>3. /\ total' \in [Minutes -> Nat] /\ total'[now] = total[now] + 1
      /\ \A m \in Minutes : m # now => total'[m] = total[m]
  BY <1>1, <1>2a
<1>4. \A m \in Minutes : m <= now => (First(total', m) <=> First(total, m))
  BY <1>1, <1>2, <1>3 DEF First
<1>5. Clock'
  BY <1>1, <1>2, <1>3 DEF Bridge, Clock
<1>6. OpenBar'
  <2> DEFINE bar == IF current = NoMinute THEN Open(now, last = NoMinute) ELSE current
  <2>1. current' = [bar EXCEPT !.count = @ + 1]
    BY DEF OnTrade
  <2>2. PICK p \in BOOLEAN : /\ bar = [time |-> now, count |-> total[now], partial |-> p]
                             /\ p <=> First(total, now)
    <3>1. CASE current = NoMinute
      <4>1. total[now] = 0 /\ ((last = NoMinute) <=> First(total, now))
        BY <3>1, BridgeFacts
      <4>2. bar = Open(now, last = NoMinute)
        BY <3>1
      <4> QED
        BY <4>1, <4>2 DEF Open
    <3>2. CASE current # NoMinute
      BY <3>2, <1>1 DEF Bridge, OpenBar, Closing
    <3> QED
      BY <3>1, <3>2
  <2> HIDE DEF bar
  <2>3. current' = [time |-> now, count |-> total[now] + 1, partial |-> p]
    BY <2>1, <2>2
  <2>4. /\ current' = [time |-> now', count |-> total'[now'], partial |-> p]
        /\ p <=> First(total', now')
    BY <2>2, <2>3, <1>1, <1>2, <1>3, <1>4
  <2>5. Closing(total', now', current')
    BY <2>4 DEF Closing
  <2> QED
    BY <2>5, <1>1, <1>2, <1>3 DEF OpenBar
<1>7. LastBar'
  <2>1. First(total', now') <=> First(total, now)
    BY <1>1, <1>2, <1>4
  <2>2. ASSUME ~First(total, now) PROVE LastBar'
    <3>1. /\ last.time \in Minutes /\ last.time < now /\ total[last.time] > 0
          /\ \A m \in Minutes : last.time < m /\ m < now => total[m] = 0
          /\ Closing(total, last.time, last)
      BY <2>2 DEF Bridge, LastBar
    <3>a. last.time \in Nat /\ last.time # now /\ last.time <= now
      <4> DEFINE t == last.time
      <4>1. t \in Minutes /\ t < now
        BY <3>1
      <4> HIDE DEF t
      <4>2. t \in Nat /\ t # now /\ t <= now
        BY <1>1, <4>1
      <4> QED
        BY <4>2 DEF t
    <3>2. total'[last.time] = total[last.time] /\ (First(total', last.time) <=> First(total, last.time))
      BY <1>3, <1>4, <3>1, <3>a
    <3>3. Closing(total', last.time, last')
      BY <1>2, <3>1, <3>2 DEF Closing
    <3> QED
      BY <1>1, <1>2, <1>3, <2>1, <2>2, <3>1, <3>2, <3>3 DEF LastBar
  <2> QED
    BY <1>2, <2>1, <2>2 DEF Bridge, LastBar
<1> QED
  BY <1>2, <1>3, <1>4, <1>5, <1>6, <1>7 DEF Bridge

LEMMA MinuteBegins ==
  ASSUME Bridge, OnTimestamp
  PROVE  /\ now' = now + 1 /\ now' \in Minutes /\ UNCHANGED <<sequence, total>>
         /\ total[now'] = 0
         /\ \A m \in Minutes : First(total', m) <=> First(total, m)
         /\ IF current = NoMinute THEN UNCHANGED <<current, last, queue, unseen, shed>>
            ELSE last' = current /\ Enqueue(<<BarFrame(current, TRUE)>>)
         /\ Bridge'
<1>1. (\A m \in Minutes : m \in Nat) /\ now \in Minutes /\ now \in Nat /\ total \in [Minutes -> Nat] /\ sequence \in Nat
      /\ total[now] <= sequence /\ \A m \in Minutes : m > now => total[m] = 0
  BY EnginesAssumption DEF Bridge, Clock
<1>2. /\ now' = now + 1 /\ now' \in Minutes /\ UNCHANGED <<sequence, total>>
      /\ IF current = NoMinute THEN UNCHANGED <<current, last, queue, unseen, shed>>
         ELSE /\ last' = current /\ Enqueue(<<BarFrame(current, TRUE)>>)
              /\ current' = NoMinute
  BY DEF OnTimestamp
<1>3. \A m \in Minutes : First(total', m) <=> First(total, m)
  BY <1>2 DEF First
<1>4. total[now'] = 0
  BY <1>1, <1>2
<1>5. Clock' /\ OpenBar'
  BY <1>1, <1>2, <1>4 DEF Clock, OpenBar
<1>6. \A m \in Minutes : \A bar : Closing(total, m, bar) => Closing(total', m, bar)
  BY <1>2, <1>3 DEF Closing
<1>7. LastBar'
  <2>1. First(total', now') <=> First(total, now) /\ total[now] = 0
    BY <1>1, <1>2, <1>3 DEF First
  <2>2. CASE current # NoMinute
    <3>1. current.time = now /\ total[now] > 0 /\ Closing(total, now, current)
      BY <2>2, <1>1, BridgeFacts DEF Bridge, OpenBar
    <3>2. Closing(total', now, last')
      BY <1>1, <1>2, <1>6, <2>2, <3>1
    <3>3. \A m \in Minutes : ~(now < m /\ m < now')
      BY <1>1, <1>2
    <3>4. last'.time = now
      BY <1>2, <2>2, <3>1
    <3>5. ~First(total', now')
      BY <2>1, <3>1, <1>1, <1>2 DEF First
    <3> QED
      BY <1>1, <1>2, <2>1, <2>2, <3>1, <3>2, <3>3, <3>4, <3>5 DEF LastBar
  <2>3. CASE current = NoMinute
    <3>1. total[now] = 0
      BY <2>3, BridgeFacts
    <3>2. CASE First(total, now)
      BY <1>2, <2>1, <2>3, <3>1, <3>2 DEF Bridge, LastBar
    <3>3. CASE ~First(total, now)
      <4>1. /\ last.time \in Minutes /\ last.time < now /\ total[last.time] > 0
            /\ \A m \in Minutes : last.time < m /\ m < now => total[m] = 0
            /\ Closing(total, last.time, last)
        BY <3>3 DEF Bridge, LastBar
      <4>2. last.time \in Nat /\ last' = last /\ total' = total
        BY <1>1, <1>2, <2>3, <4>1
      <4>3. Closing(total', last'.time, last')
        BY <1>6, <4>1, <4>2
      <4>4. last'.time < now' /\ total'[last'.time] > 0
        BY <1>1, <1>2, <4>1, <4>2
      <4>5. \A m \in Minutes : last'.time < m /\ m < now' => total'[m] = 0
        BY <1>1, <1>2, <3>1, <4>1, <4>2
      <4> QED
        BY <2>1, <3>3, <4>1, <4>2, <4>3, <4>4, <4>5 DEF LastBar
    <3> QED
      BY <3>2, <3>3
  <2> QED
    BY <2>2, <2>3
<1> QED
  BY <1>2, <1>3, <1>4, <1>5, <1>7 DEF Bridge

(* The last trade the sender of the frame knew of before it. *)
Floor(f) == IF IsBar(f) THEN f.upto ELSE f.upto - 1

(* What a frame says of the bridge at minute time, with number trades, of  *)
(* which trades[m] in minute m, and with the trusted minutes.              *)
FrameInv(f, time, number, trades, trusted) ==
  /\ f.time <= time /\ trades[f.time] > 0 /\ f.upto <= number
  /\ ~IsBar(f) =>
       ~f.closed /\ f.upto > 0 /\ (f.time = time <=> f.upto > number - trades[time])
  /\ IsBar(f) => (f.partial <=> First(trades, f.time))
  /\ f.closed => f.time < time /\ f.count = trades[f.time]
  /\ IsBar(f) /\ ~f.closed /\ f.time = time =>
       f.count > 0 /\ f.count = f.upto - (number - trades[time])
  /\ ~f.closed => f.time \notin trusted

Ordered(f, g) ==
  /\ ~g.closed => f.time <= g.time
  /\ ~g.closed /\ f.closed => f.time < g.time
  /\ f.upto <= Floor(g)

QueueInv ==
  /\ queue \in Seq(Frame)
  /\ \A i \in 1 .. Len(queue) : FrameInv(queue[i], now, sequence, total, authoritative)
  /\ \A i, j \in 1 .. Len(queue) : i < j => Ordered(queue[i], queue[j])
  /\ \A i, j \in 1 .. Len(queue) : j = i + 1 => Floor(queue[j]) = queue[i].upto
  /\ Len(queue) > 0 => queue[Len(queue)].upto = sequence

LEMMA QueueMoves ==
  ASSUME QueueInv, NEW d, NEW add, Shifts(d, add),
         sequence \in Nat, sequence' \in Nat, sequence <= sequence',
         \A i \in 1 .. Len(queue) : i > d =>
           FrameInv(queue[i], now', sequence', total', authoritative'),
         \A i \in 1 .. Len(add) :
           FrameInv(add[i], now', sequence', total', authoritative'),
         \A i \in 1 .. Len(queue), j \in 1 .. Len(add) : Ordered(queue[i], add[j]),
         \A i, j \in 1 .. Len(add) : i < j => Ordered(add[i], add[j]),
         \A i, j \in 1 .. Len(add) : j = i + 1 => Floor(add[j]) = add[i].upto,
         Len(add) > 0 => Floor(add[1]) = sequence /\ add[Len(add)].upto = sequence',
         Len(add) = 0 => sequence' = sequence
  PROVE  QueueInv'
<1> DEFINE n == Len(queue)
           k == Len(add)
<1>0. n \in Nat /\ k \in Nat /\ d \in Nat /\ queue' \in Seq(Frame) /\ Len(queue') = n + k - d
      /\ d <= n + k
  BY LenProperties DEF Shifts, QueueInv
<1>a. ASSUME NEW i \in 1 .. Len(queue')
      PROVE  /\ i + d <= n => i + d \in 1 .. n /\ queue'[i] = queue[i + d]
             /\ i + d > n => (i + d) - n \in 1 .. k /\ queue'[i] = add[(i + d) - n]
  <2>1. /\ i + d <= n => queue'[i] = queue[i + d]
        /\ i + d > n => queue'[i] = add[(i + d) - n]
    BY DEF Shifts
  <2> HIDE DEF n, k
  <2>2. i \in 1 .. (n + k - d)
    BY <1>0
  <2>3. /\ i + d <= n => i + d \in 1 .. n
        /\ i + d > n => (i + d) - n \in 1 .. k
    BY <1>0, <2>2
  <2> QED
    BY <2>1, <2>3
<1> DEFINE from(i) == i + d
<1>1. ASSUME NEW i \in 1 .. Len(queue')
      PROVE  FrameInv(queue'[i], now', sequence', total', authoritative')
  <2> DEFINE a == i + d
             b == (i + d) - n
  <2>1. CASE a <= n
    <3>1. a \in 1 .. n /\ queue'[i] = queue[a] /\ a > d
      BY <1>0, <1>a, <2>1
    <3> HIDE DEF a
    <3> QED
      BY <3>1
  <2>2. CASE ~(a <= n)
    <3>1. b \in 1 .. k /\ queue'[i] = add[b]
      BY <1>0, <1>a, <2>2
    <3> HIDE DEF b
    <3> QED
      BY <3>1
  <2> QED
    BY <2>1, <2>2
<1>2. ASSUME NEW i \in 1 .. Len(queue'), NEW j \in 1 .. Len(queue'), i < j
      PROVE  Ordered(queue'[i], queue'[j])
  <2> DEFINE a == i + d
             b == j + d
             p == (i + d) - n
             q == (j + d) - n
  <2>0. i \in Nat /\ j \in Nat /\ a < b /\ p < q /\ a \in Nat /\ b \in Nat
    BY <1>0, <1>2
  <2>1. CASE b <= n
    <3>1. /\ a \in 1 .. n /\ queue'[i] = queue[a]
          /\ b \in 1 .. n /\ queue'[j] = queue[b]
      BY <1>0, <1>a, <2>0, <2>1
    <3> HIDE DEF a, b
    <3> QED
      BY <2>0, <3>1 DEF QueueInv
  <2>2. CASE a <= n /\ ~(b <= n)
    <3>1. /\ a \in 1 .. n /\ queue'[i] = queue[a]
          /\ q \in 1 .. k /\ queue'[j] = add[q]
      BY <1>0, <1>a, <2>0, <2>2
    <3> HIDE DEF a, q
    <3> QED
      BY <3>1
  <2>3. CASE ~(a <= n)
    <3>0. a > n /\ b > n
      BY <1>0, <2>0, <2>3
    <3>2. p \in 1 .. k /\ queue'[i] = add[p]
      BY <1>a, <3>0
    <3>3. q \in 1 .. k /\ queue'[j] = add[q]
      BY <1>a, <3>0
    <3>1. /\ p \in 1 .. k /\ queue'[i] = add[p]
          /\ q \in 1 .. k /\ queue'[j] = add[q]
      BY <3>2, <3>3
    <3> HIDE DEF p, q
    <3> QED
      BY <2>0, <3>1
  <2> QED
    BY <2>1, <2>2, <2>3
<1>3. ASSUME NEW i \in 1 .. Len(queue'), NEW j \in 1 .. Len(queue'), j = i + 1
      PROVE  Floor(queue'[j]) = queue'[i].upto
  <2> DEFINE a == i + d
             b == j + d
             p == (i + d) - n
             q == (j + d) - n
  <2>0. i \in Nat /\ j \in Nat /\ b = a + 1 /\ q = p + 1 /\ a \in Nat /\ b \in Nat
    BY <1>0, <1>3
  <2>1. CASE b <= n
    <3>1. /\ a \in 1 .. n /\ queue'[i] = queue[a]
          /\ b \in 1 .. n /\ queue'[j] = queue[b]
      BY <1>0, <1>a, <2>0, <2>1
    <3> HIDE DEF a, b
    <3> QED
      BY <2>0, <3>1 DEF QueueInv
  <2>2. CASE a <= n /\ ~(b <= n)
    <3>0. /\ a \in 1 .. n /\ queue'[i] = queue[a]
          /\ q \in 1 .. k /\ queue'[j] = add[q]
      BY <1>0, <1>a, <2>0, <2>2
    <3>5. /\ n \in Nat /\ k \in Nat /\ a \in Nat /\ a \in 1 .. n /\ q \in 1 .. k
          /\ b = a + 1 /\ q = b - n /\ a <= n /\ ~(b <= n)
      BY <1>0, <2>0, <2>2, <3>0
    <3>4. a = n /\ n > 0 /\ q = 1 /\ k > 0
      <4> HIDE DEF a, b, q, n, k
      <4> QED
        BY <3>5
    <3>1. /\ n > 0 /\ queue'[i] = queue[n]
          /\ k > 0 /\ queue'[j] = add[1]
      <4> HIDE DEF a, q, n, k
      <4> QED
        BY <3>0, <3>4
    <3>2. Floor(add[1]) = sequence
      BY <3>1
    <3>3. queue[n].upto = sequence
      BY <3>1 DEF QueueInv
    <3> QED
      BY <3>1, <3>2, <3>3
  <2>3. CASE ~(a <= n)
    <3>0. a > n /\ b > n
      BY <1>0, <2>0, <2>3
    <3>2. p \in 1 .. k /\ queue'[i] = add[p]
      BY <1>a, <3>0
    <3>3. q \in 1 .. k /\ queue'[j] = add[q]
      BY <1>a, <3>0
    <3>1. /\ p \in 1 .. k /\ queue'[i] = add[p]
          /\ q \in 1 .. k /\ queue'[j] = add[q]
      BY <3>2, <3>3
    <3> HIDE DEF p, q
    <3> QED
      BY <2>0, <3>1
  <2> QED
    BY <2>1, <2>2, <2>3
<1>4. ASSUME Len(queue') > 0 PROVE queue'[Len(queue')].upto = sequence'
  <2> DEFINE i == Len(queue')
  <2>0. i \in 1 .. i /\ i + d = n + k
    BY <1>0, <1>4
  <2>1. CASE k = 0
    <3>1. n > 0 /\ queue'[i] = queue[n]
      BY <1>0, <1>a, <2>0, <2>1, <1>4
    <3> QED
      BY <2>1, <3>1 DEF QueueInv
  <2>2. CASE k > 0
    <3>0. i + d > n /\ (i + d) - n = k
      <4>1. i + d = n + k /\ n \in Nat /\ k \in Nat /\ k > 0
        BY <1>0, <2>0, <2>2
      <4> HIDE DEF i, n, k
      <4> QED
        BY <4>1
    <3>2. queue'[i] = add[(i + d) - n]
      BY <1>a, <2>0, <3>0
    <3>1. queue'[i] = add[k]
      BY <3>0, <3>2
    <3> QED
      BY <2>2, <3>1
  <2> QED
    BY <1>0, <2>1, <2>2
<1> QED
  BY <1>0, <1>1, <1>2, <1>3, <1>4 DEF QueueInv

(* ------------------------- what the rows become ------------------------- *)

Row(u) == [by |-> "bookmap", count |-> u.count, closed |-> u.closed]
Flow(b) == [by |-> "bookmap", count |-> b.count]

(* The row of tf and m after the updates. *)
Stored(new, old, updates, tf, m) ==
  \/ \E u \in updates : u.tf = tf /\ u.time = m /\ new = Row(u)
  \/ (\A u \in updates : ~(u.tf = tf /\ u.time = m)) /\ new = old

LEMMA BarsStored ==
  ASSUME NEW table, NEW updates, NEW tf \in Timeframes, NEW m \in Minutes
  PROVE  Stored(StoreBars(table, updates)[tf][m], table[tf][m], updates, tf, m)
<1> DEFINE P(u) == u.tf = tf /\ u.time = m
           c == CHOOSE u \in updates : P(u)
           new == StoreBars(table, updates)[tf][m]
           old == table[tf][m]
<1>1. new = IF \E u \in updates : P(u) THEN Row(c) ELSE old
  BY DEF StoreBars, Row
<1> SUFFICES Stored(new, old, updates, tf, m)
  OBVIOUS
<1> HIDE DEF new, old
<1>2. CASE \E u \in updates : P(u)
  <2>1. c \in updates /\ P(c)
    BY <1>2
  <2> HIDE DEF c
  <2> QED
    BY <1>1, <1>2, <2>1 DEF Stored
<1>3. CASE ~\E u \in updates : P(u)
  BY <1>1, <1>3 DEF Stored
<1> QED
  BY <1>2, <1>3

(* The rows are tables over the session's minutes. *)
ByMinute(f) == f = [m \in Minutes |-> f[m]]
RowsShape(r) ==
  /\ r = [bar |-> r.bar, delta |-> r.delta, ladder |-> r.ladder]
  /\ ByMinute(r.delta[1])
  /\ ByMinute(r.ladder)

LEMMA DeltasStored ==
  ASSUME NEW table, NEW deltas, NEW tfs, ByMinute(table[1])
  PROVE  /\ ByMinute(StoreDeltas(table, deltas, tfs)[1])
         /\ \A m \in Minutes :
              StoreDeltas(table, deltas, tfs)[1][m] =
                IF 1 \in tfs /\ deltas[1] # NoBar /\ deltas[1].time = m
                THEN Flow(deltas[1]) ELSE table[1][m]
<1> DEFINE new == StoreDeltas(table, deltas, tfs)[1]
           old == table[1]
           b == deltas[1]
           put == [old EXCEPT ![b.time] = Flow(b)]
<1>1. new = IF 1 \in tfs /\ b # NoBar THEN put ELSE old
  BY EnginesAssumption DEF StoreDeltas, Flow
<1>2. ByMinute(put) /\ \A m \in Minutes : put[m] = IF b.time = m THEN Flow(b) ELSE old[m]
  BY DEF ByMinute
<1> HIDE DEF put, new, b, old
<1>3. ByMinute(old)
  BY DEF old
<1>4. /\ ByMinute(new)
      /\ \A m \in Minutes : new[m] = IF 1 \in tfs /\ b # NoBar /\ b.time = m
                                      THEN Flow(b) ELSE old[m]
  BY <1>1, <1>2, <1>3
<1> QED
  BY <1>4 DEF new, old, b

LEMMA LadderStored ==
  ASSUME NEW table, NEW bar, ByMinute(table)
  PROVE  /\ ByMinute(StoreLadder(table, bar))
         /\ \A m \in Minutes :
              StoreLadder(table, bar)[m] =
                IF bar # NoBar /\ bar.time = m THEN bar.count ELSE table[m]
<1> DEFINE new == StoreLadder(table, bar)
           put == [table EXCEPT ![bar.time] = bar.count]
<1>1. new = IF bar = NoBar THEN table ELSE put
  BY DEF StoreLadder
<1>2. /\ ByMinute(put)
      /\ \A m \in Minutes : put[m] = IF bar.time = m THEN bar.count ELSE table[m]
  BY DEF ByMinute
<1> HIDE DEF put, new
<1>3. /\ ByMinute(new)
      /\ \A m \in Minutes :
           new[m] = IF bar # NoBar /\ bar.time = m THEN bar.count ELSE table[m]
  BY <1>1, <1>2
<1> QED
  BY <1>3 DEF new

AllOf(snaps) == UNION {snaps[tf] : tf \in Timeframes}

LEMMA RowsEvaluated ==
  ASSUME NEW chosen, NEW snaps, NEW deltas, RowsShape(rows)
  PROVE  LET r == Evaluated(chosen, snaps, deltas) IN
         /\ RowsShape(r)
         /\ ~chosen \/ active => r = rows
         /\ chosen /\ ~active =>
              /\ \A tf \in Timeframes, m \in Minutes :
                   Stored(r.bar[tf][m], rows.bar[tf][m], AllOf(snaps), tf, m)
              /\ \A m \in Minutes :
                   r.delta[1][m] = IF deltas[1] # NoBar /\ deltas[1].time = m
                                   THEN Flow(deltas[1]) ELSE rows.delta[1][m]
              /\ \A m \in Minutes :
                   r.ladder[m] = IF deltas[1] # NoBar /\ deltas[1].time = m
                                 THEN deltas[1].count ELSE rows.ladder[m]
<1> DEFINE r == Evaluated(chosen, snaps, deltas)
           s == Seeded(snaps, deltas)
<1>1. ~chosen \/ active => r = rows
  BY DEF Evaluated
<1>2. chosen /\ ~active => r = s
  BY DEF Evaluated
<1>3. /\ s.bar = StoreBars(rows.bar, AllOf(snaps))
      /\ s.delta = StoreDeltas(rows.delta, deltas, Timeframes)
      /\ s.ladder = StoreLadder(rows.ladder, deltas[1])
      /\ s = [bar |-> s.bar, delta |-> s.delta, ladder |-> s.ladder]
  BY DEF Seeded, AllOf
<1> HIDE DEF r, s
<1>4. ByMinute(rows.delta[1]) /\ ByMinute(rows.ladder)
  BY DEF RowsShape
<1>5. 1 \in Timeframes
  BY EnginesAssumption
<1>6. /\ ByMinute(s.delta[1])
      /\ \A m \in Minutes :
           s.delta[1][m] = IF deltas[1] # NoBar /\ deltas[1].time = m
                           THEN Flow(deltas[1]) ELSE rows.delta[1][m]
  BY <1>3, <1>4, <1>5, DeltasStored
<1>7. /\ ByMinute(s.ladder)
      /\ \A m \in Minutes :
           s.ladder[m] = IF deltas[1] # NoBar /\ deltas[1].time = m
                         THEN deltas[1].count ELSE rows.ladder[m]
  BY <1>3, <1>4, LadderStored
<1>8. \A tf \in Timeframes, m \in Minutes :
        Stored(s.bar[tf][m], rows.bar[tf][m], AllOf(snaps), tf, m)
  BY <1>3, BarsStored
<1>9. RowsShape(s)
  BY <1>3, <1>6, <1>7 DEF RowsShape
<1>10. RowsShape(r)
  BY <1>1, <1>2, <1>9
<1> QED
  BY <1>1, <1>2, <1>6, <1>7, <1>8, <1>10 DEF r

(* ------------------------- what the engines hold ------------------------ *)

BarOf(b, tf, time, trades) ==
  \/ b = NoBar
  \/ /\ b = [time |-> b.time, count |-> b.count]
     /\ b.time \in Minutes /\ b.time <= time
     /\ tf = 1 => trades[b.time] > 0

UpdateOf(u, time, trades) ==
  /\ u = [tf |-> u.tf, time |-> u.time, count |-> u.count, closed |-> u.closed]
  /\ u.tf \in Timeframes /\ u.closed \in BOOLEAN
  /\ u.time \in Minutes /\ u.time <= time
  /\ u.tf = 1 => trades[u.time] > 0

LEMMA FieldsOfBar ==
  ASSUME NEW b, NEW tf, NEW time, NEW trades, BarOf(b, tf, time, trades)
  PROVE  /\ b.time \in Int
         /\ b = NoBar => b.time = -1 /\ b.count = 0
         /\ b # NoBar => /\ b.time \in Minutes /\ b.time \in Nat /\ b.time <= time
                         /\ tf = 1 => trades[b.time] > 0
         /\ b = [time |-> b.time, count |-> b.count]
<1>1. NoBar.time = -1 /\ NoBar.count = 0 /\ NoBar = [time |-> NoBar.time, count |-> NoBar.count]
  BY DEF NoBar
<1>2. \A m \in Minutes : m \in Nat
  BY EnginesAssumption
<1>3. CASE b = NoBar
  BY <1>1, <1>3
<1>4. CASE b # NoBar
  <2>1. /\ b = [time |-> b.time, count |-> b.count]
        /\ b.time \in Minutes /\ b.time <= time /\ (tf = 1 => trades[b.time] > 0)
    BY <1>4 DEF BarOf
  <2>2. b.time \in Nat
    BY <1>2, <2>1
  <2> QED
    BY <1>4, <2>1, <2>2
<1> QED
  BY <1>3, <1>4

LEMMA FoldsTrade ==
  ASSUME NEW tf \in Timeframes, NEW time \in Minutes, NEW t \in Nat, NEW trades, NEW b,
         time <= t, trades[time] > 0, BarOf(b, tf, t, trades)
  PROVE  /\ BarOf(Fold(b, time, tf), tf, t, trades)
         /\ Fold(b, time, tf) # NoBar
         /\ Bucket(time, tf) > b.time => Fold(b, time, tf) = [time |-> Bucket(time, tf), count |-> 1]
         /\ Bucket(time, tf) = b.time =>
              Fold(b, time, tf) = [time |-> Bucket(time, tf), count |-> b.count + 1]
         /\ Bucket(time, tf) < b.time => Fold(b, time, tf) = b
         /\ Fold(b, time, tf).time >= Bucket(time, tf)
<1> DEFINE k == Bucket(time, tf)
           n == Fold(b, time, tf)
<1>1. k \in Minutes /\ k \in Nat /\ k <= time /\ time \in Nat /\ (tf = 1 => k = time)
  BY Buckets
<1>2. /\ b.time \in Int
      /\ b = NoBar => b.time = -1
      /\ b = [time |-> b.time, count |-> b.count]
  BY FieldsOfBar
<1>3. /\ k > b.time => n = [time |-> k, count |-> 1]
      /\ k = b.time => n = [b EXCEPT !.count = @ + 1]
      /\ k < b.time => n = b
  BY <1>1, <1>2 DEF Fold
<1>4. [b EXCEPT !.count = @ + 1] = [time |-> b.time, count |-> b.count + 1]
  BY <1>2
<1> HIDE DEF k, n
<1>5. \A c : [time |-> k, count |-> c] # NoBar /\ BarOf([time |-> k, count |-> c], tf, t, trades)
  BY <1>1 DEF BarOf, NoBar
<1>6. k > b.time \/ k = b.time \/ k < b.time
  BY <1>1, <1>2
<1>7. CASE k > b.time
  BY <1>1, <1>2, <1>3, <1>5, <1>7 DEF k, n
<1>8. CASE k = b.time
  BY <1>1, <1>2, <1>3, <1>4, <1>5, <1>8 DEF k, n
<1>9. CASE k < b.time
  BY <1>1, <1>2, <1>3, <1>9 DEF k, n
<1> QED
  BY <1>6, <1>7, <1>8, <1>9

(* The updates of a trade: the bars it closes, and the ones it leaves open. *)
LEMMA TradeUpdated ==
  ASSUME NEW time \in Minutes, NEW t \in Nat, NEW trades, time <= t, trades[time] > 0,
         \A tf \in Timeframes : BarOf(bars[tf], tf, t, trades)
  PROVE  /\ \A u \in TradeUpdates(bars, time) :
              /\ UpdateOf(u, t, trades)
              /\ \/ /\ u.closed /\ bars[u.tf] # NoBar
                    /\ u = Update(u.tf, bars[u.tf], TRUE)
                    /\ bars[u.tf].time < Bucket(time, u.tf)
                 \/ /\ ~u.closed
                    /\ u = Update(u.tf, Fold(bars[u.tf], time, u.tf), FALSE)
                    /\ u.time = Bucket(time, u.tf)
                    /\ bars[u.tf].time <= Bucket(time, u.tf)
         /\ \A tf \in Timeframes : Bucket(time, tf) >= bars[tf].time =>
              Update(tf, Fold(bars[tf], time, tf), FALSE) \in TradeUpdates(bars, time)
<1> DEFINE closing == {f \in Timeframes : bars[f] # NoBar /\ Bucket(time, f) > bars[f].time}
           open == {f \in Timeframes : Bucket(time, f) >= bars[f].time}
<1>1. TradeUpdates(bars, time) =
        {Update(tf, bars[tf], TRUE) : tf \in closing}
        \cup {Update(tf, Fold(bars[tf], time, tf), FALSE) : tf \in open}
  BY DEF TradeUpdates, ClosedBy, FoldTrade
<1>2. ASSUME NEW tf \in Timeframes
      PROVE  /\ Bucket(time, tf) \in Nat
             /\ bars[tf].time \in Int
             /\ bars[tf] # NoBar => /\ bars[tf].time \in Minutes /\ bars[tf].time <= t
                                    /\ tf = 1 => trades[bars[tf].time] > 0
             /\ BarOf(Fold(bars[tf], time, tf), tf, t, trades)
             /\ Fold(bars[tf], time, tf) # NoBar
             /\ Bucket(time, tf) >= bars[tf].time =>
                  Fold(bars[tf], time, tf).time = Bucket(time, tf)
  <2>1. Bucket(time, tf) \in Nat
    BY Buckets
  <2>2. /\ BarOf(Fold(bars[tf], time, tf), tf, t, trades)
        /\ Fold(bars[tf], time, tf) # NoBar
        /\ Bucket(time, tf) > bars[tf].time =>
             Fold(bars[tf], time, tf) = [time |-> Bucket(time, tf), count |-> 1]
        /\ Bucket(time, tf) = bars[tf].time =>
             Fold(bars[tf], time, tf) = [time |-> Bucket(time, tf), count |-> bars[tf].count + 1]
    BY FoldsTrade
  <2>3. /\ bars[tf].time \in Int
        /\ bars[tf] # NoBar => /\ bars[tf].time \in Minutes /\ bars[tf].time <= t
                               /\ tf = 1 => trades[bars[tf].time] > 0
    BY FieldsOfBar
  <2> QED
    BY <2>1, <2>2, <2>3
<1>3. ASSUME NEW tf \in closing
      PROVE  LET u == Update(tf, bars[tf], TRUE) IN
             /\ UpdateOf(u, t, trades) /\ u.closed /\ u.tf = tf /\ u.time = bars[tf].time
  BY <1>2 DEF Update, UpdateOf
<1>4. ASSUME NEW tf \in open
      PROVE  LET b == Fold(bars[tf], time, tf)
                 u == Update(tf, b, FALSE)
             IN  UpdateOf(u, t, trades) /\ ~u.closed /\ u.tf = tf /\ u.time = Bucket(time, tf)
  <2> DEFINE b == Fold(bars[tf], time, tf)
  <2>1. BarOf(b, tf, t, trades) /\ b # NoBar /\ b.time = Bucket(time, tf)
    BY <1>2
  <2> HIDE DEF b
  <2>2. b.time \in Minutes /\ b.time <= t /\ (tf = 1 => trades[b.time] > 0)
    BY <2>1, FieldsOfBar
  <2>3. LET u == Update(tf, b, FALSE) IN
        UpdateOf(u, t, trades) /\ ~u.closed /\ u.tf = tf /\ u.time = b.time
    BY <2>2 DEF Update, UpdateOf
  <2> QED
    BY <2>1, <2>3 DEF b
<1>5. ASSUME NEW u \in TradeUpdates(bars, time)
      PROVE  /\ UpdateOf(u, t, trades)
             /\ \/ /\ u.closed /\ bars[u.tf] # NoBar
                   /\ u = Update(u.tf, bars[u.tf], TRUE)
                   /\ bars[u.tf].time < Bucket(time, u.tf)
                \/ /\ ~u.closed
                   /\ u = Update(u.tf, Fold(bars[u.tf], time, u.tf), FALSE)
                   /\ u.time = Bucket(time, u.tf)
                   /\ bars[u.tf].time <= Bucket(time, u.tf)
  <2>1. CASE \E tf \in closing : u = Update(tf, bars[tf], TRUE)
    <3>1. PICK tf \in closing : u = Update(tf, bars[tf], TRUE)
      BY <2>1
    <3>2. UpdateOf(u, t, trades) /\ u.closed /\ u.tf = tf
      BY <1>3, <3>1
    <3>3. bars[tf] # NoBar /\ bars[tf].time < Bucket(time, tf)
      BY <1>2, <3>1
    <3> QED
      BY <3>1, <3>2, <3>3
  <2>2. CASE \E tf \in open : u = Update(tf, Fold(bars[tf], time, tf), FALSE)
    <3>1. PICK tf \in open : u = Update(tf, Fold(bars[tf], time, tf), FALSE)
      BY <2>2
    <3>2. UpdateOf(u, t, trades) /\ ~u.closed /\ u.tf = tf /\ u.time = Bucket(time, tf)
      BY <1>4, <3>1
    <3>3. bars[tf].time <= Bucket(time, tf)
      BY <1>2, <3>1
    <3> QED
      BY <3>1, <3>2, <3>3
  <2> QED
    BY <1>1, <2>1, <2>2
<1> QED
  BY <1>1, <1>5

(* _remember_source_updates keeps nothing but the new and what they do not *)
(* replace, and keeps what nothing is later than.                          *)
LEMMA Remembered ==
  ASSUME NEW snaps, NEW updates, NEW tf \in Timeframes, NEW u
  PROVE  LET replaced == \E v \in updates : v.tf = tf /\ v.time = u.time
             kept == (u \in updates /\ u.tf = tf) \/ (u \in snaps[tf] /\ ~replaced)
         IN /\ u \in Remember(snaps, updates)[tf] => kept
            /\ kept /\ (\A v \in updates \cup snaps[tf] : ~(v.time > u.time))
                 => u \in Remember(snaps, updates)[tf]
<1> DEFINE mine == {v \in updates : v.tf = tf}
           other == {v \in snaps[tf] : \A w \in mine : w.time # v.time}
           all == mine \cup other
<1>1. Remember(snaps, updates)[tf] = {v \in all : Cardinality({w \in all : w.time > v.time}) < 2}
  BY DEF Remember
<1>2. (u \in all) <=> \/ u \in updates /\ u.tf = tf
                      \/ u \in snaps[tf] /\ ~\E v \in updates : v.tf = tf /\ v.time = u.time
  OBVIOUS
<1>3. ASSUME \A v \in updates \cup snaps[tf] : ~(v.time > u.time)
      PROVE  Cardinality({w \in all : w.time > u.time}) < 2
  <2> DEFINE later == {w \in all : w.time > u.time}
  <2>1. later = {}
    BY <1>3
  <2> HIDE DEF later
  <2>2. Cardinality(later) = 0
    BY <2>1, FS_EmptySet
  <2>3. Cardinality(later) < 2
    BY <2>2
  <2> QED
    BY <2>3 DEF later
<1> HIDE DEF all
<1> QED
  BY <1>1, <1>2, <1>3

EnginesShape ==
  /\ RowsShape(rows)
  /\ \A tf \in Timeframes : BarOf(bars[tf], tf, now, total) /\ BarOf(flow[tf], tf, now, total)
  /\ \A tf \in Timeframes : \A u \in snapshots[tf] : UpdateOf(u, now, total) /\ u.tf = tf

(* ------------------------- the handler of a trade ----------------------- *)

(* What RunEngines does, said of each bar, update and row. *)
RanEngines(h, U, r) ==
  /\ gap' = (gap \/ h.gap) /\ active' \in BOOLEAN /\ (active' => ~gap')
  /\ \A tf \in Timeframes : /\ bars'[tf] = Fold(bars[tf], h.time, tf)
                            /\ flow'[tf] = Fold(flow[tf], h.time, tf)
  /\ snapshots' = Remember(snapshots, U)
  /\ ~active' => rows' = rows
  /\ active' =>
       /\ \A tf \in Timeframes, m \in Minutes :
            Stored(rows'.bar[tf][m], r.bar[tf][m], U, tf, m)
       /\ \A m \in Minutes :
            rows'.delta[1][m] = IF h.time >= flow[1].time /\ h.time = m
                                THEN Flow(flow'[1]) ELSE r.delta[1][m]
       /\ \A m \in Minutes :
            \/ rows'.ladder[m] = r.ladder[m]
            \/ /\ flow[1].time = m /\ m \notin authoritative
               /\ rows'.ladder[m] = flow[1].count
  /\ RowsShape(rows')
  /\ UNCHANGED <<known, authoritative>>

LEMMA EnginesRun ==
  ASSUME Bridge, EnginesShape, NEW h, h.time \in Minutes, h.time <= now, total[h.time] > 0,
         RunEngines(h)
  PROVE  RanEngines(h, TradeUpdates(bars, h.time), Evaluated(active', snapshots, flow))
<1> DEFINE time == h.time
           U == TradeUpdates(bars, time)
           r == Evaluated(active', snapshots, flow)
           closing == {u \in ClosedBy(bars, time) :
                         u.tf = 1 /\ u.time = flow[1].time /\ u.time \notin authoritative}
           moved == {tf \in Timeframes : Bucket(time, tf) >= flow[tf].time}
           all == [bar |-> StoreBars(r.bar, U), delta |-> StoreDeltas(r.delta, flow', moved),
                   ladder |-> IF closing = {} THEN r.ladder ELSE StoreLadder(r.ladder, flow[1])]
<1>1. /\ gap' = (gap \/ h.gap)
      /\ active' \in IF gap' THEN {FALSE} ELSE BOOLEAN
      /\ bars' = FoldTrade(bars, time) /\ flow' = FoldTrade(flow, time)
      /\ snapshots' = Remember(snapshots, U)
      /\ rows' = IF ~active' THEN r ELSE all
      /\ UNCHANGED <<known, authoritative>>
  BY DEF RunEngines
<1>2. active' \in BOOLEAN /\ (active' => ~gap')
  BY <1>1
<1>3. \A tf \in Timeframes : bars'[tf] = Fold(bars[tf], time, tf) /\ flow'[tf] = Fold(flow[tf], time, tf)
  BY <1>1 DEF FoldTrade
<1>4. RowsShape(r) /\ (~active' => r = rows)
  BY RowsEvaluated DEF EnginesShape
<1>5. now \in Nat /\ 1 \in Timeframes /\ time \in Nat /\ Bucket(time, 1) = time
  BY Buckets DEF Bridge, Clock
<1>6. flow'[1].time = time \/ ~(time >= flow[1].time)
  <2>1. BarOf(flow[1], 1, now, total)
    BY <1>5 DEF EnginesShape
  <2>2. flow'[1] = Fold(flow[1], time, 1)
    BY <1>3, <1>5
  <2>3. flow[1].time \in Int
    BY <2>1, FieldsOfBar
  <2>4. /\ time > flow[1].time => Fold(flow[1], time, 1) = [time |-> time, count |-> 1]
        /\ time = flow[1].time => Fold(flow[1], time, 1) = [time |-> time, count |-> flow[1].count + 1]
    BY <1>5, <2>1, FoldsTrade
  <2> QED
    BY <1>5, <2>2, <2>3, <2>4
<1>7. flow'[1] # NoBar
  <2>1. BarOf(flow[1], 1, now, total)
    BY <1>5 DEF EnginesShape
  <2>2. flow'[1] = Fold(flow[1], time, 1)
    BY <1>3, <1>5
  <2>0. time \in Minutes /\ time <= now /\ total[time] > 0
    OBVIOUS
  <2> HIDE DEF time, U, r, closing, moved, all
  <2>3. Fold(flow[1], time, 1) # NoBar
    BY <1>5, <2>0, <2>1, FoldsTrade
  <2> QED
    BY <2>2, <2>3
<1>8. 1 \in moved <=> time >= flow[1].time
  BY <1>5
<1>9. ASSUME active'
      PROVE  /\ \A tf \in Timeframes, m \in Minutes :
                  Stored(rows'.bar[tf][m], r.bar[tf][m], U, tf, m)
             /\ \A m \in Minutes :
                  rows'.delta[1][m] = IF h.time >= flow[1].time /\ h.time = m
                                      THEN Flow(flow'[1]) ELSE r.delta[1][m]
             /\ \A m \in Minutes :
                  \/ rows'.ladder[m] = r.ladder[m]
                  \/ /\ flow[1].time = m /\ m \notin authoritative
                     /\ rows'.ladder[m] = flow[1].count
             /\ RowsShape(rows')
  <2>1. /\ rows'.bar = StoreBars(r.bar, U)
        /\ rows'.delta = StoreDeltas(r.delta, flow', moved)
        /\ rows'.ladder = IF closing = {} THEN r.ladder ELSE StoreLadder(r.ladder, flow[1])
        /\ rows' = [bar |-> rows'.bar, delta |-> rows'.delta, ladder |-> rows'.ladder]
    BY <1>1, <1>9
  <2>2. ByMinute(r.delta[1]) /\ ByMinute(r.ladder)
    BY <1>4 DEF RowsShape
  <2>3. closing # {} => flow[1].time \notin authoritative
    BY DEF ClosedBy
  <2> HIDE DEF r, U, moved, closing
  <2>4. \A tf \in Timeframes, m \in Minutes : Stored(rows'.bar[tf][m], r.bar[tf][m], U, tf, m)
    BY <2>1, BarsStored
  <2>5. /\ ByMinute(rows'.delta[1])
        /\ \A m \in Minutes :
             rows'.delta[1][m] = IF 1 \in moved /\ flow'[1] # NoBar /\ flow'[1].time = m
                                 THEN Flow(flow'[1]) ELSE r.delta[1][m]
    BY <2>1, <2>2, DeltasStored
  <2>6. /\ ByMinute(rows'.ladder)
        /\ closing = {} => rows'.ladder = r.ladder
        /\ closing # {} => \A m \in Minutes :
             rows'.ladder[m] = IF flow[1] # NoBar /\ flow[1].time = m
                               THEN flow[1].count ELSE r.ladder[m]
    BY <2>1, <2>2, LadderStored
  <2>7. RowsShape(rows')
    BY <2>1, <2>5, <2>6 DEF RowsShape
  <2>8. \A m \in Minutes :
          rows'.delta[1][m] = IF h.time >= flow[1].time /\ h.time = m
                              THEN Flow(flow'[1]) ELSE r.delta[1][m]
    BY <1>6, <1>7, <1>8, <2>5
  <2>9. \A m \in Minutes :
          \/ rows'.ladder[m] = r.ladder[m]
          \/ /\ flow[1].time = m /\ m \notin authoritative
             /\ rows'.ladder[m] = flow[1].count
    BY <2>3, <2>6
  <2> QED
    BY <2>4, <2>7, <2>8, <2>9 DEF r, U
<1>10. ~active' => rows' = rows /\ RowsShape(rows')
  BY <1>1, <1>4
<1> HIDE DEF all, closing, moved
<1> QED
  BY <1>1, <1>2, <1>3, <1>9, <1>10 DEF RanEngines

(* ----------------------- the handler of a bar frame --------------------- *)

(* What a bar frame makes of the bucket of a timeframe, and whether it     *)
(* ends it.                                                                *)
Made(f, tf, table) == IF tf = 1 THEN Native(f) ELSE Rolled(f, tf, table)
Ends(f, tf) == f.closed /\ Bucket(f.time + 1, tf) > Bucket(f.time, tf)
Sent(f, tf) == Update(tf, Made(f, tf, rows.bar[1]), Ends(f, tf))

LEMMA MadeForBucket ==
  ASSUME NEW f \in Frame, NEW tf \in Timeframes, NEW table
  PROVE  /\ Made(f, tf, table).time = Bucket(f.time, tf)
         /\ Made(f, tf, table) = [time |-> Made(f, tf, table).time, count |-> Made(f, tf, table).count]
         /\ tf = 1 => Made(f, tf, table).count = f.count /\ (Ends(f, tf) <=> f.closed)
<1>0. (\A m \in Minutes : m \in Nat) /\ f.time \in Minutes /\ f.closed \in BOOLEAN
  <2>1. \A m \in Minutes : m \in Nat
    BY EnginesAssumption
  <2>2. f.time \in Minutes /\ f.closed \in BOOLEAN
    BY DEF Frame
  <2> QED
    BY <2>1, <2>2
<1>1. f.time \in Minutes /\ f.time \in Nat /\ f.time + 1 \in Nat /\ f.closed \in BOOLEAN
  <2> DEFINE t == f.time
  <2>1. t \in Nat
    BY <1>0
  <2> HIDE DEF t
  <2>2. t \in Nat /\ t + 1 \in Nat
    BY <2>1
  <2> QED
    BY <1>0, <2>2 DEF t
<1>2. Bucket(f.time, 1) = f.time /\ Bucket(f.time + 1, 1) = f.time + 1
  BY <1>1, Buckets
<1>3. CASE tf = 1
  <2>1. Made(f, tf, table) = [time |-> f.time, count |-> f.count]
    BY <1>3 DEF Made, Native
  <2>2. Ends(f, tf) <=> f.closed
    BY <1>1, <1>2, <1>3 DEF Ends
  <2> QED
    BY <1>2, <1>3, <2>1, <2>2
<1>4. CASE tf # 1
  <2> DEFINE c == RollUp([known EXCEPT ![f.time] = f.count], table, Bucket(f.time, tf), tf)
  <2>1. Made(f, tf, table) = [time |-> Bucket(f.time, tf), count |-> c]
    BY <1>4 DEF Made, Rolled
  <2> HIDE DEF c
  <2> QED
    BY <1>4, <2>1
<1> QED
  BY <1>3, <1>4

LEMMA SentUpdates ==
  ASSUME NEW f \in Frame, NEW t, NEW trades, f.time <= t, trades[f.time] > 0, t \in Nat
  PROVE  /\ BarUpdates(f) = {Sent(f, tf) : tf \in Timeframes}
         /\ \A tf \in Timeframes :
              /\ UpdateOf(Sent(f, tf), t, trades)
              /\ Sent(f, tf).tf = tf /\ Sent(f, tf).time = Bucket(f.time, tf)
              /\ Sent(f, tf).closed = Ends(f, tf)
              /\ Sent(f, tf).count = Made(f, tf, rows.bar[1]).count
              /\ (CHOOSE u \in BarUpdates(f) : u.tf = tf) = Sent(f, tf)
<1>1. BarUpdates(f) = {Sent(f, tf) : tf \in Timeframes}
  BY DEF BarUpdates, Sent, Made, Ends
<1>2. f.time \in Minutes /\ f.time \in Nat
  BY EnginesAssumption DEF Frame
<1>3. ASSUME NEW tf \in Timeframes
      PROVE  /\ UpdateOf(Sent(f, tf), t, trades)
             /\ Sent(f, tf).tf = tf /\ Sent(f, tf).time = Bucket(f.time, tf)
             /\ Sent(f, tf).closed = Ends(f, tf)
             /\ Sent(f, tf).count = Made(f, tf, rows.bar[1]).count
  <2> DEFINE b == Made(f, tf, rows.bar[1])
             k == Bucket(f.time, tf)
  <2>1. b.time = k
    BY MadeForBucket
  <2>2. k \in Minutes /\ k \in Nat /\ k <= f.time /\ (tf = 1 => k = f.time)
    BY <1>2, Buckets
  <2>3. Ends(f, tf) \in BOOLEAN
    BY DEF Ends
  <2> HIDE DEF b, k
  <2>4. Sent(f, tf) = [tf |-> tf, time |-> k, count |-> b.count, closed |-> Ends(f, tf)]
    BY <2>1 DEF Sent, Update, b
  <2>5. k <= t /\ (tf = 1 => trades[k] > 0)
    BY <1>2, <2>2
  <2> HIDE DEF Ends
  <2> QED
    BY <2>2, <2>3, <2>4, <2>5 DEF UpdateOf, b, k
<1>4. ASSUME NEW tf \in Timeframes
      PROVE  (CHOOSE u \in BarUpdates(f) : u.tf = tf) = Sent(f, tf)
  <2> DEFINE c == CHOOSE u \in BarUpdates(f) : u.tf = tf
  <2>1. Sent(f, tf) \in BarUpdates(f) /\ Sent(f, tf).tf = tf
    BY <1>1, <1>3
  <2>2. c \in BarUpdates(f) /\ c.tf = tf
    BY <2>1
  <2> HIDE DEF c
  <2>3. PICK g \in Timeframes : c = Sent(f, g)
    BY <1>1, <2>2
  <2>4. g = tf
    BY <1>3, <2>2, <2>3
  <2> QED
    BY <2>3, <2>4 DEF c
<1> QED
  BY <1>1, <1>3, <1>4

LEMMA Reconciled ==
  ASSUME NEW b, NEW u, NEW tf, NEW t, NEW trades, BarOf(b, tf, t, trades),
         UpdateOf(u, t, trades), u.tf = tf
  PROVE  /\ BarOf(Reconcile(b, u), tf, t, trades)
         /\ \/ u.closed /\ b.time <= u.time /\ Reconcile(b, u) = NoBar
            \/ ~u.closed /\ b.time <= u.time /\ Reconcile(b, u) = [time |-> u.time, count |-> u.count]
            \/ b.time > u.time /\ Reconcile(b, u) = b
<1>1. b.time \in Int /\ u.time \in Int /\ u.closed \in BOOLEAN
  <2>1. u.time \in Minutes
    BY DEF UpdateOf
  <2>2. \A m \in Minutes : m \in Nat
    BY EnginesAssumption
  <2>3. u.time \in Int
    BY <2>1, <2>2
  <2> QED
    BY <2>3, FieldsOfBar DEF UpdateOf
<1>2. /\ u.closed /\ b.time <= u.time => Reconcile(b, u) = NoBar
      /\ b.time > u.time => Reconcile(b, u) = b
      /\ ~u.closed /\ b.time <= u.time => Reconcile(b, u) = [time |-> u.time, count |-> u.count]
  BY <1>1 DEF Reconcile
<1>3. BarOf([time |-> u.time, count |-> u.count], tf, t, trades) /\ BarOf(NoBar, tf, t, trades)
  BY DEF BarOf, UpdateOf
<1>4. b.time <= u.time \/ b.time > u.time
  BY <1>1
<1> QED
  BY <1>1, <1>2, <1>3, <1>4

(* What HandleBar does with frame f, said of each bar, update and row. *)
HandledBar(f, r) ==
  /\ \A tf \in Timeframes : /\ bars'[tf] = Reconcile(bars[tf], Sent(f, tf))
                            /\ flow'[tf] = Made(f, tf, rows.delta[1])
  /\ known' = [known EXCEPT ![f.time] = f.count]
  /\ authoritative' = IF f.closed /\ ~f.partial
                      THEN authoritative \cup {f.time} ELSE authoritative
  /\ snapshots' = Remember(snapshots, BarUpdates(f))
  /\ gap' = (gap /\ f.partial)
  /\ active' \in BOOLEAN /\ (active' => ~f.partial)
  /\ ~active' => rows' = rows
  /\ active' =>
       /\ \A tf \in Timeframes, m \in Minutes :
            Stored(rows'.bar[tf][m], r.bar[tf][m], BarUpdates(f), tf, m)
       /\ \A m \in Minutes :
            rows'.delta[1][m] = IF f.time = m THEN [by |-> "bookmap", count |-> f.count]
                                ELSE r.delta[1][m]
       /\ \A m \in Minutes :
            rows'.ladder[m] = IF f.time = m THEN f.count ELSE r.ladder[m]
  /\ RowsShape(rows')
  /\ final' = IF f.closed /\ active' THEN final \cup {f.time} ELSE final
  /\ seen' = f.upto
  /\ queue' = Tail(queue)
  /\ unseen' = FALSE
  /\ UNCHANGED <<bridge, link, task, late, highest, faults, shed, mixed>>

LEMMA BarIsHandled ==
  ASSUME Bridge, EnginesShape, HandleBar, NEW f \in Frame, f = Head(queue),
         f.time <= now, total[f.time] > 0
  PROVE  HandledBar(f, Evaluated(active', snapshots', flow'))
<1> DEFINE U == BarUpdates(f)
           r == Evaluated(active', snapshots', flow')
           all == [bar |-> StoreBars(r.bar, U), delta |-> StoreDeltas(r.delta, flow', Timeframes),
                   ladder |-> StoreLadder(r.ladder, flow'[1])]
           Parts(g) ==
             /\ flow' = SeedBars(g)
             /\ bars' = [tf \in Timeframes |-> Reconcile(bars[tf], CHOOSE u \in BarUpdates(g) : u.tf = tf)]
             /\ known' = [known EXCEPT ![g.time] = g.count]
             /\ authoritative' = IF g.closed /\ ~g.partial
                                 THEN authoritative \cup {g.time} ELSE authoritative
             /\ snapshots' = Remember(snapshots, BarUpdates(g))
             /\ gap' = (gap /\ g.partial)
             /\ active' \in IF g.partial THEN {FALSE} ELSE BOOLEAN
             /\ rows' = IF ~active' THEN r ELSE [bar |-> StoreBars(r.bar, BarUpdates(g)),
                            delta |-> StoreDeltas(r.delta, flow', Timeframes),
                            ladder |-> StoreLadder(r.ladder, flow'[1])]
             /\ final' = IF g.closed /\ active' THEN final \cup {g.time} ELSE final
             /\ seen' = g.upto
             /\ queue' = Tail(queue)
             /\ unseen' = FALSE
             /\ UNCHANGED <<bridge, link, task, late, highest, faults, shed, mixed>>
<1>p. Parts(Head(queue))
  BY DEF HandleBar
<1>q. Parts(f)
  <2> HIDE DEF Parts
  <2> QED
    BY <1>p
<1>1. /\ flow' = SeedBars(f)
      /\ bars' = [tf \in Timeframes |-> Reconcile(bars[tf], CHOOSE u \in U : u.tf = tf)]
      /\ known' = [known EXCEPT ![f.time] = f.count]
      /\ authoritative' = IF f.closed /\ ~f.partial
                          THEN authoritative \cup {f.time} ELSE authoritative
      /\ snapshots' = Remember(snapshots, U)
      /\ gap' = (gap /\ f.partial)
      /\ active' \in IF f.partial THEN {FALSE} ELSE BOOLEAN
      /\ rows' = IF ~active' THEN r ELSE all
      /\ final' = IF f.closed /\ active' THEN final \cup {f.time} ELSE final
      /\ seen' = f.upto
      /\ queue' = Tail(queue)
      /\ unseen' = FALSE
      /\ UNCHANGED <<bridge, link, task, late, highest, faults, shed, mixed>>
  BY <1>q
<1>2. now \in Nat /\ 1 \in Timeframes /\ f.time \in Nat /\ Bucket(f.time, 1) = f.time
  <2>0. now \in Minutes
    BY DEF Bridge, Clock
  <2>1. f.time \in Minutes
    BY DEF Frame
  <2>2. (\A m \in Minutes : m \in Nat) /\ 1 \in Timeframes
    BY EnginesAssumption
  <2>3. now \in Nat /\ f.time \in Nat
    BY <2>0, <2>1, <2>2
  <2> QED
    BY <2>2, <2>3, BucketOfOne
<1>3. \A tf \in Timeframes : (CHOOSE u \in U : u.tf = tf) = Sent(f, tf)
  BY <1>2, SentUpdates
<1>4. \A tf \in Timeframes : bars'[tf] = Reconcile(bars[tf], Sent(f, tf))
  <2> HIDE DEF U
  <2> QED
    BY <1>1, <1>3
<1>5. \A tf \in Timeframes : flow'[tf] = Made(f, tf, rows.delta[1])
  BY <1>1 DEF SeedBars, Made
<1>6. active' \in BOOLEAN /\ (active' => ~f.partial)
  BY <1>1
<1>7. RowsShape(r) /\ (~active' => r = rows)
  BY RowsEvaluated DEF EnginesShape
<1>8. flow'[1] = [time |-> f.time, count |-> f.count] /\ flow'[1] # NoBar
  BY <1>2, <1>5 DEF Made, Native, NoBar
<1>9. ASSUME active'
      PROVE  /\ \A tf \in Timeframes, m \in Minutes :
                  Stored(rows'.bar[tf][m], r.bar[tf][m], U, tf, m)
             /\ \A m \in Minutes :
                  rows'.delta[1][m] = IF f.time = m THEN [by |-> "bookmap", count |-> f.count]
                                      ELSE r.delta[1][m]
             /\ \A m \in Minutes :
                  rows'.ladder[m] = IF f.time = m THEN f.count ELSE r.ladder[m]
             /\ RowsShape(rows')
  <2>1. /\ rows'.bar = StoreBars(r.bar, U)
        /\ rows'.delta = StoreDeltas(r.delta, flow', Timeframes)
        /\ rows'.ladder = StoreLadder(r.ladder, flow'[1])
        /\ rows' = [bar |-> rows'.bar, delta |-> rows'.delta, ladder |-> rows'.ladder]
    BY <1>1, <1>9
  <2>2. ByMinute(r.delta[1]) /\ ByMinute(r.ladder)
    BY <1>7 DEF RowsShape
  <2> HIDE DEF r, U
  <2>3. \A tf \in Timeframes, m \in Minutes : Stored(rows'.bar[tf][m], r.bar[tf][m], U, tf, m)
    BY <2>1, BarsStored
  <2>4. /\ ByMinute(rows'.delta[1])
        /\ \A m \in Minutes :
             rows'.delta[1][m] = IF 1 \in Timeframes /\ flow'[1] # NoBar /\ flow'[1].time = m
                                 THEN Flow(flow'[1]) ELSE r.delta[1][m]
    BY <2>1, <2>2, DeltasStored
  <2>5. /\ ByMinute(rows'.ladder)
        /\ \A m \in Minutes :
             rows'.ladder[m] = IF flow'[1] # NoBar /\ flow'[1].time = m
                               THEN flow'[1].count ELSE r.ladder[m]
    BY <2>1, <2>2, LadderStored
  <2>6. RowsShape(rows')
    BY <2>1, <2>4, <2>5 DEF RowsShape
  <2>7. flow'[1].time = f.time /\ flow'[1].count = f.count
        /\ Flow(flow'[1]) = [by |-> "bookmap", count |-> f.count]
    BY <1>8 DEF Flow
  <2> QED
    BY <1>2, <1>8, <2>3, <2>4, <2>5, <2>6, <2>7
<1>10. ~active' => rows' = rows /\ RowsShape(rows')
  BY <1>1, <1>7
<1> HIDE DEF all, r, U
<1> QED
  BY <1>1, <1>4, <1>5, <1>6, <1>9, <1>10 DEF HandledBar, r, U

(* --------------------- the queue under the bridge's steps --------------- *)

LEMMA TradeQueued ==
  ASSUME Bridge, QueueInv, now \notin authoritative, OnTrade
  PROVE  /\ \E d \in Nat : /\ Shifts(d, <<TradeFrame(sequence')>>)
                           /\ Lost(d, <<TradeFrame(sequence')>>)
                           /\ d <= Len(queue)
                           /\ d = 0 => shed' = shed
         /\ QueueInv'
<1> DEFINE f == TradeFrame(sequence')
           add == <<f>>
<1>1. /\ now' = now /\ sequence' = sequence + 1 /\ authoritative' = authoritative
      /\ total' \in [Minutes -> Nat] /\ total'[now] = total[now] + 1
      /\ \A m \in Minutes : m # now => total'[m] = total[m]
      /\ \A m \in Minutes : m <= now => (First(total', m) <=> First(total, m))
  BY TradeCounts DEF OnTrade, engines
<1>2. /\ \A m \in Minutes : m \in Nat
      /\ now \in Minutes /\ now \in Nat /\ sequence \in Nat /\ total \in [Minutes -> Nat]
      /\ total[now] \in Nat /\ total[now] <= sequence
  <2>1. \A m \in Minutes : m \in Nat
    BY EnginesAssumption
  <2> QED
    BY <2>1 DEF Bridge, Clock
<1>3. f = [type |-> "trade", time |-> now, count |-> 1, closed |-> FALSE,
           partial |-> FALSE, upto |-> sequence + 1]
  BY <1>1 DEF TradeFrame
<1>4. /\ f \in Frame /\ f.time = now /\ f.upto = sequence + 1 /\ ~f.closed
      /\ ~IsBar(f) /\ Floor(f) = sequence
  BY <1>2, <1>3 DEF Frame, Floor, IsBar
<1> HIDE DEF f
<1>5. add \in Seq(Frame) /\ Len(add) = 1 /\ add[1] = f
  BY <1>4
<1>6. Enqueue(add)
  BY DEF OnTrade, f
<1> HIDE DEF add
<1>7. PICK d \in Nat : Shifts(d, add) /\ Lost(d, add)
                       /\ (d = 0 \/ d < Len(queue) + Len(add)) /\ (d = 0 => shed' = shed)
  BY <1>5, <1>6, EnqueueShifts DEF QueueInv
<1>8. \A i \in 1 .. Len(queue) : /\ FrameInv(queue[i], now, sequence, total, authoritative)
                                 /\ queue[i] \in Frame
  BY ElementOfSeq DEF QueueInv
<1>9. ASSUME NEW i \in 1 .. Len(queue)
      PROVE  /\ FrameInv(queue[i], now', sequence', total', authoritative')
             /\ Ordered(queue[i], f)
  <2> DEFINE g == queue[i]
  <2>1. /\ FrameInv(g, now, sequence, total, authoritative)
        /\ g.time \in Minutes /\ g.upto \in Nat /\ g.closed \in BOOLEAN
        /\ g.count \in Nat
    BY <1>8 DEF Frame
  <2> HIDE DEF g
  <2>2. g.time \in Nat /\ total[g.time] \in Nat
    BY <1>2, <2>1
  <2>3. /\ g.time <= now /\ total[g.time] > 0 /\ g.upto <= sequence
        /\ g.closed => g.time < now
    BY <2>1 DEF FrameInv
  <2>4. total'[g.time] > 0 /\ (g.time < now => total'[g.time] = total[g.time])
        /\ (First(total', g.time) <=> First(total, g.time))
    BY <1>1, <1>2, <2>1, <2>2, <2>3
  <2>5. (sequence + 1) - total'[now] = sequence - total[now]
    BY <1>1, <1>2
  <2>6. FrameInv(g, now, sequence + 1, total', authoritative)
    <3>1. g.time <= now /\ total'[g.time] > 0 /\ g.upto <= sequence + 1
      BY <1>2, <2>1, <2>3, <2>4
    <3>2. ~IsBar(g) => ~g.closed /\ g.upto > 0
                       /\ (g.time = now <=> g.upto > sequence - total[now])
      BY <2>1 DEF FrameInv
    <3>3. /\ IsBar(g) => (g.partial <=> First(total', g.time))
          /\ g.closed => g.time < now /\ g.count = total'[g.time]
          /\ ~g.closed => g.time \notin authoritative
      BY <2>1, <2>3, <2>4 DEF FrameInv
    <3>4. IsBar(g) /\ ~g.closed /\ g.time = now =>
            g.count > 0 /\ g.count = g.upto - (sequence - total[now])
      BY <2>1 DEF FrameInv
    <3> QED
      BY <2>5, <3>1, <3>2, <3>3, <3>4 DEF FrameInv
  <2>7. Ordered(g, f)
    BY <1>2, <1>4, <2>1, <2>2, <2>3 DEF Ordered
  <2> QED
    BY <1>1, <2>6, <2>7 DEF g
<1>10. FrameInv(f, now', sequence', total', authoritative')
  <2>1. /\ total'[now] \in Nat /\ total'[now] > 0
        /\ sequence + 1 > (sequence + 1) - total'[now] /\ sequence + 1 > 0
    BY <1>1, <1>2
  <2> QED
    BY <1>1, <1>2, <1>4, <2>1 DEF FrameInv
<1>11. QueueInv'
  <2>1. sequence' \in Nat /\ sequence <= sequence' /\ sequence' = sequence + 1
    BY <1>1, <1>2
  <2>2. \A i \in 1 .. Len(add) : FrameInv(add[i], now', sequence', total', authoritative')
    BY <1>5, <1>10
  <2>3. \A i \in 1 .. Len(queue), j \in 1 .. Len(add) : Ordered(queue[i], add[j])
    BY <1>5, <1>9
  <2>4. \A i, j \in 1 .. Len(add) : ~(i < j) /\ ~(j = i + 1)
    BY <1>5
  <2>5. Floor(add[1]) = sequence /\ add[Len(add)].upto = sequence'
    BY <1>4, <1>5, <2>1
  <2>6. Len(add) # 0
    BY <1>5
  <2> QED
    BY <1>2, <1>7, <1>9, <2>1, <2>2, <2>3, <2>4, <2>5, <2>6, QueueMoves
<1>12. d <= Len(queue)
  <2>1. Len(queue) \in Nat
    BY LenProperties DEF QueueInv
  <2> QED
    BY <1>5, <1>7, <2>1
<1> QED
  BY <1>7, <1>11, <1>12 DEF add, f

LEMMA MinuteQueued ==
  ASSUME Bridge, QueueInv, OnTimestamp
  PROVE  /\ current # NoMinute =>
              \E d \in Nat : /\ Shifts(d, <<BarFrame(current, TRUE)>>)
                             /\ Lost(d, <<BarFrame(current, TRUE)>>)
                             /\ d <= Len(queue)
                             /\ d = 0 => shed' = shed
         /\ QueueInv'
<1>1. /\ now' = now + 1 /\ now' \in Minutes /\ sequence' = sequence /\ total' = total
      /\ total[now'] = 0 /\ authoritative' = authoritative
      /\ \A m \in Minutes : First(total', m) <=> First(total, m)
      /\ current = NoMinute => queue' = queue
      /\ current # NoMinute => Enqueue(<<BarFrame(current, TRUE)>>)
  BY MinuteBegins DEF OnTimestamp, engines
<1>2. /\ \A m \in Minutes : m \in Nat
      /\ now \in Minutes /\ now \in Nat /\ sequence \in Nat /\ total \in [Minutes -> Nat]
      /\ total[now] \in Nat /\ total[now] <= sequence
  <2>1. \A m \in Minutes : m \in Nat
    BY EnginesAssumption
  <2> QED
    BY <2>1 DEF Bridge, Clock
<1>3. \A i \in 1 .. Len(queue) : /\ FrameInv(queue[i], now, sequence, total, authoritative)
                                 /\ queue[i] \in Frame
  BY ElementOfSeq DEF QueueInv
<1>4. ASSUME NEW i \in 1 .. Len(queue)
      PROVE  FrameInv(queue[i], now', sequence', total', authoritative')
  <2> DEFINE g == queue[i]
  <2>1. /\ FrameInv(g, now, sequence, total, authoritative)
        /\ g.time \in Minutes /\ g.upto \in Nat /\ g.closed \in BOOLEAN
        /\ g.count \in Nat
    BY <1>3 DEF Frame
  <2> HIDE DEF g
  <2>2. g.time \in Nat /\ total[g.time] \in Nat
    BY <1>2, <2>1
  <2>3. /\ g.time <= now /\ total[g.time] > 0 /\ g.upto <= sequence
        /\ g.closed => g.time < now
        /\ g.time # now + 1 /\ ~(g.upto > sequence - 0)
    BY <1>2, <2>1, <2>2 DEF FrameInv
  <2>4. FrameInv(g, now + 1, sequence, total, authoritative)
    BY <1>1, <1>2, <2>1, <2>2, <2>3 DEF FrameInv
  <2> QED
    BY <1>1, <2>4 DEF g
<1>5. CASE current = NoMinute
  <2>1. queue' = queue /\ Len(queue) = Len(queue')
    BY <1>1, <1>5
  <2> QED
    BY <1>1, <1>4, <1>5, <2>1 DEF QueueInv
<1>6. CASE current # NoMinute
  <2> DEFINE f == BarFrame(current, TRUE)
             add == <<f>>
  <2>1. /\ current.time = now /\ current.count = total[now] /\ total[now] > 0
        /\ current.partial \in BOOLEAN /\ (current.partial <=> First(total, now))
    BY <1>6, BridgeFacts
  <2>2. /\ f \in Frame /\ f.time = now /\ f.upto = sequence /\ f.closed /\ f.count = total[now]
        /\ IsBar(f) /\ Floor(f) = sequence /\ f.partial = current.partial
    BY <1>2, <2>1 DEF Frame, Floor, IsBar, BarFrame
  <2> HIDE DEF f
  <2>3. add \in Seq(Frame) /\ Len(add) = 1 /\ add[1] = f
    BY <2>2
  <2>4. Enqueue(add)
    BY <1>1, <1>6 DEF f
  <2> HIDE DEF add
  <2>5. PICK d \in Nat : Shifts(d, add) /\ Lost(d, add)
                         /\ (d = 0 \/ d < Len(queue) + Len(add)) /\ (d = 0 => shed' = shed)
    BY <2>3, <2>4, EnqueueShifts DEF QueueInv
  <2>6. ASSUME NEW i \in 1 .. Len(queue) PROVE Ordered(queue[i], f)
    <3>1. queue[i].upto <= sequence
      BY <1>3 DEF FrameInv
    <3> QED
      BY <2>2, <3>1 DEF Ordered
  <2>7. FrameInv(f, now', sequence', total', authoritative')
    BY <1>1, <1>2, <2>1, <2>2 DEF FrameInv
  <2>a. /\ \A i \in 1 .. Len(queue) : i > d =>
                FrameInv(queue[i], now', sequence', total', authoritative')
        /\ \A i \in 1 .. Len(add) :
             FrameInv(add[i], now', sequence', total', authoritative')
    BY <1>4, <2>3, <2>7
  <2>b. /\ \A i \in 1 .. Len(queue), j \in 1 .. Len(add) : Ordered(queue[i], add[j])
        /\ \A i, j \in 1 .. Len(add) : ~(i < j) /\ j # i + 1
    BY <2>3, <2>6
  <2>c. Len(add) > 0 /\ Len(add) # 0 /\ Floor(add[1]) = sequence
        /\ add[Len(add)].upto = sequence' /\ sequence \in Nat /\ sequence' \in Nat
        /\ sequence <= sequence'
    BY <1>1, <1>2, <2>2, <2>3
  <2>8. QueueInv'
    BY <2>5, <2>a, <2>b, <2>c, QueueMoves
  <2>9. d <= Len(queue)
    <3>1. Len(queue) \in Nat
      BY LenProperties DEF QueueInv
    <3> QED
      BY <2>3, <2>5, <3>1
  <2> QED
    BY <1>6, <2>5, <2>8, <2>9 DEF add, f
<1> QED
  BY <1>5, <1>6

(* The frames of a reconnected line. *)
Snapshot == (IF last = NoMinute THEN <<>> ELSE <<BarFrame(last, TRUE)>>)
            \o (IF current = NoMinute THEN <<>> ELSE <<BarFrame(current, FALSE)>>)

LEMMA SnapshotFrames ==
  ASSUME Bridge
  PROVE  /\ Snapshot \in Seq(Frame)
         /\ \A i \in 1 .. Len(Snapshot) :
              \/ last # NoMinute /\ i = 1 /\ Snapshot[i] = BarFrame(last, TRUE)
              \/ current # NoMinute /\ i = Len(Snapshot) /\ Snapshot[i] = BarFrame(current, FALSE)
         /\ \A i, j \in 1 .. Len(Snapshot) : i < j =>
              /\ last # NoMinute /\ current # NoMinute
              /\ Snapshot[i] = BarFrame(last, TRUE) /\ Snapshot[j] = BarFrame(current, FALSE)
         /\ last # NoMinute => /\ Len(Snapshot) > 0 /\ Snapshot[1] = BarFrame(last, TRUE)
                               /\ BarFrame(last, TRUE) \in Frame
         /\ current # NoMinute =>
              /\ Len(Snapshot) > 0 /\ Snapshot[Len(Snapshot)] = BarFrame(current, FALSE)
              /\ BarFrame(current, FALSE) \in Frame
         /\ Len(Snapshot) \in Nat
<1> DEFINE a == BarFrame(last, TRUE)
           b == BarFrame(current, FALSE)
           s == Snapshot
<1>1. now \in Minutes /\ sequence \in Nat /\ total \in [Minutes -> Nat]
  BY DEF Bridge, Clock
<1>2. last # NoMinute => a \in Frame
  <2>1. ASSUME last # NoMinute
        PROVE  last.time \in Minutes /\ last.count \in Nat /\ last.partial \in BOOLEAN
    BY <1>1, <2>1, BridgeFacts
  <2> QED
    BY <1>1, <2>1 DEF BarFrame, Frame
<1>3. current # NoMinute => b \in Frame
  <2>1. ASSUME current # NoMinute
        PROVE  current.time \in Minutes /\ current.count \in Nat /\ current.partial \in BOOLEAN
    BY <1>1, <2>1, BridgeFacts
  <2> QED
    BY <1>1, <2>1 DEF BarFrame, Frame
<1> DEFINE x == IF last = NoMinute THEN <<>> ELSE <<a>>
           y == IF current = NoMinute THEN <<>> ELSE <<b>>
<1>4. s = x \o y
  BY DEF Snapshot
<1> SUFFICES
         /\ s \in Seq(Frame)
         /\ \A i \in 1 .. Len(s) :
              \/ last # NoMinute /\ i = 1 /\ s[i] = a
              \/ current # NoMinute /\ i = Len(s) /\ s[i] = b
         /\ \A i, j \in 1 .. Len(s) : i < j =>
              last # NoMinute /\ current # NoMinute /\ s[i] = a /\ s[j] = b
         /\ last # NoMinute => Len(s) > 0 /\ s[1] = a /\ a \in Frame
         /\ current # NoMinute => Len(s) > 0 /\ s[Len(s)] = b /\ b \in Frame
         /\ Len(s) \in Nat
  OBVIOUS
<1> HIDE DEF a, b, s
<1>x. /\ x \in Seq(Frame)
      /\ last = NoMinute => Len(x) = 0
      /\ last # NoMinute => Len(x) = 1 /\ x[1] = a
  <2>1. CASE last = NoMinute
    BY <2>1, EmptySeq
  <2>2. CASE last # NoMinute
    <3>1. x = <<a>> /\ a \in Frame
      BY <1>2, <2>2
    <3> QED
      BY <2>2, <3>1
  <2> QED
    BY <2>1, <2>2
<1>y. /\ y \in Seq(Frame)
      /\ current = NoMinute => Len(y) = 0
      /\ current # NoMinute => Len(y) = 1 /\ y[1] = b
  <2>1. CASE current = NoMinute
    BY <2>1, EmptySeq
  <2>2. CASE current # NoMinute
    <3>1. y = <<b>> /\ b \in Frame
      BY <1>3, <2>2
    <3> QED
      BY <2>2, <3>1
  <2> QED
    BY <2>1, <2>2
<1> HIDE DEF x, y
<1>z. /\ s \in Seq(Frame) /\ Len(s) = Len(x) + Len(y)
      /\ \A i \in 1 .. Len(x) + Len(y) : s[i] = IF i <= Len(x) THEN x[i] ELSE y[i - Len(x)]
  BY <1>4, <1>x, <1>y, ConcatProperties
<1>5. CASE last = NoMinute /\ current = NoMinute
  <2>1. Len(s) = 0 /\ s \in Seq(Frame)
    BY <1>x, <1>y, <1>z, <1>5
  <2> QED
    BY <1>5, <2>1
<1>6. CASE last # NoMinute /\ current = NoMinute
  <2>0. Len(x) = 1 /\ Len(y) = 0 /\ x[1] = a
    BY <1>x, <1>y, <1>6
  <2>1. Len(s) = 1 /\ s[1] = a
    <3>1. Len(s) = 1 /\ \A i \in 1 .. 1 : s[i] = IF i <= 1 THEN x[i] ELSE y[i - 1]
      BY <1>z, <2>0
    <3>2. s[1] = x[1]
      BY <3>1
    <3> QED
      BY <2>0, <3>1, <3>2
  <2>2. /\ \A i \in 1 .. Len(s) : i = 1
        /\ \A i, j \in 1 .. Len(s) : ~(i < j)
        /\ Len(s) > 0 /\ Len(s) \in Nat
    BY <2>1
  <2> QED
    BY <1>2, <1>6, <1>z, <2>1, <2>2
<1>7. CASE last = NoMinute /\ current # NoMinute
  <2>0. Len(x) = 0 /\ Len(y) = 1 /\ y[1] = b
    BY <1>x, <1>y, <1>7
  <2>1. Len(s) = 1 /\ s[1] = b
    <3>1. Len(s) = 1 /\ \A i \in 1 .. 1 : s[i] = IF i <= 0 THEN x[i] ELSE y[i - 0]
      BY <1>z, <2>0
    <3>2. s[1] = y[1 - 0]
      BY <3>1
    <3>3. 1 - 0 = 1
      OBVIOUS
    <3> QED
      BY <2>0, <3>1, <3>2, <3>3
  <2>2. /\ \A i \in 1 .. Len(s) : i = 1
        /\ \A i, j \in 1 .. Len(s) : ~(i < j)
        /\ Len(s) > 0 /\ Len(s) \in Nat
    BY <2>1
  <2> QED
    BY <1>3, <1>7, <1>z, <2>1, <2>2
<1>8. CASE last # NoMinute /\ current # NoMinute
  <2>0. Len(x) = 1 /\ Len(y) = 1 /\ x[1] = a /\ y[1] = b
    BY <1>x, <1>y, <1>8
  <2>1. Len(s) = 2 /\ s[1] = x[1] /\ s[2] = y[1]
    <3>1. Len(s) = 2 /\ \A i \in 1 .. 2 : s[i] = IF i <= 1 THEN x[i] ELSE y[i - 1]
      BY <1>z, <2>0
    <3>2. s[1] = x[1]
      BY <3>1
    <3>3. s[2] = y[2 - 1]
      BY <3>1
    <3>4. 2 - 1 = 1
      OBVIOUS
    <3> QED
      BY <3>1, <3>2, <3>3, <3>4
  <2>2. \A i \in 1 .. Len(s) : i = 1 \/ i = 2
    BY <2>1
  <2> QED
    BY <1>2, <1>3, <1>8, <1>z, <2>0, <2>1, <2>2
<1> QED
  BY <1>5, <1>6, <1>7, <1>8

LEMMA SnapshotsQueued ==
  ASSUME Bridge, QueueInv, now \notin authoritative, SendSnapshots
  PROVE  /\ \E d \in Nat : /\ Shifts(d, Snapshot) /\ Lost(d, Snapshot)
                           /\ d = 0 \/ d < Len(queue) + Len(Snapshot)
                           /\ d = 0 => shed' = shed
         /\ QueueInv'
<1> DEFINE a == BarFrame(last, TRUE)
           b == BarFrame(current, FALSE)
           add == Snapshot
<1>1. /\ now' = now /\ sequence' = sequence /\ total' = total /\ authoritative' = authoritative
      /\ Enqueue(add)
  BY DEF SendSnapshots, Snapshot, bridge, engines
<1>2. /\ \A m \in Minutes : m \in Nat
      /\ now \in Minutes /\ now \in Nat /\ sequence \in Nat /\ total \in [Minutes -> Nat]
      /\ total[now] \in Nat /\ total[now] <= sequence
  <2>1. \A m \in Minutes : m \in Nat
    BY EnginesAssumption
  <2> QED
    BY <2>1 DEF Bridge, Clock
<1>3. \A i \in 1 .. Len(queue) : /\ FrameInv(queue[i], now, sequence, total, authoritative)
                                 /\ queue[i] \in Frame
  BY ElementOfSeq DEF QueueInv
<1>4. ASSUME last # NoMinute
      PROVE  /\ FrameInv(a, now, sequence, total, authoritative)
             /\ Floor(a) = sequence /\ a.upto = sequence
             /\ \A i \in 1 .. Len(queue) : Ordered(queue[i], a)
  <2>1. /\ last.time \in Minutes /\ last.time \in Nat /\ last.time < now
        /\ total[last.time] > 0 /\ last.count = total[last.time]
        /\ last.partial \in BOOLEAN /\ (last.partial <=> First(total, last.time))
    BY <1>4, BridgeFacts
  <2>2. /\ a.time = last.time /\ a.upto = sequence /\ a.closed /\ a.count = last.count
        /\ IsBar(a) /\ Floor(a) = sequence /\ a.partial = last.partial
    BY DEF Floor, IsBar, BarFrame
  <2> HIDE DEF a
  <2>3. FrameInv(a, now, sequence, total, authoritative)
    <3> DEFINE t == last.time
    <3>1. /\ t \in Nat /\ t < now /\ total[t] > 0 /\ a.time = t /\ a.count = total[t]
          /\ (a.partial <=> First(total, t))
      BY <2>1, <2>2
    <3> HIDE DEF t
    <3> QED
      BY <1>2, <2>2, <3>1 DEF FrameInv
  <2>4. ASSUME NEW i \in 1 .. Len(queue) PROVE Ordered(queue[i], a)
    <3>1. queue[i].upto <= sequence
      BY <1>3 DEF FrameInv
    <3> QED
      BY <2>2, <3>1 DEF Ordered
  <2> QED
    BY <2>2, <2>3, <2>4
<1>5. ASSUME current # NoMinute
      PROVE  /\ FrameInv(b, now, sequence, total, authoritative)
             /\ Floor(b) = sequence /\ b.upto = sequence
             /\ \A i \in 1 .. Len(queue) : Ordered(queue[i], b)
             /\ last # NoMinute => Ordered(a, b)
  <2>1. /\ current.time = now /\ current.count = total[now] /\ total[now] > 0
        /\ current.partial \in BOOLEAN /\ (current.partial <=> First(total, now))
    BY <1>5, BridgeFacts
  <2>2. /\ b.time = now /\ b.upto = sequence /\ ~b.closed /\ b.count = total[now]
        /\ IsBar(b) /\ Floor(b) = sequence /\ b.partial = current.partial
    BY <2>1 DEF Floor, IsBar, BarFrame
  <2> HIDE DEF b
  <2>3. sequence - (sequence - total[now]) = total[now]
    BY <1>2
  <2>4. FrameInv(b, now, sequence, total, authoritative)
    BY <1>2, <2>1, <2>2, <2>3 DEF FrameInv
  <2>5. ASSUME NEW i \in 1 .. Len(queue) PROVE Ordered(queue[i], b)
    <3>1. queue[i].upto <= sequence /\ queue[i].time <= now /\ (queue[i].closed => queue[i].time < now)
      BY <1>3 DEF FrameInv
    <3> QED
      BY <2>2, <3>1 DEF Ordered
  <2>6. ASSUME last # NoMinute PROVE Ordered(a, b)
    <3> DEFINE t == last.time
    <3>1. t \in Nat /\ t < now /\ a.time = t /\ a.upto = sequence
      BY <2>6, BridgeFacts DEF BarFrame
    <3> HIDE DEF t, a
    <3>2. t <= now
      BY <1>2, <3>1
    <3> QED
      BY <1>2, <2>2, <3>1, <3>2 DEF Ordered
  <2> QED
    BY <2>2, <2>4, <2>5, <2>6
<1>6. /\ add \in Seq(Frame) /\ Len(add) \in Nat
      /\ \A i \in 1 .. Len(add) : \/ last # NoMinute /\ i = 1 /\ add[i] = a
                                  \/ current # NoMinute /\ i = Len(add) /\ add[i] = b
      /\ \A i, j \in 1 .. Len(add) : i < j =>
           last # NoMinute /\ current # NoMinute /\ add[i] = a /\ add[j] = b
  BY SnapshotFrames
<1> HIDE DEF a, b, add
<1>7. PICK d \in Nat : Shifts(d, add) /\ Lost(d, add)
                       /\ (d = 0 \/ d < Len(queue) + Len(add)) /\ (d = 0 => shed' = shed)
  BY <1>1, <1>6, EnqueueShifts DEF QueueInv
<1>8. QueueInv'
  <2>1. \A i \in 1 .. Len(queue) : FrameInv(queue[i], now', sequence', total', authoritative')
    BY <1>1, <1>3
  <2>2. \A i \in 1 .. Len(add) : FrameInv(add[i], now', sequence', total', authoritative')
    BY <1>1, <1>4, <1>5, <1>6
  <2>3. \A i \in 1 .. Len(queue), j \in 1 .. Len(add) : Ordered(queue[i], add[j])
    BY <1>4, <1>5, <1>6
  <2>4. \A i, j \in 1 .. Len(add) : i < j => Ordered(add[i], add[j])
    BY <1>5, <1>6
  <2>5. \A i \in 1 .. Len(add) : Floor(add[i]) = sequence /\ add[i].upto = sequence
    BY <1>4, <1>5, <1>6
  <2>6. \A i, j \in 1 .. Len(add) : j = i + 1 => Floor(add[j]) = add[i].upto
    BY <2>5
  <2>7. Len(add) > 0 => Floor(add[1]) = sequence /\ add[Len(add)].upto = sequence'
    <3>1. Len(add) > 0 => 1 \in 1 .. Len(add) /\ Len(add) \in 1 .. Len(add)
      BY <1>6
    <3> QED
      BY <1>1, <2>5, <3>1
  <2>8. sequence' \in Nat /\ sequence <= sequence' /\ sequence' = sequence
    BY <1>1, <1>2
  <2> QED
    BY <1>2, <1>7, <2>1, <2>2, <2>3, <2>4, <2>6, <2>7, <2>8, QueueMoves
<1> QED
  BY <1>7, <1>8 DEF add

(* Where the frames of a queue come from. *)
Comes(d, add) ==
  /\ Len(queue) \in Nat /\ Len(add) \in Nat /\ d \in Nat
  /\ Len(queue') = (Len(queue) + Len(add)) - d
  /\ \A i \in 1 .. Len(queue') :
       \/ \E j \in 1 .. Len(queue) : j = i + d /\ queue'[i] = queue[j]
       \/ \E j \in 1 .. Len(add) : Len(queue) + j = i + d /\ queue'[i] = add[j]
  /\ \A j \in 1 .. Len(queue) : j > d => j - d \in 1 .. Len(queue') /\ queue'[j - d] = queue[j]
  /\ \A j \in 1 .. Len(add) : Len(queue) + j > d =>
       /\ (Len(queue) + j) - d \in 1 .. Len(queue')
       /\ queue'[(Len(queue) + j) - d] = add[j]

LEMMA FramesOf ==
  ASSUME queue \in Seq(Frame), NEW d, NEW add, Shifts(d, add)
  PROVE  Comes(d, add)
<1> DEFINE n == Len(queue)
           k == Len(add)
           l == Len(queue')
<1>1. n \in Nat /\ k \in Nat /\ d \in Nat /\ l = n + k - d /\ d <= n + k
  BY LenProperties DEF Shifts
<1>2. /\ \A i \in 1 .. l : /\ i + d <= n => queue'[i] = queue[i + d]
                           /\ i + d > n => queue'[i] = add[(i + d) - n]
      /\ \A j \in 1 .. n : j > d => queue'[j - d] = queue[j]
      /\ \A j \in 1 .. k : n + j > d => queue'[(n + j) - d] = add[j]
  BY DEF Shifts
<1> HIDE DEF n, k, l
<1>3. ASSUME NEW i \in 1 .. l
      PROVE  \/ \E j \in 1 .. n : j = i + d /\ queue'[i] = queue[j]
             \/ \E j \in 1 .. k : n + j = i + d /\ queue'[i] = add[j]
  <2>1. CASE i + d <= n
    <3> DEFINE j == i + d
    <3>1. j \in 1 .. n /\ j = i + d /\ queue'[i] = queue[j]
      BY <1>1, <1>2, <2>1
    <3> HIDE DEF j
    <3> QED
      BY <3>1
  <2>2. CASE i + d > n
    <3> DEFINE j == (i + d) - n
    <3>1. j \in 1 .. k /\ n + j = i + d /\ queue'[i] = add[j]
      BY <1>1, <1>2, <2>2
    <3> HIDE DEF j
    <3> QED
      BY <3>1
  <2> QED
    BY <1>1, <2>1, <2>2
<1>4. \A j \in 1 .. n : j > d => j - d \in 1 .. l
  BY <1>1
<1>5. \A j \in 1 .. k : n + j > d => (n + j) - d \in 1 .. l
  BY <1>1
<1>6. l = (n + k) - d
  BY <1>1
<1> QED
  BY <1>1, <1>2, <1>3, <1>4, <1>5, <1>6 DEF Comes, n, k, l

HandlerOf(h, time, trades) ==
  h # Idle => h.time \in Minutes /\ h.time <= time /\ trades[h.time] > 0 /\ h.gap \in BOOLEAN

Handlers ==
  /\ HandlerOf(task, now, total) /\ HandlerOf(late, now, total)
  /\ gap \in BOOLEAN /\ active \in BOOLEAN
  /\ task # Idle =>
       /\ task.time \notin authoritative
       /\ \A i \in 1 .. Len(queue) : ~queue[i].closed => task.time <= queue[i].time

Known ==
  /\ authoritative \subseteq Minutes /\ final \subseteq authoritative
  /\ \A m \in authoritative :
       m < now /\ total[m] > 0 /\ ~First(total, m) /\ known[m] = total[m]
  /\ known \in [Minutes -> Nat]
  /\ \A m \in Minutes : total[m] = 0 => known[m] = 0 /\ rows.bar[1][m].count = 0

Base == Bridge /\ QueueInv /\ Handlers /\ Known /\ EnginesShape

LEMMA MinutesAreNat == \A m \in Minutes : m \in Nat
BY EnginesAssumption

LEMMA BaseFacts ==
  ASSUME Base
  PROVE  /\ now \in Minutes /\ now \in Nat /\ sequence \in Nat
         /\ total \in [Minutes -> Nat] /\ total[now] \in Nat /\ total[now] <= sequence
         /\ now \notin authoritative
         /\ queue \in Seq(Frame) /\ Len(queue) \in Nat
         /\ \A i \in 1 .. Len(queue) :
              /\ queue[i] \in Frame
              /\ FrameInv(queue[i], now, sequence, total, authoritative)
              /\ queue[i].time \in Minutes /\ queue[i].time \in Nat /\ queue[i].time <= now
              /\ total[queue[i].time] > 0 /\ queue[i].closed \in BOOLEAN
         /\ task # Idle => task.time \in Minutes /\ task.time \in Nat
         /\ late # Idle => late.time \in Minutes /\ late.time \in Nat
<1>1. /\ now \in Minutes /\ sequence \in Nat /\ total \in [Minutes -> Nat] /\ total[now] <= sequence
  BY DEF Base, Bridge, Clock
<1>2. now \in Nat /\ total[now] \in Nat
  BY <1>1, MinutesAreNat
<1>3. now \notin authoritative
  BY <1>2 DEF Base, Known
<1>4. queue \in Seq(Frame) /\ Len(queue) \in Nat
  BY LenProperties DEF Base, QueueInv
<1>5. ASSUME NEW i \in 1 .. Len(queue)
      PROVE  /\ queue[i] \in Frame
             /\ FrameInv(queue[i], now, sequence, total, authoritative)
             /\ queue[i].time \in Minutes /\ queue[i].time \in Nat /\ queue[i].time <= now
             /\ total[queue[i].time] > 0 /\ queue[i].closed \in BOOLEAN
  <2> DEFINE f == queue[i]
  <2>1. f \in Frame
    BY <1>4, ElementOfSeq
  <2>2. FrameInv(f, now, sequence, total, authoritative)
    BY DEF Base, QueueInv
  <2> HIDE DEF f
  <2>3. f.time \in Minutes /\ f.closed \in BOOLEAN
    BY <2>1 DEF Frame
  <2>4. f.time \in Nat
    BY <2>3, MinutesAreNat
  <2>5. f.time <= now /\ total[f.time] > 0
    BY <2>2 DEF FrameInv
  <2> QED
    BY <2>1, <2>2, <2>3, <2>4, <2>5 DEF f
<1>6. \A h : HandlerOf(h, now, total) /\ h # Idle => h.time \in Minutes /\ h.time \in Nat
  BY MinutesAreNat DEF HandlerOf
<1>7. HandlerOf(task, now, total) /\ HandlerOf(late, now, total)
  BY DEF Base, Handlers
<1> QED
  BY <1>1, <1>2, <1>3, <1>4, <1>5, <1>6, <1>7

LEMMA BarOfLater ==
  ASSUME NEW t, NEW t1, t \in Nat, t1 \in Nat, t <= t1, NEW trades, NEW trades1,
         \A m \in Minutes : trades[m] > 0 => trades1[m] > 0
  PROVE  /\ \A b, tf : BarOf(b, tf, t, trades) => BarOf(b, tf, t1, trades1)
         /\ \A u : UpdateOf(u, t, trades) => UpdateOf(u, t1, trades1)
         /\ \A h : HandlerOf(h, t, trades) => HandlerOf(h, t1, trades1)
<1>1. \A m \in Minutes : m \in Nat
  BY MinutesAreNat
<1>2. \A m \in Minutes : m <= t => m <= t1
  BY <1>1
<1>3. \A b, tf : BarOf(b, tf, t, trades) => BarOf(b, tf, t1, trades1)
  BY <1>2 DEF BarOf
<1>4. \A u : UpdateOf(u, t, trades) => UpdateOf(u, t1, trades1)
  BY <1>2 DEF UpdateOf
<1>5. \A h : HandlerOf(h, t, trades) => HandlerOf(h, t1, trades1)
  BY <1>2 DEF HandlerOf
<1> QED
  BY <1>3, <1>4, <1>5

(* A step of the bridge leaves the backend what it knows. *)
LEMMA BaseGrows ==
  ASSUME Base, Bridge', QueueInv', now <= now',
         \A m \in Minutes : total[m] > 0 => total'[m] > 0,
         \A m \in Minutes : m < now => total'[m] = total[m],
         \A m \in Minutes : m < now => (First(total', m) <=> First(total, m)),
         task # Idle => \A i \in 1 .. Len(queue') : ~queue'[i].closed => task.time <= queue'[i].time,
         UNCHANGED <<engines, rows, task, late, final, gap, active>>
  PROVE  Base'
<1>1. /\ bars' = bars /\ flow' = flow /\ snapshots' = snapshots /\ known' = known
      /\ authoritative' = authoritative /\ rows' = rows /\ task' = task /\ late' = late
      /\ final' = final /\ gap' = gap /\ active' = active
  BY DEF engines
<1>2. now \in Nat /\ now' \in Nat
  <2>1. now' \in Minutes
    BY DEF Bridge, Clock
  <2> QED
    BY <2>1, BaseFacts, MinutesAreNat
<1>3. EnginesShape'
  BY <1>1, <1>2, BarOfLater DEF Base, EnginesShape
<1>4. Handlers'
  BY <1>1, <1>2, BarOfLater DEF Base, Handlers
<1>5. Known'
  <2>1. ASSUME NEW m \in authoritative
        PROVE  m < now' /\ total'[m] > 0 /\ ~First(total', m) /\ known[m] = total'[m]
    <3>1. m \in Minutes /\ m \in Nat
      BY MinutesAreNat DEF Base, Known
    <3>2. m < now /\ total[m] > 0 /\ ~First(total, m) /\ known[m] = total[m]
      BY DEF Base, Known
    <3> QED
      BY <1>2, <3>1, <3>2
  <2>2. \A m \in Minutes : total'[m] = 0 => total[m] = 0
    <3>1. total \in [Minutes -> Nat]
      BY BaseFacts
    <3>2. \A m \in Minutes : total[m] \in Nat
      BY <3>1
    <3> QED
      BY <3>2
  <2> QED
    BY <1>1, <2>1, <2>2 DEF Base, Known
<1> QED
  BY <1>3, <1>4, <1>5 DEF Base

LEMMA BaseOnTrade ==
  ASSUME Base, OnTrade
  PROVE  Base'
<1>1. /\ now' = now /\ Bridge'
      /\ total' \in [Minutes -> Nat] /\ total'[now] = total[now] + 1
      /\ \A m \in Minutes : m # now => total'[m] = total[m]
      /\ \A m \in Minutes : m <= now => (First(total', m) <=> First(total, m))
  BY TradeCounts DEF Base
<1>2. QueueInv' /\ \E d \in Nat : Shifts(d, <<TradeFrame(sequence')>>)
  BY TradeQueued, BaseFacts DEF Base
<1>3. PICK d \in Nat : Shifts(d, <<TradeFrame(sequence')>>)
  BY <1>2
<1>4. now \in Nat /\ total[now] \in Nat /\ \A m \in Minutes : m \in Nat
  BY BaseFacts, MinutesAreNat
<1>5. ASSUME task # Idle, NEW i \in 1 .. Len(queue'), ~queue'[i].closed
      PROVE  task.time <= queue'[i].time
  <2>0. PICK add : add = <<TradeFrame(sequence')>>
    OBVIOUS
  <2>1. Len(add) = 1 /\ add[1] = TradeFrame(sequence')
    BY <2>0
  <2>2. add[1].time = now
    BY <2>1 DEF TradeFrame
  <2>3. task.time <= now
    BY <1>5 DEF Base, Handlers, HandlerOf
  <2>4. \A j \in 1 .. Len(queue) : ~queue[j].closed => task.time <= queue[j].time
    BY <1>5 DEF Base, Handlers
  <2>5. Shifts(d, add)
    BY <1>3, <2>0
  <2>6. \A j \in 1 .. Len(add) : add[j].time = now
    BY <2>1, <2>2
  <2>7. \/ \E j \in 1 .. Len(queue) : j = i + d /\ queue'[i] = queue[j]
        \/ \E j \in 1 .. Len(add) : Len(queue) + j = i + d /\ queue'[i] = add[j]
    <3>1. queue \in Seq(Frame)
      BY BaseFacts
    <3>2. Comes(d, add)
      BY <2>5, <3>1, FramesOf
    <3> QED
      BY <3>2 DEF Comes
  <2> QED
    BY <1>5, <2>3, <2>4, <2>6, <2>7
<1>6. /\ \A m \in Minutes : total[m] > 0 => total'[m] > 0
      /\ \A m \in Minutes : m < now => total'[m] = total[m]
      /\ \A m \in Minutes : m < now => (First(total', m) <=> First(total, m))
      /\ now <= now'
  BY <1>1, <1>4
<1>7. UNCHANGED <<engines, rows, task, late, final, gap, active>>
  BY DEF OnTrade
<1> QED
  BY <1>1, <1>2, <1>5, <1>6, <1>7, BaseGrows

LEMMA BaseOnTimestamp ==
  ASSUME Base, OnTimestamp
  PROVE  Base'
<1>1. /\ now' = now + 1 /\ total' = total /\ Bridge'
      /\ \A m \in Minutes : First(total', m) <=> First(total, m)
      /\ current = NoMinute => queue' = queue
  BY MinuteBegins DEF Base
<1>2. /\ QueueInv'
      /\ current # NoMinute => \E d \in Nat : Shifts(d, <<BarFrame(current, TRUE)>>)
  BY MinuteQueued DEF Base
<1>4. now \in Nat
  BY BaseFacts
<1>5. ASSUME task # Idle, NEW i \in 1 .. Len(queue'), ~queue'[i].closed
      PROVE  task.time <= queue'[i].time
  <2>4. \A j \in 1 .. Len(queue) : ~queue[j].closed => task.time <= queue[j].time
    BY <1>5 DEF Base, Handlers
  <2>5. CASE current = NoMinute
    <3>1. queue' = queue /\ i \in 1 .. Len(queue)
      BY <1>1, <2>5, <1>5
    <3> QED
      BY <1>5, <2>4, <3>1
  <2>6. CASE current # NoMinute
    <3>0. PICK add : add = <<BarFrame(current, TRUE)>>
      OBVIOUS
    <3>1. PICK d \in Nat : Shifts(d, add)
      BY <1>2, <2>6, <3>0
    <3>2. Len(add) = 1 /\ add[1].closed
      BY <3>0 DEF BarFrame
    <3>3. \A j \in 1 .. Len(add) : add[j].closed
      BY <3>2
    <3>7. \/ \E j \in 1 .. Len(queue) : j = i + d /\ queue'[i] = queue[j]
          \/ \E j \in 1 .. Len(add) : Len(queue) + j = i + d /\ queue'[i] = add[j]
      <4>1. queue \in Seq(Frame)
        BY BaseFacts
      <4>2. Comes(d, add)
        BY <3>1, <4>1, FramesOf
      <4> QED
        BY <4>2 DEF Comes
    <3> QED
      BY <1>5, <2>4, <3>3, <3>7
  <2> QED
    BY <2>5, <2>6
<1>7. UNCHANGED <<engines, rows, task, late, final, gap, active>>
  BY DEF OnTimestamp
<1>8. now <= now'
  BY <1>1, <1>4
<1> QED
  BY <1>1, <1>2, <1>5, <1>7, <1>8, BaseGrows

LEMMA QueueKept ==
  ASSUME QueueInv, UNCHANGED <<queue, now, sequence, total, authoritative>>
  PROVE  QueueInv'
<1>1. /\ queue' = queue /\ now' = now /\ sequence' = sequence /\ total' = total
      /\ authoritative' = authoritative /\ Len(queue') = Len(queue)
  OBVIOUS
<1> QED
  BY <1>1 DEF QueueInv

LEMMA BridgeKept ==
  ASSUME Bridge, UNCHANGED bridge
  PROVE  Bridge' /\ now' = now /\ sequence' = sequence /\ total' = total
         /\ current' = current /\ last' = last
<1>1. /\ now' = now /\ sequence' = sequence /\ total' = total
      /\ current' = current /\ last' = last
  BY DEF bridge
<1> QED
  BY <1>1 DEF Bridge, Clock, OpenBar, LastBar

LEMMA QueuePops ==
  ASSUME Base, queue # <<>>, queue' = Tail(queue), UNCHANGED <<now, sequence, total>>,
         \A i \in 1 .. Len(queue) : i > 1 /\ ~queue[i].closed => queue[i].time \notin authoritative'
  PROVE  /\ QueueInv' /\ Comes(1, <<>>)
         /\ Len(queue) \in Nat \ {0} /\ 1 \in 1 .. Len(queue) /\ Head(queue) = queue[1]
         /\ Len(queue') = Len(queue) - 1
         /\ \A i \in 1 .. Len(queue') : /\ i + 1 \in 1 .. Len(queue) /\ i + 1 > 1
                                        /\ queue'[i] = queue[i + 1]
                                        /\ Ordered(queue[1], queue[i + 1])
<1>1. /\ queue \in Seq(Frame)
      /\ Shifts(1, <<>>) /\ Len(queue) \in Nat \ {0} /\ Head(queue) = queue[1]
  BY BaseFacts, TailShifts
<1>2. Comes(1, <<>>)
  BY <1>1, FramesOf
<1>3. Len(<<>>) = 0
  OBVIOUS
<1>4. Len(queue') = Len(queue) - 1
  BY <1>1, <1>2, <1>3 DEF Comes
<1>5. ASSUME NEW i \in 1 .. Len(queue')
      PROVE  /\ i + 1 \in 1 .. Len(queue) /\ i + 1 > 1 /\ queue'[i] = queue[i + 1]
             /\ Ordered(queue[1], queue[i + 1])
  <2>1. i + 1 \in 1 .. Len(queue) /\ 1 \in 1 .. Len(queue) /\ 1 < i + 1 /\ i + 1 <= Len(queue)
    BY <1>1, <1>4
  <2>2. queue'[i] = queue[i + 1]
    BY <1>1, <2>1 DEF Shifts
  <2> DEFINE j == i + 1
  <2>3. j \in 1 .. Len(queue) /\ 1 \in 1 .. Len(queue) /\ 1 < j
    BY <2>1
  <2> HIDE DEF j
  <2>4. Ordered(queue[1], queue[j])
    BY <2>3 DEF Base, QueueInv
  <2> QED
    BY <2>1, <2>2, <2>4 DEF j
<1>6. QueueInv'
  <2>1. \A i \in 1 .. Len(queue) : i > 1 => FrameInv(queue[i], now', sequence', total', authoritative')
    BY DEF Base, QueueInv, FrameInv
  <2>2. sequence \in Nat /\ sequence' \in Nat /\ sequence <= sequence'
    BY BaseFacts
  <2>3. /\ \A i \in 1 .. Len(<<>>) : FrameInv(<<>>[i], now', sequence', total', authoritative')
        /\ \A i \in 1 .. Len(queue), j \in 1 .. Len(<<>>) : Ordered(queue[i], <<>>[j])
        /\ \A i, j \in 1 .. Len(<<>>) : i < j => Ordered(<<>>[i], <<>>[j])
        /\ \A i, j \in 1 .. Len(<<>>) : j = i + 1 => Floor(<<>>[j]) = <<>>[i].upto
        /\ ~(Len(<<>>) > 0)
    BY <1>3
  <2>4. QueueInv
    BY DEF Base
  <2> QED
    BY <1>1, <1>3, <2>1, <2>2, <2>3, <2>4, QueueMoves
<1>7. 1 \in 1 .. Len(queue)
  BY <1>1
<1> QED
  BY <1>1, <1>2, <1>4, <1>5, <1>6, <1>7

(* Steps that only move frames and handlers. *)
LEMMA BaseKept ==
  ASSUME Base, UNCHANGED <<bridge, engines, rows, final>>, QueueInv', Handlers'
  PROVE  Base'
<1>1. /\ bars' = bars /\ flow' = flow /\ snapshots' = snapshots /\ known' = known
      /\ authoritative' = authoritative /\ rows' = rows /\ final' = final
  BY DEF engines
<1>2. Bridge' /\ now' = now /\ total' = total
  BY BridgeKept DEF Base
<1> QED
  BY <1>1, <1>2 DEF Base, Known, EnginesShape

LEMMA BaseDropStale ==
  ASSUME Base, DropStale
  PROVE  Base'
<1>1. /\ queue # <<>> /\ queue' = Tail(queue)
      /\ UNCHANGED <<bridge, engines, rows, final, task, late, gap, active>>
  BY DEF DropStale
<1>2. /\ now' = now /\ sequence' = sequence /\ total' = total /\ authoritative' = authoritative
      /\ task' = task /\ late' = late /\ gap' = gap /\ active' = active
  BY <1>1 DEF bridge, engines
<1>3. \A i \in 1 .. Len(queue) : ~queue[i].closed => queue[i].time \notin authoritative
  BY BaseFacts DEF FrameInv
<1>4. /\ QueueInv'
      /\ \A i \in 1 .. Len(queue') : i + 1 \in 1 .. Len(queue) /\ queue'[i] = queue[i + 1]
  BY <1>1, <1>2, <1>3, QueuePops
<1>5. Handlers'
  <2>1. ASSUME task # Idle, NEW i \in 1 .. Len(queue'), ~queue'[i].closed
        PROVE  task.time <= queue'[i].time
    <3> DEFINE j == i + 1
    <3>1. j \in 1 .. Len(queue) /\ queue'[i] = queue[j]
      BY <1>4
    <3> HIDE DEF j
    <3> QED
      BY <2>1, <3>1 DEF Base, Handlers
  <2> QED
    BY <1>2, <2>1 DEF Base, Handlers
<1> QED
  BY <1>1, <1>4, <1>5, BaseKept

LEMMA BaseConnect ==
  ASSUME Base, Connect
  PROVE  Base'
<1>1. /\ queue' = queue \/ queue' = <<>>
      /\ task' = Idle /\ gap' = TRUE /\ active' = active
      /\ late' = late \/ late' = task
      /\ UNCHANGED <<bridge, engines, rows, final>>
  BY DEF Connect, Hands
<1>2. now' = now /\ sequence' = sequence /\ total' = total /\ authoritative' = authoritative
  BY <1>1 DEF bridge, engines
<1>3. QueueInv'
  <2>1. CASE queue' = queue
    BY <1>2, <2>1, QueueKept DEF Base
  <2>2. CASE queue' = <<>>
    <3>1. queue' \in Seq(Frame) /\ Len(queue') = 0
      BY <2>2, EmptySeq
    <3> QED
      BY <3>1 DEF QueueInv
  <2> QED
    BY <1>1, <2>1, <2>2
<1>4. Handlers'
  BY <1>1, <1>2 DEF Base, Handlers, HandlerOf
<1> QED
  BY <1>1, <1>3, <1>4, BaseKept

LEMMA BaseSendSnapshots ==
  ASSUME Base, SendSnapshots
  PROVE  Base'
<1>1. UNCHANGED <<bridge, engines, rows, final, task, late, gap, active>>
  BY DEF SendSnapshots
<1>2. /\ now' = now /\ total' = total /\ authoritative' = authoritative
      /\ task' = task /\ late' = late /\ gap' = gap /\ active' = active
  BY <1>1 DEF bridge, engines
<1>3. QueueInv' /\ \E d \in Nat : Shifts(d, Snapshot)
  BY BaseFacts, SnapshotsQueued DEF Base
<1>4. Handlers'
  <2>0. PICK add : add = Snapshot
    OBVIOUS
  <2>1. PICK d \in Nat : Shifts(d, add)
    BY <1>3, <2>0
  <2>2. Comes(d, add)
    BY <2>1, BaseFacts, FramesOf
  <2>3. \A i \in 1 .. Len(add) : ~add[i].closed => add[i].time = now
    <3>1. \A i \in 1 .. Len(add) :
            \/ add[i] = BarFrame(last, TRUE)
            \/ current # NoMinute /\ add[i] = BarFrame(current, FALSE)
      BY <2>0, SnapshotFrames DEF Base
    <3>2. BarFrame(last, TRUE).closed
      BY DEF BarFrame
    <3>3. current # NoMinute => BarFrame(current, FALSE).time = now
      BY BridgeFacts DEF BarFrame, Base
    <3> QED
      BY <3>1, <3>2, <3>3
  <2>4. ASSUME task # Idle, NEW i \in 1 .. Len(queue'), ~queue'[i].closed
        PROVE  task.time <= queue'[i].time
    <3>1. \/ \E j \in 1 .. Len(queue) : j = i + d /\ queue'[i] = queue[j]
          \/ \E j \in 1 .. Len(add) : Len(queue) + j = i + d /\ queue'[i] = add[j]
      BY <2>2 DEF Comes
    <3>2. task.time <= now /\ \A j \in 1 .. Len(queue) : ~queue[j].closed => task.time <= queue[j].time
      BY <2>4 DEF Base, Handlers, HandlerOf
    <3> QED
      BY <2>3, <2>4, <3>1, <3>2
  <2> QED
    BY <1>2, <2>4 DEF Base, Handlers
<1> QED
  BY <1>1, <1>3, <1>4, BaseKept

LEMMA BaseReceiveTrade ==
  ASSUME Base, ReceiveTrade
  PROVE  /\ Base'
         /\ 1 \in 1 .. Len(queue) /\ Head(queue) = queue[1] /\ ~IsBar(queue[1])
         /\ task' # Idle /\ task'.time = queue[1].time
         /\ Comes(1, <<>>)
<1>1. /\ queue # <<>> /\ queue' = Tail(queue) /\ Head(queue).type = "trade"
      /\ task' = Recording(Head(queue).time, highest # 0 /\ Head(queue).upto # highest + 1)
      /\ UNCHANGED <<bridge, engines, rows, final, late, gap, active>>
  BY DEF ReceiveTrade, Receives
<1>2. /\ now' = now /\ sequence' = sequence /\ total' = total /\ authoritative' = authoritative
      /\ late' = late /\ gap' = gap /\ active' = active
  BY <1>1 DEF bridge, engines
<1>3. \A i \in 1 .. Len(queue) : ~queue[i].closed => queue[i].time \notin authoritative
  BY BaseFacts DEF FrameInv
<1>4. /\ QueueInv' /\ Comes(1, <<>>)
      /\ 1 \in 1 .. Len(queue) /\ Head(queue) = queue[1]
      /\ \A i \in 1 .. Len(queue') : /\ i + 1 \in 1 .. Len(queue)
                                     /\ queue'[i] = queue[i + 1]
                                     /\ Ordered(queue[1], queue[i + 1])
  BY <1>1, <1>2, <1>3, QueuePops
<1>5. ~IsBar(queue[1])
  BY <1>1, <1>4 DEF IsBar
<1>6. /\ queue[1].time \in Minutes /\ queue[1].time <= now /\ total[queue[1].time] > 0
      /\ ~queue[1].closed /\ queue[1].time \notin authoritative
  BY <1>3, <1>4, <1>5, BaseFacts DEF FrameInv
<1>7. task'.time = queue[1].time /\ task'.gap \in BOOLEAN /\ task'.at = "recording"
  BY <1>1, <1>4 DEF Recording
<1>8. task' # Idle
  BY <1>7 DEF Idle
<1>9. \A i \in 1 .. Len(queue') : ~queue'[i].closed => task'.time <= queue'[i].time
  BY <1>4, <1>7 DEF Ordered
<1>10. Handlers'
  <2>1. HandlerOf(task', now', total') /\ task'.time \notin authoritative'
    BY <1>2, <1>6, <1>7 DEF HandlerOf
  <2>2. HandlerOf(late', now', total') /\ gap' \in BOOLEAN /\ active' \in BOOLEAN
    BY <1>2 DEF Base, Handlers
  <2> QED
    BY <1>9, <2>1, <2>2 DEF Handlers
<1> QED
  BY <1>1, <1>4, <1>5, <1>7, <1>8, <1>10, BaseKept

(* A line is cut, and a handler or a generation ends. *)
LEMMA BaseEnds ==
  ASSUME Base, CutLine \/ EndConnection \/ RecordFails \/ LateRecordFails
  PROVE  Base'
<1>1. /\ UNCHANGED <<bridge, engines, rows, final, queue>>
      /\ task' = task \/ task' = Idle
      /\ late' = late \/ late' = Idle
      /\ gap' = gap \/ gap' = TRUE
      /\ active' = active \/ active' = FALSE
  BY DEF CutLine, EndConnection, RecordFails, LateRecordFails, Disconnected, link
<1>2. /\ now' = now /\ sequence' = sequence /\ total' = total /\ authoritative' = authoritative
      /\ queue' = queue /\ Len(queue') = Len(queue)
  BY <1>1 DEF bridge, engines
<1>3. QueueInv'
  BY <1>2, QueueKept DEF Base
<1>4. Handlers'
  BY <1>1, <1>2 DEF Base, Handlers, HandlerOf
<1> QED
  BY <1>1, <1>3, <1>4, BaseKept

SnapsOf(snaps, t, trades) ==
  \A tf \in Timeframes : \A u \in snaps[tf] : UpdateOf(u, t, trades) /\ u.tf = tf

LEMMA SnapshotsShape ==
  ASSUME NEW snaps, NEW t, NEW trades, NEW updates, SnapsOf(snaps, t, trades),
         \A u \in updates : UpdateOf(u, t, trades)
  PROVE  SnapsOf(Remember(snaps, updates), t, trades)
<1>1. ASSUME NEW tf \in Timeframes, NEW u \in Remember(snaps, updates)[tf]
      PROVE  UpdateOf(u, t, trades) /\ u.tf = tf
  <2>1. (u \in updates /\ u.tf = tf) \/ u \in snaps[tf]
    BY <1>1, Remembered
  <2> QED
    BY <2>1 DEF SnapsOf
<1> QED
  BY <1>1 DEF SnapsOf

UpdatesOf(updates, t, trades) == \A u \in updates : UpdateOf(u, t, trades)

LEMMA UntradedRow ==
  ASSUME NEW updates, NEW t, NEW trades, UpdatesOf(updates, t, trades),
         NEW m \in Minutes, trades[m] = 0, NEW new, NEW old, Stored(new, old, updates, 1, m)
  PROVE  new = old
<1>1. \A u \in updates : ~(u.tf = 1 /\ u.time = m)
  <2>1. SUFFICES ASSUME NEW u \in updates, u.tf = 1, u.time = m PROVE FALSE
    OBVIOUS
  <2>2. trades[m] > 0
    BY <2>1 DEF UpdatesOf, UpdateOf
  <2> QED
    BY <2>2
<1> QED
  BY <1>1 DEF Stored

LEMMA EvaluatedUntraded ==
  ASSUME RowsShape(rows), NEW chosen, NEW snaps, NEW deltas, SnapsOf(snaps, now, total),
         NEW m \in Minutes, total[m] = 0
  PROVE  Evaluated(chosen, snaps, deltas).bar[1][m] = rows.bar[1][m]
<1> DEFINE r == Evaluated(chosen, snaps, deltas)
<1>0. 1 \in Timeframes
  BY EnginesAssumption
<1>1. /\ ~chosen \/ active => r = rows
      /\ chosen /\ ~active => Stored(r.bar[1][m], rows.bar[1][m], AllOf(snaps), 1, m)
  BY <1>0, RowsEvaluated
<1>2. UpdatesOf(AllOf(snaps), now, total)
  BY DEF AllOf, SnapsOf, UpdatesOf
<1> HIDE DEF r
<1>3. ASSUME chosen, ~active PROVE r.bar[1][m] = rows.bar[1][m]
  <2> DEFINE new == r.bar[1][m]
             old == rows.bar[1][m]
             all == AllOf(snaps)
  <2>1. Stored(new, old, all, 1, m) /\ UpdatesOf(all, now, total)
    BY <1>1, <1>2, <1>3
  <2> HIDE DEF new, old, all
  <2>2. new = old
    BY <2>1, UntradedRow
  <2> QED
    BY <2>2 DEF new, old
<1> QED
  BY <1>1, <1>3 DEF r

(* ---------------------- the base under the engines ---------------------- *)

LEMMA BaseRuns ==
  ASSUME Base, NEW h, h.time \in Minutes, h.time <= now, total[h.time] > 0, h.gap \in BOOLEAN,
         RunEngines(h), UNCHANGED <<bridge, queue, final>>,
         task' = task \/ task' = Idle, late' = late \/ late' = Idle
  PROVE  /\ Base'
         /\ RanEngines(h, TradeUpdates(bars, h.time), Evaluated(active', snapshots, flow))
<1> DEFINE U == TradeUpdates(bars, h.time)
           r == Evaluated(active', snapshots, flow)
<1>1. RanEngines(h, U, r)
  BY EnginesRun DEF Base
<1>2. /\ now' = now /\ sequence' = sequence /\ total' = total /\ Bridge'
      /\ queue' = queue /\ Len(queue') = Len(queue) /\ final' = final
  BY BridgeKept DEF Base
<1>3. known' = known /\ authoritative' = authoritative
  BY <1>1 DEF RanEngines
<1>4. QueueInv'
  BY <1>2, <1>3, QueueKept DEF Base
<1>5. gap' \in BOOLEAN /\ active' \in BOOLEAN
  BY <1>1 DEF RanEngines, Base, Handlers
<1>6. Handlers'
  BY <1>2, <1>3, <1>5 DEF Base, Handlers, HandlerOf
<1>7. now \in Nat
  BY BaseFacts
<1>8. \A tf \in Timeframes : BarOf(bars[tf], tf, now, total) /\ BarOf(flow[tf], tf, now, total)
  BY DEF Base, EnginesShape
<1>9. \A u \in U : UpdateOf(u, now, total)
  BY <1>7, <1>8, TradeUpdated
<1>10. SnapsOf(snapshots, now, total)
  BY DEF Base, EnginesShape, SnapsOf
<1>11. EnginesShape'
  <2>1. \A tf \in Timeframes : BarOf(bars'[tf], tf, now, total) /\ BarOf(flow'[tf], tf, now, total)
    <3>1. \A tf \in Timeframes : bars'[tf] = Fold(bars[tf], h.time, tf) /\ flow'[tf] = Fold(flow[tf], h.time, tf)
      BY <1>1 DEF RanEngines
    <3> QED
      BY <1>7, <1>8, <3>1, FoldsTrade
  <2>2. SnapsOf(snapshots', now, total)
    <3>1. snapshots' = Remember(snapshots, U)
      BY <1>1 DEF RanEngines
    <3> HIDE DEF U
    <3> QED
      BY <1>9, <1>10, <3>1, SnapshotsShape
  <2>3. RowsShape(rows')
    BY <1>1 DEF RanEngines
  <2> QED
    BY <1>2, <2>1, <2>2, <2>3 DEF EnginesShape, SnapsOf
<1>12. Known'
  <2>1. ASSUME NEW m \in Minutes, total[m] = 0
        PROVE  rows'.bar[1][m].count = 0
    <3>1. rows.bar[1][m].count = 0
      BY <2>1 DEF Base, Known
    <3>2. r.bar[1][m] = rows.bar[1][m]
      BY <1>10, <2>1, EvaluatedUntraded DEF Base, EnginesShape
    <3>3. 1 \in Timeframes
      BY EnginesAssumption
    <3> HIDE DEF U, r
    <3>4. rows' = rows \/ Stored(rows'.bar[1][m], r.bar[1][m], U, 1, m)
      BY <1>1, <3>3 DEF RanEngines
    <3>5. ASSUME Stored(rows'.bar[1][m], r.bar[1][m], U, 1, m)
          PROVE  rows'.bar[1][m] = r.bar[1][m]
      <4> DEFINE new == rows'.bar[1][m]
                 old == r.bar[1][m]
      <4>1. Stored(new, old, U, 1, m) /\ UpdatesOf(U, now, total)
        BY <1>9, <3>5 DEF UpdatesOf
      <4> HIDE DEF new, old
      <4>2. new = old
        BY <2>1, <4>1, UntradedRow
      <4> QED
        BY <4>2 DEF new, old
    <3> QED
      BY <3>1, <3>2, <3>4, <3>5
  <2> QED
    BY <1>2, <1>3, <2>1 DEF Base, Known
<1> QED
  BY <1>1, <1>2, <1>4, <1>6, <1>11, <1>12 DEF Base

LEMMA BaseTradeRecorded ==
  ASSUME Base, TradeRecorded
  PROVE  /\ Base'
         /\ task.time \in Minutes /\ task.time \in Nat /\ task.time <= now /\ total[task.time] > 0
         /\ RanEngines(task, TradeUpdates(bars, task.time), Evaluated(active', snapshots, flow))
<1>1. /\ task # Idle /\ RunEngines(task) /\ task' = Idle /\ late' = late
      /\ UNCHANGED <<bridge, queue, final>>
  BY DEF TradeRecorded
<1>2. /\ task.time \in Minutes /\ task.time <= now /\ total[task.time] > 0 /\ task.gap \in BOOLEAN
  BY <1>1 DEF Base, Handlers, HandlerOf
<1>3. task.time \in Nat
  BY <1>2, MinutesAreNat
<1> QED
  BY <1>1, <1>2, <1>3, BaseRuns

LEMMA BaseLateRecorded ==
  ASSUME Base, LateRecorded
  PROVE  /\ Base'
         /\ late.time \in Minutes /\ late.time \in Nat /\ late.time <= now /\ total[late.time] > 0
         /\ RanEngines(late, TradeUpdates(bars, late.time), Evaluated(active', snapshots, flow))
<1>1. /\ late # Idle /\ RunEngines(late) /\ late' = Idle /\ task' = task
      /\ UNCHANGED <<bridge, queue, final>>
  BY DEF LateRecorded
<1>2. /\ late.time \in Minutes /\ late.time <= now /\ total[late.time] > 0 /\ late.gap \in BOOLEAN
  BY <1>1 DEF Base, Handlers, HandlerOf
<1>3. late.time \in Nat
  BY <1>2, MinutesAreNat
<1> QED
  BY <1>1, <1>2, <1>3, BaseRuns

(* What the frame that comes in says, and what its handler makes of it. *)
LEMMA BaseHandleBar ==
  ASSUME Base, HandleBar
  PROVE  LET f == queue[1] IN
         /\ Base'
         /\ 1 \in 1 .. Len(queue) /\ Head(queue) = f /\ f \in Frame /\ IsBar(f)
         /\ f.time \in Minutes /\ f.time \in Nat /\ f.time <= now /\ total[f.time] > 0
         /\ FrameInv(f, now, sequence, total, authoritative)
         /\ Comes(1, <<>>)
         /\ HandledBar(f, Evaluated(active', snapshots', flow'))
<1> DEFINE f == queue[1]
           U == BarUpdates(f)
           r == Evaluated(active', snapshots', flow')
<1>1. /\ queue # <<>> /\ queue' = Tail(queue) /\ Head(queue).type = "bar"
      /\ UNCHANGED <<bridge, task, late>> /\ task = Idle
  BY DEF HandleBar, Receives
<1>2. now' = now /\ sequence' = sequence /\ total' = total /\ Bridge'
  BY <1>1, BridgeKept DEF Base
<1>3. Head(queue) = f /\ 1 \in 1 .. Len(queue) /\ Len(queue) \in Nat \ {0}
  <2>1. queue \in Seq(Frame)
    BY BaseFacts
  <2>2. Len(queue) \in Nat \ {0} /\ Head(queue) = queue[1]
    BY <1>1, <2>1, TailShifts
  <2> QED
    BY <2>2
<1>4. /\ f \in Frame /\ FrameInv(f, now, sequence, total, authoritative)
      /\ f.time \in Minutes /\ f.time \in Nat /\ f.time <= now /\ total[f.time] > 0
      /\ f.closed \in BOOLEAN
  BY <1>3, BaseFacts
<1>5. IsBar(f)
  BY <1>1, <1>3 DEF IsBar
<1>6. HandledBar(f, r)
  BY <1>3, <1>4, BarIsHandled DEF Base
<1>7. /\ known' = [known EXCEPT ![f.time] = f.count]
      /\ authoritative' = IF f.closed /\ ~f.partial
                          THEN authoritative \cup {f.time} ELSE authoritative
      /\ gap' = (gap /\ f.partial) /\ active' \in BOOLEAN /\ (active' => ~f.partial)
      /\ final' = IF f.closed /\ active' THEN final \cup {f.time} ELSE final
  BY <1>6 DEF HandledBar
<1>8. \A i \in 1 .. Len(queue) : i > 1 /\ ~queue[i].closed => queue[i].time \notin authoritative'
  <2> SUFFICES ASSUME NEW i \in 1 .. Len(queue), i > 1, ~queue[i].closed
               PROVE  queue[i].time \notin authoritative'
    OBVIOUS
  <2>1. queue[i].time \notin authoritative /\ queue[i].time \in Nat
    BY BaseFacts DEF FrameInv
  <2>2. Ordered(queue[1], queue[i])
    BY <1>3 DEF Base, QueueInv
  <2>3. f.closed => f.time < queue[i].time
    BY <2>2 DEF Ordered
  <2>4. f.closed => f.time # queue[i].time
    <3> DEFINE a == f.time
               b == queue[i].time
    <3>1. a \in Nat /\ b \in Nat /\ (f.closed => a < b)
      BY <1>4, <2>1, <2>3
    <3> HIDE DEF a, b
    <3>2. f.closed => a # b
      BY <3>1
    <3> QED
      BY <3>2 DEF a, b
  <2> QED
    BY <1>7, <2>1, <2>4
<1>9. QueueInv' /\ Comes(1, <<>>)
  BY <1>1, <1>2, <1>8, QueuePops
<1>10. Handlers'
  BY <1>1, <1>2, <1>7 DEF Base, Handlers
<1>11. now \in Nat
  BY BaseFacts
<1>12. \A u \in U : UpdateOf(u, now, total)
  BY <1>4, <1>11, SentUpdates
<1>13. SnapsOf(snapshots', now, total)
  <2>1. SnapsOf(snapshots, now, total)
    BY DEF Base, EnginesShape, SnapsOf
  <2>2. snapshots' = Remember(snapshots, U)
    BY <1>6 DEF HandledBar
  <2> HIDE DEF U
  <2> QED
    BY <1>12, <2>1, <2>2, SnapshotsShape
<1>14. EnginesShape'
  <2>1. ASSUME NEW tf \in Timeframes
        PROVE  BarOf(bars'[tf], tf, now, total) /\ BarOf(flow'[tf], tf, now, total)
    <3>1. bars'[tf] = Reconcile(bars[tf], Sent(f, tf)) /\ flow'[tf] = Made(f, tf, rows.delta[1])
      BY <1>6 DEF HandledBar
    <3>2. UpdateOf(Sent(f, tf), now, total) /\ Sent(f, tf).tf = tf
      BY <1>4, <1>11, SentUpdates
    <3>3. BarOf(bars[tf], tf, now, total)
      BY DEF Base, EnginesShape
    <3>4. BarOf(Reconcile(bars[tf], Sent(f, tf)), tf, now, total)
      BY <3>2, <3>3, Reconciled
    <3> DEFINE b == Made(f, tf, rows.delta[1])
               k == Bucket(f.time, tf)
    <3>5. b.time = k /\ b = [time |-> b.time, count |-> b.count]
      BY <1>4, MadeForBucket
    <3>6. k \in Minutes /\ k \in Nat /\ k <= f.time /\ (tf = 1 => k = f.time)
      BY <1>4, Buckets
    <3> HIDE DEF b, k
    <3>7. k <= now
      BY <1>4, <1>11, <3>6
    <3>8. BarOf(b, tf, now, total)
      BY <1>4, <3>5, <3>6, <3>7 DEF BarOf
    <3> QED
      BY <3>1, <3>4, <3>8 DEF b
  <2>2. RowsShape(rows')
    BY <1>6 DEF HandledBar
  <2> QED
    BY <1>2, <1>13, <2>1, <2>2 DEF EnginesShape, SnapsOf
<1>15. Known'
  <2>0. known \in [Minutes -> Nat] /\ authoritative \subseteq Minutes /\ final \subseteq authoritative
    BY DEF Base, Known
  <2>1. f.count \in Nat /\ f.partial \in BOOLEAN
    BY <1>4 DEF Frame
  <2>2. /\ known' \in [Minutes -> Nat] /\ known'[f.time] = f.count
        /\ \A m \in Minutes : m # f.time => known'[m] = known[m]
    BY <1>4, <1>7, <2>0, <2>1
  <2>3. authoritative' \subseteq Minutes /\ final' \subseteq authoritative'
    BY <1>4, <1>7, <2>0
  <2>4. /\ f.closed => f.time < now /\ f.count = total[f.time]
        /\ f.partial <=> First(total, f.time)
        /\ ~f.closed => f.time \notin authoritative
    BY <1>4, <1>5 DEF FrameInv
  <2>5. ASSUME NEW m \in authoritative'
        PROVE  m < now /\ total[m] > 0 /\ ~First(total, m) /\ known'[m] = total[m]
    <3>1. CASE m = f.time
      <4>1. f.closed
        BY <1>7, <2>4, <3>1, <2>5
      <4>2. ~First(total, f.time)
        <5>1. CASE ~f.partial
          BY <2>4, <5>1
        <5>2. CASE f.partial
          <6>1. f.time \in authoritative
            BY <1>7, <2>5, <3>1, <5>2
          <6> QED
            BY <6>1 DEF Base, Known
        <5> QED
          BY <5>1, <5>2
      <4> QED
        BY <1>4, <2>2, <2>4, <3>1, <4>1, <4>2
    <3>2. CASE m # f.time
      <4>1. m \in authoritative /\ m \in Minutes
        BY <1>7, <2>0, <2>5, <3>2
      <4> QED
        BY <2>2, <3>2, <4>1 DEF Base, Known
    <3> QED
      BY <3>1, <3>2
  <2>6. ASSUME NEW m \in Minutes, total[m] = 0
        PROVE  known'[m] = 0 /\ rows'.bar[1][m].count = 0
    <3>1. rows.bar[1][m].count = 0 /\ known[m] = 0
      BY <2>6 DEF Base, Known
    <3>2. r.bar[1][m] = rows.bar[1][m]
      BY <1>13, <2>6, EvaluatedUntraded DEF Base, EnginesShape
    <3>3. 1 \in Timeframes
      BY EnginesAssumption
    <3> HIDE DEF U, r
    <3>4. rows' = rows \/ Stored(rows'.bar[1][m], r.bar[1][m], U, 1, m)
      BY <1>6, <3>3 DEF HandledBar, U
    <3>5. ASSUME Stored(rows'.bar[1][m], r.bar[1][m], U, 1, m)
          PROVE  rows'.bar[1][m] = r.bar[1][m]
      <4> DEFINE new == rows'.bar[1][m]
                 old == r.bar[1][m]
      <4>1. Stored(new, old, U, 1, m) /\ UpdatesOf(U, now, total)
        BY <1>12, <3>5 DEF UpdatesOf
      <4> HIDE DEF new, old
      <4>2. new = old
        BY <2>6, <4>1, UntradedRow
      <4> QED
        BY <4>2 DEF new, old
    <3>6. m # f.time
      BY <1>4, <2>6
    <3> QED
      BY <2>2, <3>1, <3>2, <3>4, <3>5, <3>6
  <2> QED
    BY <1>2, <2>2, <2>3, <2>5, <2>6 DEF Known
<1> QED
  BY <1>2, <1>3, <1>4, <1>5, <1>6, <1>9, <1>10, <1>14, <1>15 DEF Base

LEMMA RowsStepKeeps ==
  ASSUME Base, UNCHANGED <<bridge, queue, task, late, gap, engines, final>>, active' \in BOOLEAN,
         RowsShape(rows'),
         \A m \in Minutes : total[m] = 0 => rows'.bar[1][m].count = 0
  PROVE  Base'
<1>1. /\ bars' = bars /\ flow' = flow /\ snapshots' = snapshots /\ known' = known
      /\ authoritative' = authoritative /\ final' = final /\ task' = task /\ late' = late
      /\ gap' = gap /\ queue' = queue
  BY DEF engines
<1>2. Bridge' /\ now' = now /\ sequence' = sequence /\ total' = total
  BY BridgeKept DEF Base
<1>3. QueueInv'
  BY <1>1, <1>2, QueueKept DEF Base
<1>4. Handlers'
  BY <1>1, <1>2 DEF Base, Handlers
<1>5. EnginesShape'
  BY <1>1, <1>2 DEF Base, EnginesShape
<1>6. Known'
  BY <1>1, <1>2 DEF Base, Known
<1> QED
  BY <1>2, <1>3, <1>4, <1>5, <1>6 DEF Base

LEMMA BaseEvaluate ==
  ASSUME Base, Evaluate
  PROVE  Base'
<1>1. /\ UNCHANGED <<bridge, queue, task, late, gap, engines, final>>
      /\ active' = ~active /\ rows' = Evaluated(active', snapshots, flow)
  BY DEF Evaluate
<1>2. RowsShape(rows')
  BY <1>1, RowsEvaluated DEF Base, EnginesShape
<1>3. SnapsOf(snapshots, now, total) /\ RowsShape(rows)
  BY DEF Base, EnginesShape, SnapsOf
<1>4. ASSUME NEW m \in Minutes, total[m] = 0
      PROVE  rows'.bar[1][m].count = 0
  <2>1. rows'.bar[1][m] = rows.bar[1][m]
    BY <1>1, <1>3, <1>4, EvaluatedUntraded
  <2> QED
    BY <1>4, <2>1 DEF Base, Known
<1> QED
  BY <1>1, <1>2, <1>4, RowsStepKeeps

LEMMA BaseFlushForming ==
  ASSUME Base, FlushForming
  PROVE  /\ Base'
         /\ rows'.bar = rows.bar /\ rows'.delta = rows.delta
         /\ \A m \in Minutes :
              rows'.ladder[m] = IF flow[1] # NoBar /\ flow[1].time = m
                                THEN flow[1].count ELSE rows.ladder[m]
<1>1. /\ UNCHANGED <<bridge, queue, task, late, gap, engines, final>> /\ active' = active
      /\ rows' = [rows EXCEPT !.ladder = StoreLadder(@, flow[1])]
  BY DEF FlushForming
<1>2. RowsShape(rows)
  BY DEF Base, EnginesShape
<1>3. /\ rows'.bar = rows.bar /\ rows'.delta = rows.delta
      /\ rows'.ladder = StoreLadder(rows.ladder, flow[1])
      /\ rows' = [bar |-> rows'.bar, delta |-> rows'.delta, ladder |-> rows'.ladder]
  BY <1>1, <1>2 DEF RowsShape
<1>4. /\ ByMinute(rows'.ladder)
      /\ \A m \in Minutes :
           rows'.ladder[m] = IF flow[1] # NoBar /\ flow[1].time = m
                             THEN flow[1].count ELSE rows.ladder[m]
  BY <1>2, <1>3, LadderStored DEF RowsShape
<1>5. RowsShape(rows')
  BY <1>2, <1>3, <1>4 DEF RowsShape
<1>6. \A m \in Minutes : total[m] = 0 => rows'.bar[1][m].count = 0
  BY <1>3 DEF Base, Known
<1>7. active' \in BOOLEAN
  BY <1>1 DEF Base, Handlers
<1> QED
  BY <1>1, <1>3, <1>4, <1>5, <1>6, <1>7, RowsStepKeeps

(* Rows of NinjaTrader are not Bookmap's. *)
LEMMA BaseNtTrade ==
  ASSUME Base, NtTrade
  PROVE  /\ Base'
         /\ rows'.ladder = rows.ladder
         /\ \A m \in Minutes : rows'.delta[1][m] = rows.delta[1][m] \/ rows'.delta[1][m].by = "nt"
         /\ \A tf \in Timeframes, m \in Minutes :
              rows'.bar[tf][m] = rows.bar[tf][m] \/ rows'.bar[tf][m].by = "nt"
<1>1. /\ UNCHANGED <<bridge, queue, task, late, gap, engines, final>> /\ active' = active
  BY DEF NtTrade
<1>2. RowsShape(rows)
  BY DEF Base, EnginesShape
<1>3. PICK m \in Minutes, ends \in BOOLEAN :
        rows' = [rows EXCEPT
         !.bar = [tf \in Timeframes |-> [k \in Minutes |->
            IF k = Bucket(m, tf) THEN [by |-> "nt", count |-> 0, closed |-> FALSE]
            ELSE IF ends /\ k = Bucket(m - 1, tf)
                 THEN [by |-> "nt", count |-> 0, closed |-> TRUE]
            ELSE @[tf][k]]],
         !.delta = [tf \in Timeframes |->
            [@[tf] EXCEPT ![Bucket(m, tf)] = [by |-> "nt", count |-> 0]]]]
  BY DEF NtTrade
<1> DEFINE B == [tf \in Timeframes |-> [k \in Minutes |->
            IF k = Bucket(m, tf) THEN [by |-> "nt", count |-> 0, closed |-> FALSE]
            ELSE IF ends /\ k = Bucket(m - 1, tf)
                 THEN [by |-> "nt", count |-> 0, closed |-> TRUE]
            ELSE rows.bar[tf][k]]]
           D == [tf \in Timeframes |->
            [rows.delta[tf] EXCEPT ![Bucket(m, tf)] = [by |-> "nt", count |-> 0]]]
<1>4. rows' = [[rows EXCEPT !.bar = B] EXCEPT !.delta = D]
  BY <1>3
<1>5. /\ \A tf \in Timeframes, k \in Minutes :
           \/ B[tf][k] = rows.bar[tf][k]
           \/ B[tf][k].by = "nt" /\ B[tf][k].count = 0
  OBVIOUS
<1>6. /\ ByMinute(D[1])
      /\ \A k \in Minutes : D[1][k] = rows.delta[1][k] \/ D[1][k].by = "nt"
  <2>1. 1 \in Timeframes
    BY EnginesAssumption
  <2>2. ByMinute(rows.delta[1])
    BY <1>2 DEF RowsShape
  <2> DEFINE old == rows.delta[1]
             j == Bucket(m, 1)
             new == [by |-> "nt", count |-> 0]
  <2>3. D[1] = [old EXCEPT ![j] = new]
    BY <2>1
  <2>4. new.by = "nt"
    OBVIOUS
  <2> HIDE DEF old, j, new, D
  <2>5. ByMinute(old)
    BY <2>2 DEF old
  <2>6. /\ ByMinute(D[1])
        /\ \A k \in Minutes : D[1][k] = old[k] \/ D[1][k] = new
    BY <2>3, <2>5 DEF ByMinute
  <2> QED
    BY <2>4, <2>6 DEF old
<1> HIDE DEF B, D
<1>7. /\ rows'.bar = B /\ rows'.delta = D /\ rows'.ladder = rows.ladder
      /\ rows' = [bar |-> rows'.bar, delta |-> rows'.delta, ladder |-> rows'.ladder]
  BY <1>2, <1>4 DEF RowsShape
<1>8. RowsShape(rows')
  BY <1>2, <1>6, <1>7 DEF RowsShape
<1>9. \A k \in Minutes : total[k] = 0 => rows'.bar[1][k].count = 0
  <2>1. 1 \in Timeframes
    BY EnginesAssumption
  <2> QED
    BY <1>5, <1>7, <2>1 DEF Base, Known
<1>10. active' \in BOOLEAN
  BY <1>1 DEF Base, Handlers
<1>11. Base'
  BY <1>1, <1>8, <1>9, <1>10, RowsStepKeeps
<1> QED
  BY <1>5, <1>6, <1>7, <1>11

LEMMA BaseStutters ==
  ASSUME Base, UNCHANGED vars
  PROVE  Base'
<1>1. /\ UNCHANGED <<bridge, queue, task, late, gap, engines, final, rows>> /\ active' = active
  BY DEF vars, bridge, history
<1>2. QueueInv'
  BY <1>1, QueueKept DEF Base, bridge, engines
<1>3. Handlers'
  BY <1>1 DEF Base, Handlers, bridge, engines
<1> QED
  BY <1>1, <1>2, <1>3, BaseKept

LEMMA BaseInit ==
  ASSUME Init
  PROVE  Base
<1>1. (\A m \in Minutes : m \in Nat) /\ 0 \in Minutes /\ 1 \in Timeframes
  BY EnginesAssumption
<1>2. /\ now = 0 /\ current = NoMinute /\ last = NoMinute /\ sequence = 0
      /\ queue = <<>> /\ task = Idle /\ late = Idle /\ gap = FALSE /\ active = FALSE
      /\ bars = [tf \in Timeframes |-> NoBar]
      /\ flow = [tf \in Timeframes |-> NoBar]
      /\ snapshots = [tf \in Timeframes |-> {}]
      /\ known = [m \in Minutes |-> 0]
      /\ authoritative = {} /\ final = {}
      /\ total = [m \in Minutes |-> 0]
  BY DEF Init
<1>3. rows = [bar |-> [tf \in Timeframes |->
                        [m \in Minutes |-> [by |-> "none", count |-> 0, closed |-> FALSE]]],
             delta |-> [tf \in Timeframes |->
                          [m \in Minutes |-> [by |-> "none", count |-> 0]]],
             ladder |-> [m \in Minutes |-> 0]]
  BY DEF Init
<1>4. total \in [Minutes -> Nat] /\ \A m \in Minutes : total[m] = 0
  BY <1>2
<1>5. Clock /\ OpenBar
  BY <1>1, <1>2, <1>4 DEF Clock, OpenBar
<1>6. LastBar
  <2>1. First(total, now)
    BY <1>4 DEF First
  <2> QED
    BY <1>2, <2>1 DEF LastBar
<1>7. QueueInv
  <2>1. queue \in Seq(Frame) /\ Len(queue) = 0
    BY <1>2, EmptySeq
  <2> QED
    BY <2>1 DEF QueueInv
<1>8. Handlers
  BY <1>2 DEF Handlers, HandlerOf
<1>9. /\ rows = [bar |-> rows.bar, delta |-> rows.delta, ladder |-> rows.ladder]
      /\ \A m \in Minutes : rows.bar[1][m].count = 0
      /\ rows.delta[1] = [m \in Minutes |-> [by |-> "none", count |-> 0]]
      /\ rows.ladder = [m \in Minutes |-> 0]
  BY <1>1, <1>3
<1>10. Known
  <2>1. known \in [Minutes -> Nat] /\ \A m \in Minutes : known[m] = 0
    BY <1>2
  <2> QED
    BY <1>2, <1>9, <2>1 DEF Known
<1>11. EnginesShape
  <2>1. RowsShape(rows)
    BY <1>9 DEF RowsShape, ByMinute
  <2> QED
    BY <1>2, <2>1 DEF EnginesShape, BarOf
<1> QED
  BY <1>5, <1>6, <1>7, <1>8, <1>10, <1>11 DEF Base, Bridge

LEMMA BaseNext ==
  ASSUME Base, [Next]_vars
  PROVE  Base'
<1>1. CASE UNCHANGED vars
  BY <1>1, BaseStutters
<1>2. CASE Next
  BY <1>2, BaseOnTrade, BaseOnTimestamp, BaseDropStale, BaseConnect, BaseSendSnapshots,
     BaseReceiveTrade, BaseEnds, BaseTradeRecorded, BaseLateRecorded, BaseHandleBar,
     BaseEvaluate, BaseFlushForming, BaseNtTrade DEF Next
<1> QED
  BY <1>1, <1>2

(* The order flow the engines hold of a minute whose closed bar was stored *)
(* is exact.                                                               *)
FlowIsFinal ==
  flow[1].time \in final \ mixed => flow[1].count = total[flow[1].time]

FInv == Base /\ FinalOrderFlow /\ FlowIsFinal

(* Rows whose order flow of the minutes in S is exact. *)
FinalRows(r, S, trades) ==
  \A m \in S : /\ r.ladder[m] = trades[m]
               /\ r.delta[1][m].by = "bookmap" => r.delta[1][m].count = trades[m]

LEMMA EvaluatedFinal ==
  ASSUME RowsShape(rows), NEW chosen, NEW snaps, NEW deltas, NEW S, NEW trades, S \subseteq Minutes,
         FinalRows(rows, S, trades),
         deltas[1].time \in S => deltas[1].count = trades[deltas[1].time]
  PROVE  FinalRows(Evaluated(chosen, snaps, deltas), S, trades)
<1> DEFINE r == Evaluated(chosen, snaps, deltas)
<1>1. /\ ~chosen \/ active => r = rows
      /\ chosen /\ ~active =>
              /\ \A m \in Minutes :
                   r.delta[1][m] = IF deltas[1] # NoBar /\ deltas[1].time = m
                                   THEN Flow(deltas[1]) ELSE rows.delta[1][m]
              /\ \A m \in Minutes :
                   r.ladder[m] = IF deltas[1] # NoBar /\ deltas[1].time = m
                                 THEN deltas[1].count ELSE rows.ladder[m]
  BY RowsEvaluated
<1>2. Flow(deltas[1]).count = deltas[1].count
  BY DEF Flow
<1> HIDE DEF r
<1>3. CASE ~chosen \/ active
  BY <1>1, <1>3 DEF r
<1>4. CASE chosen /\ ~active
  <2>1. ASSUME NEW m \in S
        PROVE  /\ r.ladder[m] = trades[m]
               /\ r.delta[1][m].by = "bookmap" => r.delta[1][m].count = trades[m]
    <3>1. CASE deltas[1] # NoBar /\ deltas[1].time = m
      BY <1>1, <1>2, <1>4, <3>1
    <3>2. CASE ~(deltas[1] # NoBar /\ deltas[1].time = m)
      BY <1>1, <1>4, <3>2 DEF FinalRows
    <3> QED
      BY <3>1, <3>2
  <2> QED
    BY <2>1 DEF FinalRows, r
<1> QED
  BY <1>3, <1>4

LEMMA FinalFacts ==
  ASSUME FInv
  PROVE  /\ Base /\ FinalRows(rows, final \ mixed, total) /\ RowsShape(rows)
         /\ final \ mixed \subseteq Minutes /\ final \subseteq authoritative
         /\ flow[1].time \in final \ mixed => flow[1].count = total[flow[1].time]
         /\ \A m \in final : m \in Nat /\ m < now
         /\ BarOf(flow[1], 1, now, total)
         /\ flow[1].time \in Int
<1>1. FinalRows(rows, final \ mixed, total)
  BY DEF FInv, FinalOrderFlow, FinalRows
<1>2. final \subseteq authoritative /\ authoritative \subseteq Minutes
      /\ \A m \in authoritative : m < now
  BY DEF FInv, Base, Known
<1>3. BarOf(flow[1], 1, now, total) /\ RowsShape(rows)
  BY EnginesAssumption DEF FInv, Base, EnginesShape
<1> QED
  BY <1>1, <1>2, <1>3, FieldsOfBar, MinutesAreNat DEF FInv, FlowIsFinal

LEMMA FinalKept ==
  ASSUME Base', NEW S, S \subseteq Minutes, final' \ mixed' \subseteq S,
         FinalRows(rows', S, total'),
         flow'[1].time \in S => flow'[1].count = total'[flow'[1].time]
  PROVE  FInv'
<1>1. \A m \in final' \ mixed' : m \in S
  OBVIOUS
<1> QED
  BY <1>1 DEF FInv, FinalOrderFlow, FlowIsFinal, FinalRows

LEMMA FinalBridge ==
  ASSUME FInv, OnTrade \/ OnTimestamp
  PROVE  FInv'
<1>1. Base'
  BY BaseOnTrade, BaseOnTimestamp DEF FInv
<1>2. UNCHANGED <<engines, rows, final, mixed>>
  BY DEF OnTrade, OnTimestamp
<1>3. \A m \in Minutes : m # now => total'[m] = total[m]
  BY TradeCounts, MinuteBegins DEF FInv, Base
<1>4. \A m \in final : total'[m] = total[m]
  BY <1>3, FinalFacts DEF FInv, Base, Known, Bridge, Clock
<1> DEFINE S == final \ mixed
<1>5. FinalRows(rows', S, total')
  BY <1>2, <1>4, FinalFacts DEF FinalRows
<1>6. flow'[1].time \in S => flow'[1].count = total'[flow'[1].time]
  BY <1>2, <1>4, FinalFacts DEF engines
<1> QED
  BY <1>1, <1>2, <1>5, <1>6, FinalFacts, FinalKept

(* Steps that leave the engines and their rows. *)
LEMMA FinalLeft ==
  ASSUME FInv, Base', UNCHANGED <<bridge, engines, rows, final, mixed>>
  PROVE  FInv'
BY DEF FInv, FinalOrderFlow, FlowIsFinal, bridge, engines

LEMMA FinalRuns ==
  ASSUME FInv, Base', NEW h, h.time \in Minutes, h.time \in Nat, h.time <= now, total[h.time] > 0,
         RanEngines(h, TradeUpdates(bars, h.time), Evaluated(active', snapshots, flow)),
         UNCHANGED <<bridge, final>>, mixed \subseteq mixed', h.time \notin final \ mixed'
  PROVE  FInv'
<1> DEFINE S == final \ mixed'
           r == Evaluated(active', snapshots, flow)
<1>1. /\ flow'[1] = Fold(flow[1], h.time, 1)
      /\ ~active' => rows' = rows
      /\ active' =>
           /\ \A m \in Minutes :
                rows'.delta[1][m] = IF h.time >= flow[1].time /\ h.time = m
                                    THEN Flow(flow'[1]) ELSE r.delta[1][m]
           /\ \A m \in Minutes :
                \/ rows'.ladder[m] = r.ladder[m]
                \/ /\ flow[1].time = m /\ m \notin authoritative
                   /\ rows'.ladder[m] = flow[1].count
  <2>1. 1 \in Timeframes
    BY EnginesAssumption
  <2> QED
    BY <2>1 DEF RanEngines
<1>2. /\ S \subseteq Minutes /\ FinalRows(rows, S, total) /\ RowsShape(rows)
      /\ flow[1].time \in S => flow[1].count = total[flow[1].time]
      /\ BarOf(flow[1], 1, now, total) /\ flow[1].time \in Int
      /\ final \subseteq authoritative
  BY FinalFacts DEF FinalRows
<1>3. now \in Nat /\ 1 \in Timeframes /\ Bucket(h.time, 1) = h.time /\ total' = total
  BY Buckets, BaseFacts DEF FInv, bridge
<1>4. /\ h.time > flow[1].time => flow'[1].time = h.time
      /\ h.time = flow[1].time => flow'[1].time = h.time
      /\ h.time < flow[1].time => flow'[1] = flow[1]
  <2>1. /\ h.time > flow[1].time => Fold(flow[1], h.time, 1) = [time |-> h.time, count |-> 1]
        /\ h.time = flow[1].time => Fold(flow[1], h.time, 1) = [time |-> h.time, count |-> flow[1].count + 1]
        /\ h.time < flow[1].time => Fold(flow[1], h.time, 1) = flow[1]
    BY <1>2, <1>3, FoldsTrade
  <2> QED
    BY <1>1, <2>1
<1>5. flow'[1].time = h.time \/ flow'[1] = flow[1]
  BY <1>2, <1>4
<1>6. flow'[1].time \in S => flow'[1].count = total'[flow'[1].time]
  BY <1>2, <1>3, <1>5
<1>7. FinalRows(r, S, total)
  BY <1>2, EvaluatedFinal
<1> HIDE DEF S, r
<1>8. FinalRows(rows', S, total')
  <2>1. CASE ~active'
    BY <1>1, <1>2, <1>3, <2>1
  <2>2. CASE active'
    <3>1. ASSUME NEW m \in S
          PROVE  /\ rows'.ladder[m] = total[m]
                 /\ rows'.delta[1][m].by = "bookmap" => rows'.delta[1][m].count = total[m]
      <4>1. m \in Minutes /\ m # h.time /\ m \in authoritative
        BY <1>2, <3>1 DEF S
      <4>2. rows'.delta[1][m] = r.delta[1][m] /\ rows'.ladder[m] = r.ladder[m]
        BY <1>1, <2>2, <4>1
      <4> QED
        BY <1>7, <4>2 DEF FinalRows
    <3> QED
      BY <1>3, <3>1 DEF FinalRows
  <2> QED
    BY <2>1, <2>2
<1>9. final' \ mixed' \subseteq S
  BY DEF S
<1> QED
  BY <1>2, <1>6, <1>8, <1>9, FinalKept

LEMMA FinalRecorded ==
  ASSUME FInv, TradeRecorded \/ LateRecorded
  PROVE  FInv'
<1>1. CASE TradeRecorded
  <2>1. UNCHANGED <<bridge, final>> /\ mixed' = mixed /\ task # Idle
    BY <1>1 DEF TradeRecorded
  <2>2. task.time \notin final
    BY <2>1 DEF FInv, Base, Handlers, Known
  <2> QED
    BY <1>1, <2>1, <2>2, BaseTradeRecorded, FinalRuns DEF FInv
<1>2. CASE LateRecorded
  <2>1. UNCHANGED <<bridge, final>> /\ mixed' = mixed \cup {late.time}
    BY <1>2 DEF LateRecorded
  <2> QED
    BY <1>2, <2>1, BaseLateRecorded, FinalRuns DEF FInv
<1> QED
  BY <1>1, <1>2

LEMMA FinalHandleBar ==
  ASSUME FInv, HandleBar
  PROVE  FInv'
<1> DEFINE f == queue[1]
           r == Evaluated(active', snapshots', flow')
           S == final' \ mixed
           T == final \ mixed
<1>1. /\ Base' /\ f \in Frame /\ IsBar(f) /\ f.time \in Minutes
      /\ FrameInv(f, now, sequence, total, authoritative) /\ HandledBar(f, r)
  BY BaseHandleBar DEF FInv
<1>2. /\ T \subseteq Minutes /\ FinalRows(rows, T, total) /\ RowsShape(rows)
      /\ final \subseteq authoritative
  BY FinalFacts
<1>3. /\ final' = IF f.closed /\ active' THEN final \cup {f.time} ELSE final
      /\ mixed' = mixed /\ total' = total
      /\ flow'[1] = Made(f, 1, rows.delta[1])
      /\ ~active' => rows' = rows
      /\ active' =>
           /\ \A m \in Minutes :
                rows'.delta[1][m] = IF f.time = m THEN [by |-> "bookmap", count |-> f.count]
                                    ELSE r.delta[1][m]
           /\ \A m \in Minutes : rows'.ladder[m] = IF f.time = m THEN f.count ELSE r.ladder[m]
  <2>1. 1 \in Timeframes
    BY EnginesAssumption
  <2> QED
    BY <1>1, <2>1 DEF HandledBar, bridge
<1>4. flow'[1].time = f.time /\ flow'[1].count = f.count
  BY <1>3 DEF Made, Native
<1>5. f.time \in final' => f.count = total[f.time]
  <2>1. /\ f.closed => f.count = total[f.time]
        /\ ~f.closed => f.time \notin authoritative
    BY <1>1 DEF FrameInv
  <2> QED
    BY <1>2, <1>3, <2>1
<1>6. /\ T \subseteq S /\ S \subseteq Minutes
      /\ \A m \in S : m = f.time \/ m \in T
      /\ ~active' => S = T
  BY <1>1, <1>2, <1>3
<1>7. flow'[1].time \in S => flow'[1].count = total'[flow'[1].time]
  BY <1>3, <1>4, <1>5
<1>8. FinalRows(r, T, total)
  <2>1. flow'[1].time \in T => flow'[1].count = total[flow'[1].time]
    BY <1>3, <1>4, <1>5, <1>6
  <2> DEFINE snaps == snapshots'
             deltas == flow'
  <2>2. PICK a, b, c : a = active' /\ b = snapshots' /\ c = flow'
    OBVIOUS
  <2>3. FinalRows(Evaluated(a, b, c), T, total)
    BY <1>2, <2>1, <2>2, EvaluatedFinal
  <2> QED
    BY <2>2, <2>3
<1> HIDE DEF r, S, T, f
<1>9. FinalRows(rows', S, total')
  <2>1. CASE ~active'
    BY <1>2, <1>3, <1>6, <2>1
  <2>2. CASE active'
    <3>1. ASSUME NEW m \in S
          PROVE  /\ rows'.ladder[m] = total[m]
                 /\ rows'.delta[1][m].by = "bookmap" => rows'.delta[1][m].count = total[m]
      <4>1. CASE m = f.time
        <5>1. f.time \in final' /\ m \in Minutes
          BY <1>6, <4>1 DEF S
        <5>2. rows'.delta[1][m] = [by |-> "bookmap", count |-> f.count]
              /\ rows'.ladder[m] = f.count
          BY <1>3, <2>2, <4>1, <5>1
        <5>3. rows'.delta[1][m].count = f.count
          BY <5>2
        <5> QED
          BY <1>5, <4>1, <5>1, <5>2, <5>3
      <4>2. CASE m # f.time
        <5>1. m \in T /\ m \in Minutes
          BY <1>6, <4>2
        <5>2. rows'.delta[1][m] = r.delta[1][m] /\ rows'.ladder[m] = r.ladder[m]
          BY <1>3, <2>2, <4>2, <5>1
        <5> QED
          BY <1>8, <5>1, <5>2 DEF FinalRows
      <4> QED
        BY <4>1, <4>2
    <3> QED
      BY <1>3, <3>1 DEF FinalRows
  <2> QED
    BY <2>1, <2>2
<1>10. final' \ mixed' \subseteq S
  BY <1>3 DEF S
<1> QED
  BY <1>1, <1>6, <1>7, <1>9, <1>10, FinalKept

LEMMA FinalRowSteps ==
  ASSUME FInv, Evaluate \/ FlushForming \/ NtTrade
  PROVE  FInv'
<1> DEFINE S == final \ mixed
<1>1. Base' /\ UNCHANGED <<bridge, engines, final, mixed>>
  BY BaseEvaluate, BaseFlushForming, BaseNtTrade DEF FInv, Evaluate, FlushForming, NtTrade
<1>2. total' = total /\ flow' = flow
  BY <1>1 DEF bridge, engines
<1>3. /\ S \subseteq Minutes /\ FinalRows(rows, S, total) /\ RowsShape(rows)
      /\ flow[1].time \in S => flow[1].count = total[flow[1].time]
  BY FinalFacts
<1> HIDE DEF S
<1>4. CASE Evaluate
  <2>1. rows' = Evaluated(active', snapshots, flow)
    BY <1>4 DEF Evaluate
  <2>2. FinalRows(rows', S, total)
    BY <1>3, <2>1, EvaluatedFinal
  <2> QED
    BY <1>1, <1>2, <1>3, <2>2, FinalKept DEF S
<1>5. CASE FlushForming
  <2>1. /\ rows'.delta = rows.delta
        /\ \A m \in Minutes :
              rows'.ladder[m] = IF flow[1] # NoBar /\ flow[1].time = m
                                THEN flow[1].count ELSE rows.ladder[m]
    BY <1>5, BaseFlushForming DEF FInv
  <2>2. FinalRows(rows', S, total)
    BY <1>3, <2>1 DEF FinalRows
  <2> QED
    BY <1>1, <1>2, <1>3, <2>2, FinalKept DEF S
<1>6. CASE NtTrade
  <2>1. /\ rows'.ladder = rows.ladder
        /\ \A m \in Minutes : rows'.delta[1][m] = rows.delta[1][m] \/ rows'.delta[1][m].by = "nt"
    BY <1>6, BaseNtTrade DEF FInv
  <2>2. FinalRows(rows', S, total)
    BY <1>3, <2>1 DEF FinalRows
  <2> QED
    BY <1>1, <1>2, <1>3, <2>2, FinalKept DEF S
<1> QED
  BY <1>4, <1>5, <1>6

LEMMA FinalNext ==
  ASSUME FInv, [Next]_vars
  PROVE  FInv'
<1>1. Base'
  BY BaseNext DEF FInv
<1>2. CASE \/ DropStale \/ Connect \/ SendSnapshots \/ CutLine \/ ReceiveTrade
           \/ EndConnection \/ RecordFails \/ LateRecordFails \/ UNCHANGED vars
  <2>1. UNCHANGED <<bridge, engines, rows, final, mixed>>
    BY <1>2 DEF DropStale, Connect, SendSnapshots, CutLine, ReceiveTrade, EndConnection,
       RecordFails, LateRecordFails, vars, history, bridge
  <2> QED
    BY <1>1, <2>1, FinalLeft
<1> QED
  BY <1>2, FinalBridge, FinalRecorded, FinalHandleBar, FinalRowSteps DEF Next

(* The order flow of a minute whose closed bar was stored stays exact: no  *)
(* ladder that maintenance_tick stores, no switch of the feed and no later *)
(* trade puts an older state back (on_bookmap_bar, _switch_feed).  Left    *)
(* aside are minutes a replaced handler added a trade to.                  *)
THEOREM FinalRowsStay == Spec => []FinalOrderFlow
<1>1. Init => FInv
  <2> SUFFICES ASSUME Init PROVE FInv
    OBVIOUS
  <2>1. Base
    BY BaseInit
  <2>2. final = {}
    BY DEF Init
  <2> QED
    BY <2>1, <2>2 DEF FInv, FinalOrderFlow, FlowIsFinal
<1>2. FInv /\ [Next]_vars => FInv'
  BY FinalNext
<1>3. FInv => FinalOrderFlow
  BY DEF FInv
<1> QED
  BY <1>1, <1>2, <1>3, PTL DEF Spec

(* The number of the last trade before the minute. *)
Start == sequence - total[now]

(* The last number that frames in front of the queue told of. *)
Before == IF queue = <<>> THEN sequence ELSE Floor(queue[1])

(* The open bar of the minute. *)
Opening(f, time) == IsBar(f) /\ ~f.closed /\ f.time = time
OpenComes == \E i \in 1 .. Len(queue) : Opening(queue[i], now)

(* A step puts add behind the queue and loses d frames of its front. *)
Enqueued(d, add) ==
  /\ Comes(d, add)
  /\ d = 0 \/ d < Len(queue) + Len(add)
  /\ d > 0 => unseen'
  /\ unseen => unseen'
  /\ \A j \in 1 .. Len(add) : Floor(add[j]) = sequence
  /\ Len(add) = 0 => sequence' = sequence
  /\ \A i \in 1 .. Len(add) :
       IsBar(add[i]) /\ add[i].time < now' /\ add[i].upto > sequence' - total'[now'] =>
       \E j \in 1 .. Len(add) : j > i /\ Opening(add[j], now')

LEMMA NothingComes ==
  ASSUME queue \in Seq(Frame), queue' = queue
  PROVE  Comes(0, <<>>)
<1>1. Len(queue) \in Nat /\ Len(<<>>) = 0
  BY LenProperties
<1>2. ASSUME NEW i \in 1 .. Len(queue)
      PROVE  \E j \in 1 .. Len(queue) : j = i + 0 /\ queue'[i] = queue[j]
  BY <1>1
<1>3. \A j \in 1 .. Len(queue) : j - 0 = j
  BY <1>1
<1> QED
  BY <1>1, <1>2, <1>3 DEF Comes

LEMMA BridgeEnqueues ==
  ASSUME Base, OnTrade \/ OnTimestamp \/ SendSnapshots
  PROVE  \E d, add : /\ Enqueued(d, add)
                     /\ SendSnapshots /\ current # NoMinute =>
                          Len(add) > 0 /\ Opening(add[Len(add)], now)
<1>0. /\ now \in Nat /\ sequence \in Nat /\ queue \in Seq(Frame) /\ total[now] \in Nat
      /\ now \notin authoritative
  BY BaseFacts
<1>1. CASE OnTrade
  <2>0. PICK add : add = <<TradeFrame(sequence')>>
    OBVIOUS
  <2>1. PICK d \in Nat : Shifts(d, add) /\ Lost(d, add) /\ d <= Len(queue)
    BY <1>0, <1>1, <2>0, TradeQueued DEF Base
  <2>2. Comes(d, add)
    BY <1>0, <2>1, FramesOf
  <2>3. sequence' = sequence + 1
    BY <1>1 DEF OnTrade
  <2>4. Len(add) = 1 /\ ~IsBar(add[1]) /\ Floor(add[1]) = sequence
    <3>1. Len(add) = 1 /\ add[1] = TradeFrame(sequence')
      BY <2>0
    <3>2. ~IsBar(add[1]) /\ add[1].upto = sequence' /\ add[1].type = "trade"
      BY <3>1 DEF TradeFrame, IsBar
    <3>3. Floor(add[1]) = add[1].upto - 1
      BY <3>2 DEF Floor
    <3> QED
      BY <1>0, <2>3, <3>1, <3>2, <3>3
  <2>5. \A j \in 1 .. Len(add) : ~IsBar(add[j]) /\ Floor(add[j]) = sequence
    BY <2>4
  <2>6. d = 0 \/ d < Len(queue) + Len(add)
    BY <2>1, <2>2, <2>4 DEF Comes
  <2>7. Enqueued(d, add)
    BY <2>1, <2>2, <2>4, <2>5, <2>6 DEF Enqueued, Lost
  <2>8. ~SendSnapshots
    <3>1. sequence' # sequence
      BY <1>0, <2>3
    <3> QED
      BY <3>1 DEF SendSnapshots, bridge
  <2> QED
    BY <2>7, <2>8
<1>2. CASE OnTimestamp
  <2>1. /\ now' = now + 1 /\ sequence' = sequence /\ total' = total /\ total[now'] = 0
        /\ current = NoMinute => queue' = queue /\ unseen' = unseen
    BY <1>2, MinuteBegins DEF Base
  <2>2. sequence' - total'[now'] = sequence
    BY <1>0, <2>1
  <2>3. ~SendSnapshots
    <3>1. now' # now
      BY <1>0, <2>1
    <3> QED
      BY <3>1 DEF SendSnapshots, bridge
  <2>4. CASE current = NoMinute
    <3>1. Comes(0, <<>>)
      BY <1>0, <2>1, <2>4, NothingComes
    <3>2. Len(<<>>) = 0
      OBVIOUS
    <3>3. Enqueued(0, <<>>)
      BY <2>1, <2>4, <3>1, <3>2 DEF Enqueued
    <3> QED
      BY <2>3, <3>3
  <2>5. CASE current # NoMinute
    <3>0. PICK add : add = <<BarFrame(current, TRUE)>>
      OBVIOUS
    <3>1. PICK d \in Nat : Shifts(d, add) /\ Lost(d, add) /\ d <= Len(queue)
      BY <1>2, <2>5, <3>0, MinuteQueued DEF Base
    <3>2. Comes(d, add)
      BY <1>0, <3>1, FramesOf
    <3>4. Len(add) = 1 /\ add[1].upto = sequence /\ Floor(add[1]) = sequence
      BY <3>0 DEF BarFrame, IsBar, Floor
    <3>5. \A j \in 1 .. Len(add) : Floor(add[j]) = sequence /\ ~(add[j].upto > sequence' - total'[now'])
      BY <1>0, <2>2, <3>4
    <3>6. d = 0 \/ d < Len(queue) + Len(add)
      BY <3>1, <3>2, <3>4 DEF Comes
    <3>7. Enqueued(d, add)
      BY <2>1, <3>1, <3>2, <3>4, <3>5, <3>6 DEF Enqueued, Lost
    <3> QED
      BY <2>3, <3>7
  <2> QED
    BY <2>4, <2>5
<1>3. CASE SendSnapshots
  <2>0. PICK add : add = Snapshot
    OBVIOUS
  <2>1. PICK d \in Nat : Shifts(d, add) /\ Lost(d, add) /\ (d = 0 \/ d < Len(queue) + Len(add))
    BY <1>0, <1>3, <2>0, SnapshotsQueued DEF Base
  <2>2. Comes(d, add)
    BY <1>0, <2>1, FramesOf
  <2>3. now' = now /\ sequence' = sequence /\ total' = total
    BY <1>3 DEF SendSnapshots, bridge
  <2>4. /\ \A i \in 1 .. Len(add) :
             \/ last # NoMinute /\ i = 1 /\ add[i] = BarFrame(last, TRUE)
             \/ current # NoMinute /\ i = Len(add) /\ add[i] = BarFrame(current, FALSE)
        /\ current # NoMinute => Len(add) > 0 /\ add[Len(add)] = BarFrame(current, FALSE)
        /\ Len(add) \in Nat
    BY <2>0, SnapshotFrames DEF Base
  <2>5. /\ Floor(BarFrame(last, TRUE)) = sequence /\ BarFrame(last, TRUE).upto = sequence
        /\ Floor(BarFrame(current, FALSE)) = sequence /\ BarFrame(current, FALSE).upto = sequence
    BY DEF BarFrame, Floor, IsBar
  <2>6. current # NoMinute => Opening(BarFrame(current, FALSE), now)
    BY BridgeFacts DEF Opening, Base, BarFrame, IsBar
  <2>7. \A j \in 1 .. Len(add) : Floor(add[j]) = sequence /\ add[j].upto = sequence
    BY <2>4, <2>5
  <2>8. ASSUME NEW i \in 1 .. Len(add),
               add[i].time < now', add[i].upto > sequence' - total'[now']
        PROVE  \E j \in 1 .. Len(add) : j > i /\ Opening(add[j], now')
    <3>1. add[i].upto = sequence
      BY <2>7
    <3>2. total[now] # 0
      BY <1>0, <2>3, <2>8, <3>1
    <3>3. current # NoMinute
      BY <3>2, BridgeFacts DEF Base
    <3>4. Opening(add[Len(add)], now') /\ Len(add) \in 1 .. Len(add)
      <4>1. Len(add) \in 1 .. Len(add)
        BY <2>4, <3>3
      <4> QED
        BY <2>3, <2>4, <2>6, <3>3, <4>1
    <3>5. i # Len(add)
      <4>1. add[Len(add)].time = now
        BY <2>3, <3>4 DEF Opening
      <4> QED
        BY <1>0, <2>3, <2>8, <4>1
    <3>6. Len(add) > i
      BY <2>4, <3>5
    <3> QED
      BY <3>4, <3>6
  <2>9. Enqueued(d, add)
    BY <2>1, <2>2, <2>3, <2>7, <2>8 DEF Enqueued, Lost
  <2> QED
    BY <2>4, <2>6, <2>9
<1> QED
  BY <1>1, <1>2, <1>3

(* -------------------------------- numbers ------------------------------- *)

Numbers ==
  /\ seen \in Nat /\ highest \in Nat /\ highest <= seen /\ seen <= Before
  /\ task # Idle => seen > 0 /\ (task.time = now <=> seen > Start)
  /\ ~unseen /\ ~gap /\ ~task.gap /\ Before # seen => highest # 0

BeforeRange ==
  /\ Before \in Int /\ Before <= sequence
  /\ \A i \in 1 .. Len(queue) : Floor(queue[i]) \in Int /\ Before <= Floor(queue[i])
  /\ Len(queue) > 0 => Before = Floor(queue[1])
  /\ Len(queue) = 0 => Before = sequence
  /\ Len(queue) \in Nat /\ sequence \in Nat

LEMMA BeforeFacts == Base => BeforeRange
<1> SUFFICES ASSUME Base PROVE BeforeRange
  OBVIOUS
<1>1. queue \in Seq(Frame) /\ Len(queue) \in Nat /\ sequence \in Nat
  BY BaseFacts
<1>2. queue = <<>> <=> Len(queue) = 0
  BY <1>1, EmptySeq
<1>3. ASSUME NEW i \in 1 .. Len(queue)
      PROVE  /\ Floor(queue[i]) \in Int /\ Floor(queue[i]) <= queue[i].upto
             /\ queue[i].upto \in Nat /\ queue[i].upto <= sequence
  <2>1. queue[i] \in Frame /\ queue[i].upto <= sequence
    BY BaseFacts DEF FrameInv
  <2>2. queue[i].upto \in Nat
    BY <2>1 DEF Frame
  <2> QED
    BY <2>1, <2>2 DEF Floor
<1>4. ASSUME Len(queue) > 0, NEW i \in 1 .. Len(queue)
      PROVE  Floor(queue[1]) <= Floor(queue[i])
  <2>1. CASE i = 1
    BY <1>3, <2>1
  <2>2. CASE i # 1
    <3>1. 1 \in 1 .. Len(queue) /\ 1 < i
      BY <1>1, <1>4, <2>2
    <3>2. Ordered(queue[1], queue[i])
      BY <3>1 DEF Base, QueueInv
    <3>3. queue[1].upto <= Floor(queue[i])
      BY <3>2 DEF Ordered
    <3> QED
      BY <1>3, <3>1, <3>3
  <2> QED
    BY <2>1, <2>2
<1>5. CASE Len(queue) = 0
  BY <1>1, <1>2, <1>5 DEF Before, BeforeRange
<1>6. CASE Len(queue) > 0
  <2>1. Before = Floor(queue[1]) /\ 1 \in 1 .. Len(queue)
    BY <1>1, <1>2, <1>6 DEF Before
  <2>2. Before \in Int /\ Before <= sequence
    BY <1>1, <1>3, <2>1
  <2> QED
    BY <1>1, <1>3, <1>4, <1>6, <2>1, <2>2 DEF BeforeRange
<1> QED
  BY <1>1, <1>5, <1>6

LEMMA BeforeMoves ==
  ASSUME Base, Base', NEW d, NEW add, Comes(d, add),
         \A j \in 1 .. Len(add) : Floor(add[j]) = sequence,
         sequence <= sequence', Len(add) = 0 => sequence' = sequence
  PROVE  /\ Before \in Int /\ Before' \in Int /\ Before <= Before'
         /\ d = 0 => Before' = Before
         /\ \A i \in 1 .. Len(queue) : i = d /\ d > 0 => queue[i].upto <= Before'
         /\ \A i \in 1 .. Len(queue) : i = d /\ d > 0 /\ Len(add) = 0 => queue[i].upto = Before'
<1> DEFINE n == Len(queue)
           k == Len(add)
           l == Len(queue')
<1>1. /\ n \in Nat /\ k \in Nat /\ d \in Nat /\ l = (n + k) - d
      /\ \A i \in 1 .. l : \/ \E j \in 1 .. n : j = i + d /\ queue'[i] = queue[j]
                           \/ \E j \in 1 .. k : n + j = i + d /\ queue'[i] = add[j]
  BY DEF Comes
<1>2. /\ Before \in Int /\ Before <= sequence
      /\ \A i \in 1 .. n : Floor(queue[i]) \in Int /\ Before <= Floor(queue[i])
      /\ n > 0 => Before = Floor(queue[1])
      /\ n = 0 => Before = sequence
  BY BeforeFacts DEF BeforeRange
<1>r. BeforeRange'
  <2>1. Base => BeforeRange
    BY BeforeFacts
  <2> QED
    BY <2>1, BeforeFacts, PTL
<1>3. /\ Before' \in Int
      /\ l > 0 => Before' = Floor(queue'[1])
      /\ l = 0 => Before' = sequence'
      /\ sequence' \in Nat /\ l \in Nat
  BY <1>r DEF BeforeRange
<1>4. sequence \in Nat /\ sequence' \in Nat /\ l \in Nat
  BY <1>3, BaseFacts
<1>5. \A i \in 1 .. n : /\ queue[i].upto \in Nat /\ queue[i].upto <= sequence
                        /\ Floor(queue[i]) <= queue[i].upto
  <2> SUFFICES ASSUME NEW i \in 1 .. n
               PROVE  /\ queue[i].upto \in Nat /\ queue[i].upto <= sequence
                      /\ Floor(queue[i]) <= queue[i].upto
    OBVIOUS
  <2>1. queue[i] \in Frame /\ queue[i].upto <= sequence
    BY BaseFacts DEF FrameInv
  <2>2. queue[i].upto \in Nat
    BY <2>1 DEF Frame
  <2> QED
    BY <2>1, <2>2 DEF Floor
<1>6. /\ \A i, j \in 1 .. n : i < j => queue[i].upto <= Floor(queue[j])
      /\ \A i, j \in 1 .. n : j = i + 1 => Floor(queue[j]) = queue[i].upto
      /\ n > 0 => queue[n].upto = sequence
  BY DEF Base, QueueInv, Ordered
<1> HIDE DEF n, k, l
<1>7. CASE l = 0
  <2>1. Before' = sequence' /\ Before <= Before'
    BY <1>2, <1>3, <1>4, <1>7
  <2>2. d = 0 => n = 0 /\ k = 0
    BY <1>1, <1>7
  <2>3. d = 0 => Before' = Before
    BY <1>2, <2>1, <2>2 DEF k
  <2>4. ASSUME NEW i \in 1 .. n, i = d, d > 0
        PROVE  queue[i].upto <= Before' /\ (k = 0 => queue[i].upto = Before')
    <3>1. k = 0 => i = n /\ n > 0
      BY <1>1, <1>7, <2>4
    <3>2. k = 0 => sequence' = sequence
      BY DEF k
    <3> QED
      BY <1>4, <1>5, <1>6, <2>1, <2>4, <3>1, <3>2
  <2> QED
    BY <1>2, <1>3, <2>1, <2>3, <2>4 DEF n, k
<1>8. CASE l > 0
  <2>1. 1 \in 1 .. l /\ Before' = Floor(queue'[1])
    BY <1>3, <1>4, <1>8
  <2>2. \/ \E j \in 1 .. n : j = 1 + d /\ queue'[1] = queue[j]
        \/ \E j \in 1 .. k : n + j = 1 + d /\ queue'[1] = add[j]
    BY <1>1, <2>1
  <2>3. CASE \E j \in 1 .. n : j = 1 + d /\ queue'[1] = queue[j]
    <3>1. PICK j \in 1 .. n : j = 1 + d /\ queue'[1] = queue[j]
      BY <2>3
    <3>2. Before' = Floor(queue[j]) /\ Before <= Before'
      BY <1>2, <2>1, <3>1
    <3>3. d = 0 => j = 1 /\ n > 0
      BY <1>1, <3>1
    <3>4. d = 0 => Before' = Before
      BY <1>2, <3>2, <3>3
    <3>5. \A i \in 1 .. n : i = d => queue[i].upto = Before'
      BY <1>1, <1>6, <3>1, <3>2
    <3>6. \A i \in 1 .. n : i = d => queue[i].upto <= Before'
      BY <1>5, <3>5
    <3> QED
      BY <1>2, <1>3, <3>2, <3>4, <3>5, <3>6 DEF n, k
  <2>4. CASE \E j \in 1 .. k : n + j = 1 + d /\ queue'[1] = add[j]
    <3>1. PICK j \in 1 .. k : n + j = 1 + d /\ queue'[1] = add[j]
      BY <2>4
    <3>2. Before' = sequence
      BY <2>1, <3>1 DEF k
    <3>3. d = 0 => n = 0
      BY <1>1, <3>1
    <3>4. d = 0 => Before' = Before
      BY <1>2, <3>2, <3>3
    <3>5. \A i \in 1 .. n : queue[i].upto <= Before'
      BY <1>5, <3>2
    <3>6. k # 0
      BY <1>1, <3>1
    <3> QED
      BY <1>2, <1>3, <3>2, <3>4, <3>5, <3>6 DEF n, k
  <2> QED
    BY <2>2, <2>3, <2>4
<1> QED
  BY <1>4, <1>7, <1>8

NInv == Base /\ Numbers

LEMMA StartFacts ==
  ASSUME Base
  PROVE  Start \in Nat /\ Start <= sequence /\ (total[now] = 0 <=> Start = sequence)
BY BaseFacts DEF Start

(* What a bridge step leaves of the minute's numbers. *)
LEMMA StartMoves ==
  ASSUME Base, OnTrade \/ OnTimestamp \/ SendSnapshots
  PROVE  /\ sequence' \in Nat /\ sequence <= sequence' /\ now' \in Nat /\ Start' \in Int
         /\ \/ now' = now /\ Start' = Start
            \/ now' = now + 1 /\ Start' = sequence /\ OnTimestamp
         /\ UNCHANGED <<bound, task, late, highest, gap, active, engines, rows, faults,
                        seen, final, mixed>>
<1>0. now \in Nat /\ sequence \in Nat /\ total[now] \in Nat /\ Start \in Nat
  BY BaseFacts, StartFacts
<1>1. UNCHANGED <<bound, task, late, highest, gap, active, engines, rows, faults,
                  seen, final, mixed>>
  BY DEF OnTrade, OnTimestamp, SendSnapshots
<1>2. CASE OnTrade
  <2>1. now' = now /\ sequence' = sequence + 1 /\ total'[now] = total[now] + 1
    BY <1>2, TradeCounts DEF Base
  <2>2. Start' = (sequence + 1) - (total[now] + 1)
    BY <2>1 DEF Start
  <2> QED
    BY <1>0, <1>1, <2>1, <2>2 DEF Start
<1>3. CASE OnTimestamp
  <2>1. now' = now + 1 /\ sequence' = sequence /\ total' = total /\ total[now'] = 0
    BY <1>3, MinuteBegins DEF Base
  <2>2. Start' = sequence - 0
    BY <2>1 DEF Start
  <2> QED
    BY <1>0, <1>1, <1>3, <2>1, <2>2
<1>4. CASE SendSnapshots
  <2>1. now' = now /\ sequence' = sequence /\ total' = total
    BY <1>4 DEF SendSnapshots, bridge
  <2> QED
    BY <1>0, <1>1, <2>1 DEF Start
<1> QED
  BY <1>2, <1>3, <1>4

LEMMA NumbersOnBridge ==
  ASSUME NInv, OnTrade \/ OnTimestamp \/ SendSnapshots
  PROVE  Numbers'
<1>1. Base' /\ Base
  BY BaseOnTrade, BaseOnTimestamp, BaseSendSnapshots DEF NInv
<1>2. PICK d, add : Enqueued(d, add)
  BY BridgeEnqueues DEF NInv
<1>3. /\ sequence' \in Nat /\ sequence <= sequence' /\ now' \in Nat /\ Start' \in Int
      /\ \/ now' = now /\ Start' = Start
         \/ now' = now + 1 /\ Start' = sequence
      /\ highest' = highest /\ gap' = gap /\ task' = task /\ seen' = seen
  BY <1>1, StartMoves
<1>4. /\ Before \in Int /\ Before' \in Int /\ Before <= Before'
      /\ d = 0 => Before' = Before
  <2>1. /\ Comes(d, add) /\ \A j \in 1 .. Len(add) : Floor(add[j]) = sequence
        /\ Len(add) = 0 => sequence' = sequence
    BY <1>2 DEF Enqueued
  <2> QED
    BY <1>1, <1>3, <2>1, BeforeMoves
<1>5. /\ seen \in Nat /\ highest \in Nat /\ highest <= seen /\ seen <= Before
      /\ task # Idle => seen > 0 /\ (task.time = now <=> seen > Start)
      /\ ~unseen /\ ~gap /\ ~task.gap /\ Before # seen => highest # 0
  BY DEF NInv, Numbers
<1>6. seen <= Before' /\ seen <= sequence
  <2>1. Before <= sequence /\ sequence \in Nat
    BY <1>1, BeforeFacts DEF BeforeRange
  <2> QED
    BY <1>4, <1>5, <2>1
<1>7. d \in Nat /\ (unseen => unseen') /\ (d > 0 => unseen')
  BY <1>2 DEF Enqueued, Comes
<1>8. ~unseen' => Before' = Before /\ ~unseen
  BY <1>4, <1>7
<1>9. ASSUME task # Idle PROVE task.time = now' <=> seen > Start'
  <2>1. task.time \in Nat /\ task.time <= now /\ now \in Nat /\ sequence \in Nat
    BY <1>1, <1>9, BaseFacts DEF Base, Handlers, HandlerOf
  <2>2. CASE now' = now /\ Start' = Start
    BY <1>5, <1>9, <2>2
  <2>3. CASE now' = now + 1 /\ Start' = sequence
    <3>1. task.time # now'
      BY <2>1, <2>3
    <3>2. ~(seen > Start')
      BY <1>5, <1>6, <2>1, <2>3
    <3> QED
      BY <3>1, <3>2
  <2> QED
    BY <1>3, <2>2, <2>3
<1> QED
  BY <1>3, <1>5, <1>6, <1>8, <1>9 DEF Numbers

(* The numbers of a frame that leaves the queue. *)
LEMMA FrontNumbers ==
  ASSUME NInv, Base', Comes(1, <<>>), 1 \in 1 .. Len(queue), UNCHANGED sequence
  PROVE  /\ Before = Floor(queue[1]) /\ Before' = queue[1].upto /\ queue[1].upto \in Nat
         /\ seen <= Floor(queue[1]) /\ Floor(queue[1]) <= queue[1].upto
         /\ Floor(queue[1]) \in Int
<1>0. Base
  BY DEF NInv
<1>1. Len(queue) > 0 /\ Len(queue) \in Nat
  BY <1>0, BaseFacts
<1>2. Before = Floor(queue[1]) /\ Floor(queue[1]) \in Int
  BY <1>0, <1>1, BeforeFacts DEF BeforeRange
<1>3. queue[1].upto \in Nat
  BY <1>0, BaseFacts DEF Frame
<1>4. Before' = queue[1].upto
  <2>0. PICK add : add = <<>>
    OBVIOUS
  <2>1. Len(add) = 0 /\ Comes(1, add)
    BY <2>0
  <2>2. \A j \in 1 .. Len(add) : Floor(add[j]) = sequence
    BY <2>1
  <2>3. sequence \in Nat /\ sequence <= sequence'
    BY <1>0, BaseFacts
  <2>4. \A i \in 1 .. Len(queue) : i = 1 /\ 1 > 0 /\ Len(add) = 0 => queue[i].upto = Before'
    BY <1>0, <2>1, <2>2, <2>3, BeforeMoves
  <2> QED
    BY <2>1, <2>4
<1>5. seen <= Before /\ Floor(queue[1]) <= queue[1].upto
  BY <1>3 DEF NInv, Numbers, Floor
<1> QED
  BY <1>2, <1>3, <1>4, <1>5

LEMMA NumbersDropStale ==
  ASSUME NInv, DropStale
  PROVE  Numbers'
<1>1. /\ Base' /\ Base
  BY BaseDropStale DEF NInv
<1>2. /\ queue # <<>> /\ queue' = Tail(queue) /\ unseen' = (unseen \/ highest = 0)
      /\ UNCHANGED <<bridge, engines>> /\ task' = task /\ gap' = gap /\ highest' = highest
      /\ seen' = seen
  BY DEF DropStale
<1>3. now' = now /\ sequence' = sequence /\ total' = total /\ authoritative' = authoritative
  BY <1>2 DEF bridge, engines
<1>4. \A i \in 1 .. Len(queue) : ~queue[i].closed => queue[i].time \notin authoritative
  BY <1>1, BaseFacts DEF FrameInv
<1>5. Comes(1, <<>>) /\ 1 \in 1 .. Len(queue)
  BY <1>1, <1>2, <1>3, <1>4, QueuePops
<1>6. /\ Before = Floor(queue[1]) /\ Before' = queue[1].upto /\ queue[1].upto \in Nat
      /\ seen <= Floor(queue[1]) /\ Floor(queue[1]) <= queue[1].upto
      /\ Floor(queue[1]) \in Int
  BY <1>1, <1>3, <1>5, FrontNumbers
<1>7. /\ seen \in Nat /\ highest \in Nat /\ highest <= seen
      /\ task # Idle => seen > 0 /\ (task.time = now <=> seen > Start)
  BY DEF NInv, Numbers
<1>8. seen <= Before'
  BY <1>6, <1>7
<1>9. Start' = Start
  BY <1>3 DEF Start
<1> QED
  BY <1>2, <1>3, <1>7, <1>8, <1>9 DEF Numbers

LEMMA NumbersReceiveTrade ==
  ASSUME NInv, ReceiveTrade
  PROVE  /\ Numbers'
         /\ seen' = queue[1].upto /\ Start' = Start /\ now' = now
         /\ ~unseen' /\ ~gap' /\ ~task'.gap => seen' = seen + 1
         /\ seen <= seen' - 1 /\ seen' \in Nat
<1>1. /\ Base' /\ Base /\ 1 \in 1 .. Len(queue) /\ Head(queue) = queue[1] /\ ~IsBar(queue[1])
      /\ task' # Idle /\ task'.time = queue[1].time /\ Comes(1, <<>>)
  BY BaseReceiveTrade DEF NInv
<1> DEFINE f == queue[1]
<1>2. /\ task = Idle /\ task' = Recording(f.time, highest # 0 /\ f.upto # highest + 1)
      /\ highest' = f.upto /\ seen' = f.upto
      /\ UNCHANGED bridge /\ gap' = gap /\ unseen' = unseen
  BY <1>1 DEF ReceiveTrade, Receives
<1>3. now' = now /\ sequence' = sequence /\ total' = total /\ Start' = Start
  BY <1>2 DEF bridge, Start
<1>4. /\ Before = Floor(f) /\ Before' = f.upto /\ f.upto \in Nat
      /\ seen <= Floor(f)
  BY <1>1, <1>3, FrontNumbers
<1>5. Floor(f) = f.upto - 1
  BY <1>1 DEF Floor
<1>6. /\ f.upto > 0 /\ (f.time = now <=> f.upto > Start)
  BY <1>1, BaseFacts DEF FrameInv, Start
<1>7. task'.gap = (highest # 0 /\ f.upto # highest + 1) /\ ~task.gap
  BY <1>2 DEF Recording, Idle
<1>8. /\ seen \in Nat /\ highest \in Nat /\ highest <= seen
      /\ ~unseen /\ ~gap /\ Before # seen => highest # 0
  BY <1>7 DEF NInv, Numbers
<1> HIDE DEF f
<1>9. ASSUME ~unseen', ~gap', ~task'.gap PROVE seen' = seen + 1
  <2>1. Before # seen => highest # 0 /\ f.upto = highest + 1
    BY <1>2, <1>7, <1>8, <1>9
  <2>2. Before = seen
    BY <1>4, <1>5, <1>8, <2>1
  <2> QED
    BY <1>2, <1>4, <1>5, <1>8, <2>2
<1>10. seen <= f.upto - 1
  BY <1>4, <1>5
<1>11. Numbers'
  BY <1>1, <1>2, <1>3, <1>4, <1>6 DEF Numbers, f
<1> QED
  BY <1>2, <1>3, <1>4, <1>9, <1>10, <1>11 DEF f

LEMMA NumbersHandleBar ==
  ASSUME NInv, HandleBar
  PROVE  /\ Numbers'
         /\ seen' = queue[1].upto /\ Start' = Start /\ now' = now
         /\ seen <= seen' /\ seen' \in Nat
<1> DEFINE f == queue[1]
<1>1. /\ Base' /\ Base /\ 1 \in 1 .. Len(queue) /\ IsBar(f) /\ Comes(1, <<>>)
      /\ HandledBar(f, Evaluated(active', snapshots', flow'))
  BY BaseHandleBar DEF NInv
<1>2. /\ task = Idle /\ task' = Idle /\ highest' = highest /\ seen' = f.upto
      /\ UNCHANGED bridge
  BY <1>1 DEF HandledBar, HandleBar, Receives
<1>3. now' = now /\ sequence' = sequence /\ total' = total /\ Start' = Start
  BY <1>2 DEF bridge, Start
<1>4. /\ Before = Floor(f) /\ Before' = f.upto /\ f.upto \in Nat
      /\ seen <= Floor(f)
  BY <1>1, <1>3, FrontNumbers
<1>5. Floor(f) = f.upto
  BY <1>1 DEF Floor
<1>6. seen \in Nat /\ highest \in Nat /\ highest <= seen
  BY DEF NInv, Numbers
<1> HIDE DEF f
<1>7. highest <= f.upto /\ seen <= f.upto
  BY <1>4, <1>5, <1>6
<1>8. Numbers'
  BY <1>2, <1>3, <1>4, <1>6, <1>7 DEF Numbers
<1> QED
  BY <1>2, <1>3, <1>4, <1>7, <1>8 DEF f

(* The other steps: the queue stays or is forgotten, and the handler goes  *)
(* on or ends.                                                             *)
Others == \/ Connect \/ CutLine \/ TradeRecorded \/ LateRecorded
          \/ EndConnection \/ RecordFails \/ LateRecordFails
          \/ Evaluate \/ FlushForming \/ NtTrade \/ UNCHANGED vars

LEMMA OthersKeep ==
  ASSUME Others
  PROVE  /\ UNCHANGED <<bridge, seen, final, shed>>
         /\ task' = task \/ task' = Idle
         /\ \/ queue' = queue /\ highest' = highest /\ unseen' = unseen
            \/ queue' = <<>> /\ highest' = 0 /\ gap' = TRUE
            \/ queue' = queue /\ highest' = 0 /\ gap' = TRUE
         /\ ~gap' => ~gap /\ (task' # task => ~task.gap)
<1>1. CASE Connect
  <2>1. /\ UNCHANGED <<bridge, seen, final, shed>> /\ highest' = 0 /\ gap' = TRUE /\ task' = Idle
        /\ queue' = IF line = "never" THEN queue ELSE <<>>
    BY <1>1 DEF Connect
  <2>2. queue' = queue \/ queue' = <<>>
    BY <2>1
  <2> QED
    BY <2>1, <2>2
<1>2. CASE CutLine
  BY <1>2 DEF CutLine
<1>3. CASE TradeRecorded
  BY <1>3 DEF TradeRecorded, RunEngines
<1>4. CASE LateRecorded
  BY <1>4 DEF LateRecorded, RunEngines
<1>5. CASE EndConnection
  BY <1>5 DEF EndConnection, Disconnected
<1>6. CASE RecordFails
  BY <1>6 DEF RecordFails, Disconnected
<1>7. CASE LateRecordFails
  BY <1>7 DEF LateRecordFails
<1>8. CASE Evaluate
  BY <1>8 DEF Evaluate
<1>9. CASE FlushForming
  BY <1>9 DEF FlushForming
<1>10. CASE NtTrade
  BY <1>10 DEF NtTrade
<1>11. CASE UNCHANGED vars
  BY <1>11 DEF vars, history, bridge
<1> QED
  BY <1>1, <1>2, <1>3, <1>4, <1>5, <1>6, <1>7, <1>8, <1>9, <1>10, <1>11 DEF Others

LEMMA NumbersOthers ==
  ASSUME NInv, Others
  PROVE  Numbers' /\ Start' = Start /\ now' = now
<1>1. /\ UNCHANGED bridge /\ seen' = seen
      /\ task' = task \/ task' = Idle
      /\ \/ queue' = queue /\ highest' = highest /\ unseen' = unseen
         \/ queue' = <<>> /\ highest' = 0 /\ gap' = TRUE
         \/ queue' = queue /\ highest' = 0 /\ gap' = TRUE
      /\ ~gap' => ~gap /\ (task' # task => ~task.gap)
  BY OthersKeep
<1>2. now' = now /\ sequence' = sequence /\ total' = total /\ Start' = Start
  BY <1>1 DEF bridge, Start
<1>3. /\ Before' = Before \/ Before' = sequence
      /\ queue' = queue => Before' = Before
  BY <1>1, <1>2 DEF Before
<1>4. Before \in Int /\ Before <= sequence /\ sequence \in Nat
  BY BeforeFacts DEF BeforeRange, NInv
<1>5. /\ seen \in Nat /\ highest \in Nat /\ highest <= seen /\ seen <= Before
      /\ task # Idle => seen > 0 /\ (task.time = now <=> seen > Start)
      /\ ~unseen /\ ~gap /\ ~task.gap /\ Before # seen => highest # 0
  BY DEF NInv, Numbers
<1>6. seen <= Before'
  BY <1>3, <1>4, <1>5
<1>7. 0 <= seen /\ 0 \in Nat
  BY <1>5
<1>8. ~gap' /\ ~task'.gap => ~gap /\ ~task.gap
  BY <1>1
<1> QED
  BY <1>1, <1>2, <1>3, <1>5, <1>6, <1>7, <1>8 DEF Numbers

LEMMA NumbersNext ==
  ASSUME NInv, [Next]_vars
  PROVE  NInv'
<1>1. Base'
  BY BaseNext DEF NInv
<1>2. Numbers'
  BY NumbersOnBridge, NumbersDropStale, NumbersReceiveTrade, NumbersHandleBar, NumbersOthers
     DEF Next, Others
<1> QED
  BY <1>1, <1>2 DEF NInv

(* --------------------- the engines follow the bridge -------------------- *)

(* The last trade the engines hold. *)
Folded == IF task = Idle THEN seen ELSE seen - 1

Tracked(b) ==
  IF Folded > Start THEN b.time = now /\ b.count = Folded - Start ELSE b.time < now

(* Behind an older bar that tells of trades of this minute comes its open  *)
(* bar.                                                                    *)
OpeningFollows ==
  \A i \in 1 .. Len(queue) :
    IsBar(queue[i]) /\ queue[i].time < now /\ queue[i].upto > Start =>
    \E j \in 1 .. Len(queue) : j > i /\ Opening(queue[j], now)
NotAhead ==
  now \notin mixed /\ (bars[1].time = now \/ flow[1].time = now) => Folded > Start
InStep ==
  now \notin mixed /\ ~unseen /\ ~gap /\ ~task.gap /\ ~OpenComes
    => Tracked(bars[1]) /\ Tracked(flow[1])
Repairs ==
  active /\ gap /\ line = "open" /\ task = Idle => OpenComes \/ unseen \/ seen <= Start

Tracking == OpeningFollows /\ NotAhead /\ InStep /\ Repairs
TInv == NInv /\ Tracking

LEMMA TrackFacts ==
  ASSUME TInv
  PROVE  /\ Base /\ NInv /\ now \in Nat /\ sequence \in Nat /\ seen \in Nat /\ Start \in Nat
         /\ Folded \in Int /\ Folded <= seen /\ seen <= sequence /\ Start <= sequence
         /\ BarOf(bars[1], 1, now, total) /\ BarOf(flow[1], 1, now, total)
         /\ bars[1].time \in Int /\ bars[1].time <= now
         /\ flow[1].time \in Int /\ flow[1].time <= now
         /\ 1 \in Timeframes /\ Len(queue) \in Nat
         /\ \A i \in 1 .. Len(queue) : queue[i].upto \in Nat /\ queue[i].upto <= sequence
         /\ task # Idle => (task.time = now <=> seen > Start)
<1>1. Base /\ NInv /\ 1 \in Timeframes
  BY EnginesAssumption DEF TInv, NInv
<1>2. now \in Nat /\ sequence \in Nat /\ Len(queue) \in Nat
  BY <1>1, BaseFacts
<1>3. seen \in Nat /\ seen <= Before
  BY <1>1 DEF NInv, Numbers
<1>4. Before \in Int /\ Before <= sequence
  BY <1>1, BeforeFacts DEF BeforeRange
<1>5. Start \in Nat /\ Start <= sequence
  BY <1>1, StartFacts
<1>6. Folded \in Int /\ Folded <= seen
  BY <1>3 DEF Folded
<1>7. BarOf(bars[1], 1, now, total) /\ BarOf(flow[1], 1, now, total)
  BY <1>1 DEF Base, EnginesShape
<1>8. \A b : BarOf(b, 1, now, total) => b.time \in Int /\ b.time <= now
  <2> SUFFICES ASSUME NEW b, BarOf(b, 1, now, total) PROVE b.time \in Int /\ b.time <= now
    OBVIOUS
  <2>1. b.time \in Int /\ (b = NoBar => b.time = -1) /\ (b # NoBar => b.time <= now)
    BY FieldsOfBar
  <2> QED
    BY <1>2, <2>1
<1>9. \A i \in 1 .. Len(queue) : queue[i].upto \in Nat /\ queue[i].upto <= sequence
  <2> SUFFICES ASSUME NEW i \in 1 .. Len(queue)
               PROVE  queue[i].upto \in Nat /\ queue[i].upto <= sequence
    OBVIOUS
  <2>1. queue[i] \in Frame /\ queue[i].upto <= sequence
    BY <1>1, BaseFacts DEF FrameInv
  <2> QED
    BY <2>1 DEF Frame
<1>10. task # Idle => (task.time = now <=> seen > Start)
  BY <1>1 DEF NInv, Numbers
<1> QED
  BY <1>1, <1>2, <1>3, <1>4, <1>5, <1>6, <1>7, <1>8, <1>9, <1>10

LEMMA TrackBridge ==
  ASSUME TInv, OnTrade \/ OnTimestamp \/ SendSnapshots
  PROVE  Tracking'
<1>1. PICK d, add : /\ Enqueued(d, add)
                    /\ SendSnapshots /\ current # NoMinute =>
                         Len(add) > 0 /\ Opening(add[Len(add)], now)
  BY BridgeEnqueues, TrackFacts
<1>2. /\ Comes(d, add) /\ (d > 0 => unseen') /\ (unseen => unseen') /\ d \in Nat
      /\ Len(queue) \in Nat /\ Len(add) \in Nat
      /\ d = 0 \/ d < Len(queue) + Len(add)
      /\ \A i \in 1 .. Len(add) :
           IsBar(add[i]) /\ add[i].time < now' /\ add[i].upto > Start' =>
           \E j \in 1 .. Len(add) : j > i /\ Opening(add[j], now')
  BY <1>1 DEF Enqueued, Comes, Start
<1>3. /\ sequence' \in Nat /\ sequence <= sequence' /\ now' \in Nat /\ Start' \in Int
      /\ \/ now' = now /\ Start' = Start
         \/ now' = now + 1 /\ Start' = sequence /\ OnTimestamp
      /\ task' = task /\ gap' = gap /\ active' = active /\ seen' = seen /\ mixed' = mixed
      /\ bars' = bars /\ flow' = flow
  BY TrackFacts, StartMoves DEF engines
<1>4. Folded' = Folded
  BY <1>3 DEF Folded
<1>5. \A j \in 1 .. Len(queue) : now' = now /\ j > d /\ Opening(queue[j], now) =>
        j - d \in 1 .. Len(queue') /\ Opening(queue'[j - d], now')
  BY <1>2 DEF Comes
<1>6. OpeningFollows'
  <2> SUFFICES ASSUME NEW i \in 1 .. Len(queue'), IsBar(queue'[i]), queue'[i].time < now',
                      queue'[i].upto > Start'
               PROVE  \E j \in 1 .. Len(queue') : j > i /\ Opening(queue'[j], now')
    BY DEF OpeningFollows
  <2>1. \/ \E j \in 1 .. Len(queue) : j = i + d /\ queue'[i] = queue[j]
        \/ \E j \in 1 .. Len(add) : Len(queue) + j = i + d /\ queue'[i] = add[j]
    BY <1>2 DEF Comes
  <2>2. CASE \E j \in 1 .. Len(queue) : j = i + d /\ queue'[i] = queue[j]
    <3>1. PICK j \in 1 .. Len(queue) : j = i + d /\ queue'[i] = queue[j]
      BY <2>2
    <3>2. queue[j].upto <= sequence /\ queue[j].upto \in Nat /\ sequence \in Nat
      BY TrackFacts
    <3>3. Start' # sequence
      BY <3>1, <3>2
    <3>4. now' = now /\ Start' = Start
      BY <1>3, <3>3
    <3>5. PICK k \in 1 .. Len(queue) : k > j /\ Opening(queue[k], now)
      BY <3>1, <3>4 DEF TInv, Tracking, OpeningFollows
    <3>6. k > d /\ k - d > i
      BY <1>2, <3>1, <3>5
    <3> QED
      BY <1>5, <3>4, <3>5, <3>6
  <2>3. CASE \E j \in 1 .. Len(add) : Len(queue) + j = i + d /\ queue'[i] = add[j]
    <3>1. PICK j \in 1 .. Len(add) : Len(queue) + j = i + d /\ queue'[i] = add[j]
      BY <2>3
    <3>2. PICK k \in 1 .. Len(add) : k > j /\ Opening(add[k], now')
      BY <1>2, <3>1
    <3>3. Len(queue) + k > d /\ (Len(queue) + k) - d > i
      BY <1>2, <3>1, <3>2
    <3>4. /\ (Len(queue) + k) - d \in 1 .. Len(queue')
          /\ queue'[(Len(queue) + k) - d] = add[k]
      BY <1>2, <3>3 DEF Comes
    <3> QED
      BY <3>2, <3>3, <3>4
  <2> QED
    BY <2>1, <2>2, <2>3
<1>7. /\ bars[1].time \in Int /\ bars[1].time <= now /\ flow[1].time \in Int /\ flow[1].time <= now
      /\ now \in Nat /\ Folded \in Int /\ Folded <= sequence /\ sequence \in Nat /\ seen <= sequence
      /\ seen \in Nat
  BY TrackFacts
<1>8. NotAhead'
  <2>1. CASE now' = now /\ Start' = Start
    BY <1>3, <1>4, <2>1 DEF TInv, Tracking, NotAhead
  <2>2. CASE now' = now + 1
    <3>1. bars[1].time # now' /\ flow[1].time # now'
      BY <1>7, <2>2
    <3> QED
      BY <1>3, <3>1 DEF NotAhead
  <2> QED
    BY <1>3, <2>1, <2>2
<1>9. now' = now /\ ~unseen' /\ OpenComes => OpenComes'
  <2> SUFFICES ASSUME now' = now, ~unseen', OpenComes PROVE OpenComes'
    OBVIOUS
  <2>1. PICK j \in 1 .. Len(queue) : Opening(queue[j], now)
    BY DEF OpenComes
  <2>2. j > d
    BY <1>2
  <2> QED
    BY <1>5, <2>1, <2>2 DEF OpenComes
<1>10. InStep'
  <2>1. CASE now' = now /\ Start' = Start
    <3>1. now' \notin mixed' /\ ~unseen' /\ ~gap' /\ ~task'.gap /\ ~OpenComes'
            => Tracked(bars[1]) /\ Tracked(flow[1])
      BY <1>2, <1>3, <1>9, <2>1 DEF TInv, Tracking, InStep
    <3>2. \A b : Tracked(b) <=> IF Folded' > Start' THEN b.time = now' /\ b.count = Folded' - Start'
                                ELSE b.time < now'
      BY <1>4, <2>1 DEF Tracked
    <3> QED
      BY <1>3, <3>1, <3>2 DEF InStep, Tracked
  <2>2. CASE now' = now + 1 /\ Start' = sequence
    <3>1. ~(Folded' > Start') /\ bars[1].time < now' /\ flow[1].time < now'
      BY <1>4, <1>7, <2>2
    <3> QED
      BY <1>3, <3>1 DEF InStep, Tracked
  <2> QED
    BY <1>3, <2>1, <2>2
<1>11. Repairs'
  <2> SUFFICES ASSUME active', gap', line' = "open", task' = Idle, ~unseen', ~(seen' <= Start')
               PROVE  OpenComes'
    BY DEF Repairs
  <2>1. now' = now /\ Start' = Start /\ ~OnTimestamp
    <3>1. ~(Start' = sequence)
      BY <1>3, <1>7
    <3>2. OnTimestamp => now' = now + 1
      BY DEF OnTimestamp
    <3>3. now' = now /\ Start' = Start
      BY <1>3, <3>1
    <3>4. ~(now = now + 1)
      BY <1>7
    <3> QED
      BY <3>2, <3>3, <3>4
  <2>2. CASE OnTrade
    <3>1. line' = line
      BY <2>2 DEF OnTrade
    <3> QED
      BY <1>2, <1>3, <1>9, <2>1, <3>1 DEF TInv, Tracking, Repairs
  <2>3. CASE SendSnapshots
    <3>1. sequence' = sequence /\ total' = total
      BY <2>3 DEF SendSnapshots, bridge
    <3>2. current # NoMinute
      <4>1. Start # sequence
        BY <1>3, <1>7, <2>1
      <4>2. total[now] # 0
        BY <4>1, TrackFacts, StartFacts
      <4> QED
        BY <4>2, TrackFacts, BridgeFacts DEF Base
    <3>3. Len(add) > 0 /\ Opening(add[Len(add)], now)
      BY <1>1, <2>3, <3>2
    <3> DEFINE k == Len(add)
    <3>4. k \in 1 .. Len(add) /\ Len(queue) + k > d
      BY <1>2, <3>3
    <3>5. (Len(queue) + k) - d \in 1 .. Len(queue') /\ queue'[(Len(queue) + k) - d] = add[k]
      BY <1>2, <3>4 DEF Comes
    <3> QED
      BY <2>1, <3>3, <3>5 DEF OpenComes
  <2> QED
    BY <2>1, <2>2, <2>3
<1> QED
  BY <1>6, <1>8, <1>10, <1>11 DEF Tracking

(* A frame leaves the front. *)
LEMMA FrontLeaves ==
  ASSUME OpeningFollows, Comes(1, <<>>), now' = now, Start' = Start
  PROVE  /\ OpeningFollows'
         /\ OpenComes => OpenComes' \/ Opening(queue[1], now)
         /\ \A j \in 1 .. Len(queue) : j > 1 /\ Opening(queue[j], now) => OpenComes'
<1>0. PICK add : add = <<>>
  OBVIOUS
<1>1. /\ Len(queue) \in Nat /\ Len(add) = 0 /\ Comes(1, add)
  BY <1>0 DEF Comes
<1>2. /\ \A i \in 1 .. Len(queue') : \E j \in 1 .. Len(queue) : j = i + 1 /\ queue'[i] = queue[j]
      /\ \A j \in 1 .. Len(queue) : j > 1 => j - 1 \in 1 .. Len(queue') /\ queue'[j - 1] = queue[j]
  <2>1. ~\E j \in 1 .. Len(add) : TRUE
    BY <1>1
  <2> QED
    BY <1>1, <2>1 DEF Comes
<1>3. OpeningFollows'
  <2> SUFFICES ASSUME NEW i \in 1 .. Len(queue'), IsBar(queue'[i]), queue'[i].time < now',
                      queue'[i].upto > Start'
               PROVE  \E j \in 1 .. Len(queue') : j > i /\ Opening(queue'[j], now')
    BY DEF OpeningFollows
  <2>1. PICK j \in 1 .. Len(queue) : j = i + 1 /\ queue'[i] = queue[j]
    BY <1>2
  <2>2. PICK k \in 1 .. Len(queue) : k > j /\ Opening(queue[k], now)
    BY <2>1 DEF OpeningFollows
  <2>3. k > 1 /\ k - 1 > i
    BY <2>1, <2>2
  <2> QED
    BY <1>2, <2>2, <2>3
<1>4. ASSUME NEW j \in 1 .. Len(queue), j > 1, Opening(queue[j], now)
      PROVE  OpenComes'
  BY <1>2, <1>4 DEF OpenComes
<1>5. ASSUME OpenComes PROVE OpenComes' \/ Opening(queue[1], now)
  <2>1. PICK j \in 1 .. Len(queue) : Opening(queue[j], now)
    BY <1>5 DEF OpenComes
  <2>2. j = 1 \/ j > 1
    BY <1>1
  <2> QED
    BY <1>4, <2>1, <2>2
<1> QED
  BY <1>3, <1>4, <1>5

LEMMA TrackDropStale ==
  ASSUME TInv, DropStale
  PROVE  Tracking'
<1>1. /\ queue # <<>> /\ queue' = Tail(queue) /\ unseen' = (unseen \/ highest = 0)
      /\ Head(queue).type = "trade"
      /\ UNCHANGED <<bridge, engines>> /\ task' = task /\ gap' = gap
      /\ seen' = seen /\ active' = active /\ line' = line /\ mixed' = mixed
  BY DEF DropStale
<1>2. /\ now' = now /\ sequence' = sequence /\ total' = total /\ authoritative' = authoritative
      /\ bars' = bars /\ flow' = flow
  BY <1>1 DEF bridge, engines
<1>3. \A i \in 1 .. Len(queue) : ~queue[i].closed => queue[i].time \notin authoritative
  BY TrackFacts, BaseFacts DEF FrameInv
<1>4. Comes(1, <<>>) /\ Head(queue) = queue[1]
  <2>1. queue \in Seq(Frame)
    BY TrackFacts, BaseFacts
  <2>2. Head(queue) = queue[1]
    BY <1>1, <2>1, TailShifts
  <2> QED
    BY <1>1, <1>2, <1>3, <2>2, QueuePops, TrackFacts
<1>5. Start' = Start /\ Folded' = Folded
  BY <1>1, <1>2 DEF Start, Folded
<1>6. OpeningFollows' /\ (OpenComes => OpenComes' \/ Opening(queue[1], now))
  BY <1>2, <1>4, <1>5, FrontLeaves DEF TInv, Tracking
<1>7. OpenComes => OpenComes'
  BY <1>1, <1>4, <1>6 DEF Opening, IsBar
<1>8. NotAhead'
  BY <1>1, <1>2, <1>5 DEF TInv, Tracking, NotAhead
<1>9. InStep'
  BY <1>1, <1>2, <1>5, <1>7 DEF TInv, Tracking, InStep, Tracked
<1>10. Repairs'
  BY <1>1, <1>2, <1>5, <1>7 DEF TInv, Tracking, Repairs
<1> QED
  BY <1>6, <1>8, <1>9, <1>10 DEF Tracking

LEMMA TrackReceiveTrade ==
  ASSUME TInv, ReceiveTrade
  PROVE  Tracking'
<1>1. /\ seen' = queue[1].upto /\ Start' = Start /\ now' = now
      /\ ~unseen' /\ ~gap' /\ ~task'.gap => seen' = seen + 1
      /\ seen <= seen' - 1 /\ seen' \in Nat
  BY NumbersReceiveTrade, TrackFacts
<1>2. Comes(1, <<>>) /\ ~IsBar(queue[1]) /\ task' # Idle
  BY BaseReceiveTrade, TrackFacts
<1>3. /\ task = Idle /\ gap' = gap /\ unseen' = unseen /\ mixed' = mixed /\ bars' = bars /\ flow' = flow
  BY DEF ReceiveTrade, Receives, engines
<1>4. OpeningFollows' /\ (OpenComes => OpenComes')
  BY <1>1, <1>2, FrontLeaves DEF TInv, Tracking, Opening
<1>5. Folded = seen /\ Folded' = seen' - 1 /\ ~task.gap
  BY <1>2, <1>3 DEF Folded, Idle
<1>6. Folded \in Int /\ Start \in Nat /\ seen \in Nat
  BY TrackFacts
<1>7. Folded' \in Int /\ Folded <= Folded'
  BY <1>1, <1>5
<1>8. NotAhead'
  BY <1>1, <1>3, <1>6, <1>7 DEF TInv, Tracking, NotAhead
<1>9. InStep'
  <2> SUFFICES ASSUME now' \notin mixed', ~unseen', ~gap', ~task'.gap, ~OpenComes'
               PROVE  Tracked(bars[1])' /\ Tracked(flow[1])'
    BY DEF InStep
  <2>1. Folded' = Folded
    BY <1>1, <1>5, <1>6
  <2>2. Tracked(bars[1]) /\ Tracked(flow[1])
    BY <1>1, <1>3, <1>4, <1>5 DEF TInv, Tracking, InStep
  <2> QED
    BY <1>1, <1>3, <2>1, <2>2 DEF Tracked
<1>10. Repairs'
  BY <1>2 DEF Repairs
<1> QED
  BY <1>4, <1>8, <1>9, <1>10 DEF Tracking

(* A trade of an older minute leaves an engine that is at this one.        *)
LEMMA OlderTradeFolds ==
  ASSUME NEW b, BarOf(b, 1, now, total), Base, NEW time \in Minutes, time < now, total[time] > 0
  PROVE  /\ b.time = now => Fold(b, time, 1) = b
         /\ b.time < now => Fold(b, time, 1).time < now
<1>1. /\ time \in Nat /\ now \in Nat /\ 1 \in Timeframes /\ Bucket(time, 1) = time /\ b.time \in Int
  BY BaseFacts, MinutesAreNat, EnginesAssumption, Buckets, FieldsOfBar
<1>2. /\ time > b.time => Fold(b, time, 1) = [time |-> time, count |-> 1]
      /\ time = b.time => Fold(b, time, 1) = [time |-> time, count |-> b.count + 1]
      /\ time < b.time => Fold(b, time, 1) = b
  BY <1>1, FoldsTrade
<1> DEFINE n == Fold(b, time, 1)
           m == b.time
<1>3. (time > m => n.time = time) /\ (time = m => n.time = time) /\ (time < m => n = b)
  BY <1>2
<1>4. m = b.time
  OBVIOUS
<1> HIDE DEF n, m
<1>5. (m = now => n = b) /\ (m < now => n.time < now)
  BY <1>1, <1>3, <1>4 DEF m
<1> QED
  BY <1>5 DEF n, m

(* The trade that was being recorded is folded. *)
LEMMA TradeFolds ==
  ASSUME TInv, task # Idle, NEW b, BarOf(b, 1, now, total)
  PROVE  LET n == Fold(b, task.time, 1) IN
         /\ n.time = now => seen > Start \/ b.time = now
         /\ Tracked(b) => IF seen > Start THEN n.time = now /\ n.count = seen - Start
                          ELSE n.time < now
<1> DEFINE n == Fold(b, task.time, 1)
           h == task.time
           s == Start
<1>1. /\ h \in Minutes /\ h \in Nat /\ h <= now /\ total[h] > 0 /\ now \in Nat
      /\ (h = now <=> seen > s) /\ seen \in Nat /\ s \in Nat /\ Folded = seen - 1
      /\ 1 \in Timeframes /\ Base
  <2>1. /\ h \in Minutes /\ h \in Nat
    BY TrackFacts, BaseFacts
  <2>2. HandlerOf(task, now, total)
    BY TrackFacts DEF Base, Handlers
  <2> QED
    BY <2>1, <2>2, TrackFacts DEF Folded, HandlerOf
<1>2. /\ h > b.time => n = [time |-> h, count |-> 1]
      /\ h = b.time => n = [time |-> h, count |-> b.count + 1]
      /\ h < b.time => n = b
      /\ b.time \in Int
  <2>1. Bucket(h, 1) = h
    BY <1>1, Buckets
  <2> QED
    BY <1>1, <2>1, FoldsTrade, FieldsOfBar
<1>3. /\ h > b.time => n.time = h /\ n.count = 1
      /\ h = b.time => n.time = h /\ n.count = b.count + 1
      /\ h < b.time => n = b
  BY <1>2
<1>4. b.time <= now
  BY <1>1, FieldsOfBar
<1>5. Tracked(b) <=> IF seen - 1 > s THEN b.time = now /\ b.count = (seen - 1) - s ELSE b.time < now
  BY <1>1 DEF Tracked
<1> HIDE DEF n, h, s
<1>6. ASSUME n.time = now PROVE seen > s \/ b.time = now
  BY <1>1, <1>2, <1>3, <1>4, <1>6
<1> QED
  BY <1>1, <1>2, <1>3, <1>4, <1>5, <1>6 DEF n, h, s
LEMMA TrackTradeRecorded ==
  ASSUME TInv, TradeRecorded
  PROVE  Tracking'
<1> DEFINE h == task.time
<1>1. /\ task # Idle /\ task' = Idle /\ queue' = queue /\ seen' = seen /\ unseen' = unseen
      /\ mixed' = mixed /\ UNCHANGED bridge
  BY DEF TradeRecorded
<1>2. /\ gap' = (gap \/ task.gap) /\ (active' => ~gap')
      /\ bars'[1] = Fold(bars[1], h, 1) /\ flow'[1] = Fold(flow[1], h, 1)
  BY TrackFacts, BaseTradeRecorded DEF RanEngines
<1>3. now' = now /\ sequence' = sequence /\ total' = total /\ Start' = Start
  BY <1>1 DEF bridge, Start
<1>4. Folded' = seen /\ Folded \in Int /\ Folded <= seen /\ seen \in Nat /\ Start \in Nat
  BY <1>1, TrackFacts DEF Folded
<1>5. \A b : BarOf(b, 1, now, total) =>
        /\ Fold(b, h, 1).time = now => seen > Start \/ b.time = now
        /\ Tracked(b) => IF seen > Start
                         THEN Fold(b, h, 1).time = now /\ Fold(b, h, 1).count = seen - Start
                         ELSE Fold(b, h, 1).time < now
  BY <1>1, TradeFolds
<1>6. BarOf(bars[1], 1, now, total) /\ BarOf(flow[1], 1, now, total)
  BY TrackFacts
<1> HIDE DEF h
<1>7. OpeningFollows' /\ (OpenComes => OpenComes')
  BY <1>1, <1>3 DEF TInv, Tracking, OpeningFollows, OpenComes
<1>8. NotAhead'
  <2> SUFFICES ASSUME now' \notin mixed', bars'[1].time = now' \/ flow'[1].time = now'
               PROVE  Folded' > Start'
    BY DEF NotAhead
  <2>1. seen > Start \/ bars[1].time = now \/ flow[1].time = now
    BY <1>2, <1>3, <1>5, <1>6
  <2>2. bars[1].time = now \/ flow[1].time = now => Folded > Start
    BY <1>1, <1>3 DEF TInv, Tracking, NotAhead
  <2> QED
    BY <1>3, <1>4, <2>1, <2>2
<1>9. InStep'
  <2> SUFFICES ASSUME now' \notin mixed', ~unseen', ~gap', ~OpenComes'
               PROVE  Tracked(bars[1])' /\ Tracked(flow[1])'
    BY DEF InStep
  <2>1. Tracked(bars[1]) /\ Tracked(flow[1])
    BY <1>1, <1>2, <1>3, <1>7 DEF TInv, Tracking, InStep
  <2> QED
    BY <1>2, <1>3, <1>4, <1>5, <1>6, <2>1 DEF Tracked
<1>10. Repairs'
  BY <1>2 DEF Repairs
<1> QED
  BY <1>7, <1>8, <1>9, <1>10 DEF Tracking

LEMMA TrackLateRecorded ==
  ASSUME TInv, LateRecorded
  PROVE  Tracking'
<1> DEFINE h == late.time
<1>1. /\ late # Idle /\ task' = task /\ queue' = queue /\ seen' = seen /\ unseen' = unseen
      /\ mixed' = mixed \cup {h} /\ UNCHANGED bridge
  BY DEF LateRecorded
<1>2. /\ gap' = (gap \/ late.gap) /\ (active' => ~gap')
      /\ bars'[1] = Fold(bars[1], h, 1) /\ flow'[1] = Fold(flow[1], h, 1)
      /\ h \in Minutes /\ h \in Nat /\ h <= now /\ total[h] > 0
  BY TrackFacts, BaseLateRecorded DEF RanEngines
<1>3. now' = now /\ sequence' = sequence /\ total' = total /\ Start' = Start /\ Folded' = Folded
  BY <1>1 DEF bridge, Start, Folded
<1>4. BarOf(bars[1], 1, now, total) /\ BarOf(flow[1], 1, now, total) /\ Base /\ now \in Nat
      /\ bars[1].time \in Int /\ bars[1].time <= now /\ flow[1].time \in Int /\ flow[1].time <= now
  BY TrackFacts
<1> HIDE DEF h
<1>5. OpeningFollows' /\ (OpenComes => OpenComes')
  BY <1>1, <1>3 DEF TInv, Tracking, OpeningFollows, OpenComes
<1>6. ASSUME now' \notin mixed'
      PROVE  /\ now \notin mixed
             /\ bars[1].time = now => bars'[1] = bars[1]
             /\ bars[1].time < now => bars'[1].time < now
             /\ flow[1].time = now => flow'[1] = flow[1]
             /\ flow[1].time < now => flow'[1].time < now
  <2>1. now \notin mixed /\ h # now
    BY <1>1, <1>3, <1>6
  <2>2. h < now
    BY <1>2, <1>4, <2>1
  <2> QED
    BY <1>2, <1>4, <2>1, <2>2, OlderTradeFolds
<1>7. NotAhead'
  <2> SUFFICES ASSUME now' \notin mixed', bars'[1].time = now' \/ flow'[1].time = now'
               PROVE  Folded' > Start'
    BY DEF NotAhead
  <2> DEFINE a == bars[1].time
             b == flow[1].time
             a1 == bars'[1].time
             b1 == flow'[1].time
  <2>1. now \notin mixed /\ (a < now => a1 < now) /\ (b < now => b1 < now) /\ (a1 = now \/ b1 = now)
        /\ a \in Int /\ a <= now /\ b \in Int /\ b <= now
    BY <1>3, <1>4, <1>6
  <2> HIDE DEF a, b, a1, b1
  <2>2. a = now \/ b = now
    BY <1>4, <2>1
  <2>3. Folded > Start
    BY <2>1, <2>2 DEF TInv, Tracking, NotAhead, a, b
  <2> QED
    BY <1>3, <2>3
<1>8. InStep'
  <2> SUFFICES ASSUME now' \notin mixed', ~unseen', ~gap', ~task'.gap, ~OpenComes'
               PROVE  Tracked(bars[1])' /\ Tracked(flow[1])'
    BY DEF InStep
  <2>1. Tracked(bars[1]) /\ Tracked(flow[1])
    BY <1>1, <1>2, <1>5, <1>6 DEF TInv, Tracking, InStep
  <2> QED
    BY <1>3, <1>6, <2>1 DEF Tracked
<1>9. Repairs'
  BY <1>2 DEF Repairs
<1> QED
  BY <1>5, <1>7, <1>8, <1>9 DEF Tracking

(* A bar frame sets the engines to where the bridge was. *)
LEMMA TrackHandleBar ==
  ASSUME TInv, HandleBar
  PROVE  Tracking'
<1> DEFINE f == queue[1]
           b == bars[1]
           b1 == bars'[1]
           n1 == flow'[1]
<1>1. /\ Base' /\ 1 \in 1 .. Len(queue) /\ f \in Frame /\ IsBar(f)
      /\ f.time \in Nat /\ f.time <= now /\ total[f.time] > 0
      /\ FrameInv(f, now, sequence, total, authoritative)
      /\ Comes(1, <<>>)
      /\ HandledBar(f, Evaluated(active', snapshots', flow'))
  BY TrackFacts, BaseHandleBar
<1>2. /\ seen' = f.upto /\ Start' = Start /\ now' = now /\ seen <= f.upto /\ f.upto \in Nat
  BY TrackFacts, NumbersHandleBar
<1>3. /\ task = Idle /\ task' = Idle /\ mixed' = mixed
      /\ gap' = (gap /\ f.partial) /\ (active' => ~f.partial)
      /\ b1 = Reconcile(b, Sent(f, 1)) /\ n1 = Made(f, 1, rows.delta[1])
  <2>1. task = Idle
    BY DEF HandleBar, Receives
  <2> QED
    BY <1>1, <2>1, TrackFacts DEF HandledBar
<1>4. Folded = seen /\ Folded' = f.upto
  BY <1>2, <1>3 DEF Folded
<1>5. /\ f.closed => f.time < now
      /\ ~f.closed /\ f.time = now => f.count > 0 /\ f.count = f.upto - Start
      /\ f.closed \in BOOLEAN /\ f.count \in Nat
  BY <1>1 DEF FrameInv, Frame, Start
<1>6. /\ n1.time = f.time /\ n1.count = f.count
      /\ \/ f.closed /\ b.time <= f.time /\ b1 = NoBar
         \/ ~f.closed /\ b.time <= f.time /\ b1 = [time |-> f.time, count |-> f.count]
         \/ b.time > f.time /\ b1 = b
  <2>1. 1 \in Timeframes /\ Bucket(f.time, 1) = f.time /\ now \in Nat
    BY <1>1, TrackFacts, Buckets
  <2>2. /\ n1.time = f.time /\ n1.count = f.count /\ (Ends(f, 1) <=> f.closed)
        /\ Made(f, 1, rows.bar[1]).count = f.count
    BY <1>1, <1>3, <2>1, MadeForBucket
  <2>3. /\ UpdateOf(Sent(f, 1), now, total)
        /\ Sent(f, 1).tf = 1 /\ Sent(f, 1).time = f.time
        /\ Sent(f, 1).closed = Ends(f, 1) /\ Sent(f, 1).count = f.count
    <3>0. f \in Frame /\ f.time <= now /\ total[f.time] > 0 /\ now \in Nat
      BY <1>1, <2>1
    <3> HIDE DEF f
    <3>1. \A tf \in Timeframes :
            /\ UpdateOf(Sent(f, tf), now, total)
            /\ Sent(f, tf).tf = tf /\ Sent(f, tf).time = Bucket(f.time, tf)
            /\ Sent(f, tf).closed = Ends(f, tf)
            /\ Sent(f, tf).count = Made(f, tf, rows.bar[1]).count
      BY <3>0, SentUpdates
    <3> QED
      BY <2>1, <2>2, <3>1
  <2> DEFINE u == Sent(f, 1)
  <2>4. \/ u.closed /\ b.time <= u.time /\ Reconcile(b, u) = NoBar
        \/ ~u.closed /\ b.time <= u.time /\ Reconcile(b, u) = [time |-> u.time, count |-> u.count]
        \/ b.time > u.time /\ Reconcile(b, u) = b
    BY <2>3, TrackFacts, Reconciled
  <2>5. u.time = f.time /\ u.count = f.count /\ (u.closed <=> f.closed)
    BY <2>2, <2>3
  <2> HIDE DEF u
  <2> QED
    BY <1>3, <2>2, <2>4, <2>5 DEF u
<1>7. /\ b.time \in Int /\ b.time <= now /\ now \in Nat /\ Start \in Nat /\ seen \in Nat
  BY TrackFacts
<1>8. OpeningFollows' /\ \A j \in 1 .. Len(queue) : j > 1 /\ Opening(queue[j], now) => OpenComes'
  BY <1>1, <1>2, FrontLeaves DEF TInv, Tracking
<1>9. f.time < now /\ f.upto > Start => OpenComes'
  <2> SUFFICES ASSUME f.time < now, f.upto > Start PROVE OpenComes'
    OBVIOUS
  <2>1. PICK j \in 1 .. Len(queue) : j > 1 /\ Opening(queue[j], now)
    BY <1>1 DEF TInv, Tracking, OpeningFollows
  <2> QED
    BY <1>8, <2>1
<1>10. now \notin mixed /\ b.time = now => seen > Start
  BY <1>4 DEF TInv, Tracking, NotAhead
<1>11. b1.time = IF b.time > f.time THEN b.time ELSE IF f.closed THEN -1 ELSE f.time
  <2>1. NoBar.time = -1 /\ \A t, c : [time |-> t, count |-> c].time = t
    BY DEF NoBar
  <2> QED
    BY <1>1, <1>6, <1>7, <2>1
<1>12. b.time <= f.time /\ ~f.closed => b1.count = f.count
  BY <1>1, <1>6, <1>7
<1> HIDE DEF f, b, b1, n1
<1>13. f.time = now => f.upto > Start /\ ~f.closed
  BY <1>2, <1>5, <1>7
<1>14. NotAhead'
  <2> SUFFICES ASSUME now \notin mixed, b1.time = now \/ n1.time = now
               PROVE  f.upto > Start
    BY <1>2, <1>3, <1>4 DEF NotAhead, b1, n1
  <2>1. CASE f.time = now
    BY <1>13, <2>1
  <2>2. CASE f.time # now
    <3>1. b.time = now
      BY <1>6, <1>7, <1>11, <2>2
    <3>2. seen > Start
      BY <1>10, <3>1
    <3> QED
      BY <1>2, <1>7, <3>2
  <2> QED
    BY <2>1, <2>2
<1>15. InStep'
  <2> SUFFICES ASSUME now \notin mixed, ~OpenComes'
               PROVE  IF f.upto > Start
                      THEN /\ b1.time = now /\ b1.count = f.upto - Start
                           /\ n1.time = now /\ n1.count = f.upto - Start
                      ELSE b1.time < now /\ n1.time < now
    BY <1>2, <1>3, <1>4 DEF InStep, Tracked, b1, n1
  <2>1. CASE f.time = now
    <3>1. ~f.closed /\ f.upto > Start /\ f.count = f.upto - Start /\ b.time <= f.time
      BY <1>5, <1>7, <1>13, <2>1
    <3>2. ~(b.time > f.time)
      BY <1>7, <2>1
    <3> QED
      BY <1>6, <1>11, <1>12, <2>1, <3>1, <3>2
  <2>2. CASE f.time # now
    <3>1. f.time < now
      BY <1>1, <1>7, <2>2
    <3>2. ~(f.upto > Start)
      BY <1>9, <3>1
    <3>3. b.time # now
      BY <1>2, <1>7, <1>10, <3>2
    <3> QED
      BY <1>6, <1>7, <1>11, <3>1, <3>2, <3>3
  <2> QED
    BY <2>1, <2>2
<1>16. Repairs'
  BY <1>3 DEF Repairs
<1> QED
  BY <1>8, <1>14, <1>15, <1>16 DEF Tracking

LEMMA IdlesKeep ==
  ASSUME \/ Connect \/ CutLine \/ EndConnection \/ RecordFails \/ LateRecordFails
         \/ Evaluate \/ FlushForming \/ NtTrade \/ UNCHANGED vars
  PROVE  /\ bars' = bars /\ flow' = flow /\ snapshots' = snapshots /\ mixed' = mixed /\ seen' = seen
         /\ task' = task \/ task' = Idle
         /\ queue' = queue \/ queue' = <<>>
         /\ ~gap' => ~gap /\ queue' = queue /\ unseen' = unseen /\ task' = task
         /\ active' /\ gap' /\ line' = "open" =>
              active /\ line = "open" /\ gap /\ queue' = queue /\ unseen' = unseen /\ task' = task
<1>1. CASE Connect
  <2>1. /\ UNCHANGED engines /\ mixed' = mixed /\ seen' = seen /\ task' = Idle
        /\ queue' = IF line = "never" THEN queue ELSE <<>>
        /\ gap' = TRUE /\ line' = "connected"
    BY <1>1 DEF Connect
  <2>2. queue' = queue \/ queue' = <<>>
    BY <2>1
  <2> QED
    BY <2>1, <2>2 DEF engines
<1>2. CASE CutLine
  BY <1>2 DEF CutLine, engines
<1>3. CASE EndConnection
  BY <1>3 DEF EndConnection, Disconnected, engines
<1>4. CASE RecordFails
  BY <1>4 DEF RecordFails, Disconnected, engines
<1>5. CASE LateRecordFails
  BY <1>5 DEF LateRecordFails, engines, link
<1>6. CASE Evaluate
  BY <1>6 DEF Evaluate, engines, link
<1>7. CASE FlushForming
  BY <1>7 DEF FlushForming, engines, link
<1>8. CASE NtTrade
  BY <1>8 DEF NtTrade, engines, link
<1>9. CASE UNCHANGED vars
  BY <1>9 DEF vars, engines, history
<1> QED
  BY <1>1, <1>2, <1>3, <1>4, <1>5, <1>6, <1>7, <1>8, <1>9

LEMMA TrackIdles ==
  ASSUME TInv, \/ Connect \/ CutLine \/ EndConnection \/ RecordFails \/ LateRecordFails
               \/ Evaluate \/ FlushForming \/ NtTrade \/ UNCHANGED vars
  PROVE  Tracking'
<1>1. /\ bars' = bars /\ flow' = flow /\ mixed' = mixed /\ seen' = seen
      /\ task' = task \/ task' = Idle
      /\ queue' = queue \/ queue' = <<>>
      /\ ~gap' => ~gap /\ queue' = queue /\ unseen' = unseen /\ task' = task
      /\ active' /\ gap' /\ line' = "open" =>
           active /\ line = "open" /\ gap /\ queue' = queue /\ unseen' = unseen /\ task' = task
  BY IdlesKeep
<1>2. now' = now /\ Start' = Start
  BY NumbersOthers DEF TInv, Others
<1>3. /\ Folded \in Int /\ Folded <= Folded' /\ Folded' \in Int /\ Start \in Nat
      /\ task' = task => Folded' = Folded
  BY <1>1, TrackFacts DEF Folded
<1>4. OpeningFollows' /\ (queue' = queue => (OpenComes' <=> OpenComes))
  <2>1. CASE queue' = queue
    BY <1>2, <2>1 DEF TInv, Tracking, OpeningFollows, OpenComes
  <2>2. CASE queue' = <<>>
    <3>1. Len(queue') = 0
      BY <2>2
    <3>2. ~\E i \in 1 .. Len(queue') : TRUE
      BY <3>1
    <3>3. OpeningFollows'
      BY <3>2 DEF OpeningFollows
    <3> QED
      BY <1>2, <3>3 DEF OpenComes
  <2> QED
    BY <1>1, <2>1, <2>2
<1>5. NotAhead'
  BY <1>1, <1>2, <1>3 DEF TInv, Tracking, NotAhead
<1>6. InStep'
  BY <1>1, <1>2, <1>3, <1>4 DEF TInv, Tracking, InStep, Tracked
<1>7. Repairs'
  BY <1>1, <1>2, <1>3, <1>4 DEF TInv, Tracking, Repairs
<1> QED
  BY <1>4, <1>5, <1>6, <1>7 DEF Tracking

LEMMA TrackNext ==
  ASSUME TInv, [Next]_vars
  PROVE  TInv'
<1>1. NInv'
  BY NumbersNext DEF TInv
<1>2. Tracking'
  BY TrackBridge, TrackDropStale, TrackReceiveTrade, TrackTradeRecorded, TrackLateRecorded,
     TrackHandleBar, TrackIdles DEF Next
<1> QED
  BY <1>1, <1>2 DEF TInv

(* ------------------- the rows show the open minute ---------------------- *)

Latest(b) == Update(1, b, FALSE)

(* The source's last bars hold the open one of this minute. *)
Held(snaps, b) ==
  b.time = now => /\ Latest(b) \in snaps[1]
                  /\ \A u \in snaps[1] : u.time = now => u = Latest(b)
Shown(r, b, d) ==
  /\ b.time = now => r.bar[1][now] = Row(Latest(b))
  /\ d.time = now => r.delta[1][now] = Flow(d)

ShownRows == Held(snapshots, bars[1]) /\ (active => Shown(rows, bars[1], flow[1]))
SInv == TInv /\ ShownRows

(* Updates that tell of this minute only what b is, and ones that do not.  *)
NowTold(updates, b) ==
  /\ Latest(b) \in updates
  /\ \A u \in updates : u.tf = 1 /\ u.time = now => u = Latest(b)
NowUntold(updates) == \A u \in updates : ~(u.tf = 1 /\ u.time = now)

LEMMA LatestFields ==
  ASSUME NEW b
  PROVE  Latest(b).tf = 1 /\ Latest(b).time = b.time /\ Latest(b).count = b.count
         /\ Latest(b).closed = FALSE
BY DEF Latest, Update

LEMMA HeldRemembered ==
  ASSUME Base, NEW updates, UpdatesOf(updates, now, total), NEW b, NEW b1,
         NowTold(updates, b1) \/ (NowUntold(updates) /\ b1 = b /\ Held(snapshots, b))
  PROVE  Held(Remember(snapshots, updates), b1)
<1> SUFFICES ASSUME b1.time = now
             PROVE  /\ Latest(b1) \in Remember(snapshots, updates)[1]
                    /\ \A u \in Remember(snapshots, updates)[1] : u.time = now => u = Latest(b1)
  BY DEF Held
<1> DEFINE kept == Remember(snapshots, updates)[1]
           x == Latest(b1)
<1>1. 1 \in Timeframes /\ now \in Nat /\ x.tf = 1 /\ x.time = now
  BY EnginesAssumption, BaseFacts, LatestFields
<1>2. \A u \in updates \cup snapshots[1] : u.time \in Nat /\ u.time <= now
  <2>1. \A u \in updates \cup snapshots[1] : UpdateOf(u, now, total)
    BY <1>1 DEF UpdatesOf, Base, EnginesShape
  <2>2. \A u : UpdateOf(u, now, total) => u.time \in Nat /\ u.time <= now
    BY MinutesAreNat DEF UpdateOf
  <2> QED
    BY <2>1, <2>2
<1>3. \A u : /\ u \in kept => \/ u \in updates /\ u.tf = 1
                              \/ /\ u \in snapshots[1]
                                 /\ ~\E v \in updates : v.tf = 1 /\ v.time = u.time
             /\ /\ \/ u \in updates /\ u.tf = 1
                   \/ /\ u \in snapshots[1]
                      /\ ~\E v \in updates : v.tf = 1 /\ v.time = u.time
                /\ \A v \in updates \cup snapshots[1] : ~(v.time > u.time)
                => u \in kept
  BY <1>1, Remembered
<1> HIDE DEF kept, x
<1>4. \A v \in updates \cup snapshots[1] : ~(v.time > x.time)
  BY <1>1, <1>2
<1>5. CASE NowTold(updates, b1)
  <2>1. x \in updates /\ \A u \in updates : u.tf = 1 /\ u.time = now => u = x
    BY <1>5 DEF NowTold, x
  <2>2. x \in kept
    BY <1>1, <1>3, <1>4, <2>1
  <2>3. \A u \in kept : u.time = now => u = x
    BY <1>1, <1>3, <2>1
  <2> QED
    BY <2>2, <2>3 DEF kept, x
<1>6. CASE NowUntold(updates) /\ b1 = b /\ Held(snapshots, b)
  <2>1. x \in snapshots[1] /\ \A u \in snapshots[1] : u.time = now => u = x
    BY <1>6 DEF Held, x
  <2>2. \A v \in updates : ~(v.tf = 1 /\ v.time = now)
    BY <1>6 DEF NowUntold
  <2>3. x \in kept
    BY <1>1, <1>3, <1>4, <2>1, <2>2
  <2>4. \A u \in kept : u.time = now => u = x
    BY <1>3, <2>1, <2>2
  <2> QED
    BY <2>3, <2>4 DEF kept, x
<1> QED
  BY <1>5, <1>6

(* What the updates of a step store of this minute's bar. *)
LEMMA ToldStored ==
  ASSUME NEW updates, NEW b1, NEW new, NEW old, Stored(new, old, updates, 1, now),
         b1.time = now, NowTold(updates, b1)
  PROVE  new = Row(Latest(b1))
<1>1. Latest(b1).tf = 1 /\ Latest(b1).time = now
  BY LatestFields
<1> QED
  BY <1>1 DEF Stored, NowTold

LEMMA ShownStored ==
  ASSUME NEW updates, NEW b, NEW b1, NEW new, NEW old, Stored(new, old, updates, 1, now),
         b1.time = now, old = Row(Latest(b)),
         NowTold(updates, b1) \/ (NowUntold(updates) /\ b1 = b)
  PROVE  new = Row(Latest(b1))
<1>1. CASE NowTold(updates, b1)
  BY <1>1, ToldStored
<1>2. CASE NowUntold(updates) /\ b1 = b
  BY <1>2 DEF Stored, NowUntold
<1> QED
  BY <1>1, <1>2

LEMMA EvaluatedNow ==
  ASSUME RowsShape(rows), NEW m \in Minutes, NEW chosen, NEW snaps, NEW deltas
  PROVE  LET r == Evaluated(chosen, snaps, deltas) IN
         /\ ~chosen \/ active => r = rows
         /\ chosen /\ ~active =>
              /\ Stored(r.bar[1][m], rows.bar[1][m], AllOf(snaps), 1, m)
              /\ r.delta[1][m] = IF deltas[1] # NoBar /\ deltas[1].time = m
                                 THEN Flow(deltas[1]) ELSE rows.delta[1][m]
<1> DEFINE r == Evaluated(chosen, snaps, deltas)
<1>0. 1 \in Timeframes
  BY EnginesAssumption
<1>1. /\ ~chosen \/ active => r = rows
      /\ chosen /\ ~active => Stored(r.bar[1][m], rows.bar[1][m], AllOf(snaps), 1, m)
  BY <1>0, RowsEvaluated
<1>2. /\ ~chosen \/ active => r = rows
      /\ chosen /\ ~active =>
              /\ \A k \in Minutes :
                   r.delta[1][k] = IF deltas[1] # NoBar /\ deltas[1].time = k
                                   THEN Flow(deltas[1]) ELSE rows.delta[1][k]
              /\ \A k \in Minutes :
                   r.ladder[k] = IF deltas[1] # NoBar /\ deltas[1].time = k
                                 THEN deltas[1].count ELSE rows.ladder[k]
  BY RowsEvaluated
<1> HIDE DEF r
<1>3. ASSUME chosen, ~active
      PROVE  r.delta[1][m] = IF deltas[1] # NoBar /\ deltas[1].time = m
                             THEN Flow(deltas[1]) ELSE rows.delta[1][m]
  BY <1>2, <1>3
<1> QED
  BY <1>1, <1>3 DEF r

(* The chart as Bookmap comes on it, or stays. *)
LEMMA ShownEvaluated ==
  ASSUME Base, NEW chosen, NEW snaps, NEW deltas, NEW b,
         SnapsOf(snaps, now, total), Held(snaps, b), active => Shown(rows, b, deltas[1])
  PROVE  chosen => Shown(Evaluated(chosen, snaps, deltas), b, deltas[1])
<1> DEFINE r == Evaluated(chosen, snaps, deltas)
<1>0. 1 \in Timeframes /\ now \in Minutes /\ now \in Nat /\ RowsShape(rows)
  BY EnginesAssumption, BaseFacts DEF Base, EnginesShape
<1>1. /\ ~chosen \/ active => r = rows
      /\ chosen /\ ~active =>
           /\ Stored(r.bar[1][now], rows.bar[1][now], AllOf(snaps), 1, now)
           /\ r.delta[1][now] = IF deltas[1] # NoBar /\ deltas[1].time = now
                                THEN Flow(deltas[1]) ELSE rows.delta[1][now]
  BY <1>0, EvaluatedNow
<1> HIDE DEF r
<1>2. ASSUME chosen, active PROVE Shown(r, b, deltas[1])
  BY <1>1, <1>2
<1>3. ASSUME chosen, ~active PROVE Shown(r, b, deltas[1])
  <2>1. b.time = now => r.bar[1][now] = Row(Latest(b))
    <3> SUFFICES ASSUME b.time = now PROVE r.bar[1][now] = Row(Latest(b))
      OBVIOUS
    <3>1. Latest(b) \in snaps[1] /\ \A u \in snaps[1] : u.time = now => u = Latest(b)
      BY DEF Held
    <3>2. NowTold(AllOf(snaps), b)
      <4>1. Latest(b) \in AllOf(snaps)
        BY <1>0, <3>1 DEF AllOf
      <4>2. ASSUME NEW u \in AllOf(snaps), u.tf = 1, u.time = now PROVE u = Latest(b)
        <5>1. PICK tf \in Timeframes : u \in snaps[tf]
          BY DEF AllOf
        <5>2. tf = 1
          BY <4>2, <5>1 DEF SnapsOf
        <5> QED
          BY <3>1, <4>2, <5>1, <5>2
      <4> QED
        BY <4>1, <4>2 DEF NowTold
    <3> DEFINE new == r.bar[1][now]
               old == rows.bar[1][now]
               all == AllOf(snaps)
    <3>3. Stored(new, old, all, 1, now) /\ NowTold(all, b)
      BY <1>1, <1>3, <3>2
    <3> HIDE DEF new, old, all
    <3>4. new = Row(Latest(b))
      BY <3>3, ToldStored
    <3> QED
      BY <3>4 DEF new
  <2>2. deltas[1].time = now => r.delta[1][now] = Flow(deltas[1])
    <3> SUFFICES ASSUME deltas[1].time = now PROVE r.delta[1][now] = Flow(deltas[1])
      OBVIOUS
    <3>1. deltas[1] # NoBar
      BY <1>0 DEF NoBar
    <3> QED
      BY <1>0, <1>1, <1>3, <3>1
  <2> QED
    BY <2>1, <2>2 DEF Shown
<1> QED
  BY <1>2, <1>3 DEF r

(* The updates of a trade, of this minute. *)
LEMMA TradeTells ==
  ASSUME TInv, NEW time \in Minutes, time <= now, total[time] > 0
  PROVE  LET n == Fold(bars[1], time, 1)
             U == TradeUpdates(bars, time)
         IN n.time = now => NowTold(U, n) \/ (NowUntold(U) /\ n = bars[1])
<1> DEFINE n == Fold(bars[1], time, 1)
           U == TradeUpdates(bars, time)
           b == bars[1]
<1>0. /\ 1 \in Timeframes /\ now \in Nat /\ time \in Nat /\ Bucket(time, 1) = time /\ Base
      /\ BarOf(b, 1, now, total) /\ b.time \in Int /\ b.time <= now
      /\ \A tf \in Timeframes : BarOf(bars[tf], tf, now, total)
  BY TrackFacts, MinutesAreNat, Buckets DEF Base, EnginesShape
<1>1. \A u \in U :
        /\ UpdateOf(u, now, total)
        /\ u.tf = 1 => \/ u = Update(1, b, TRUE) /\ b.time < time
                       \/ u = Update(1, n, FALSE) /\ u.time = time /\ b.time <= time
  <2>1. \A u \in U :
              /\ UpdateOf(u, now, total)
              /\ \/ /\ u.closed /\ bars[u.tf] # NoBar
                    /\ u = Update(u.tf, bars[u.tf], TRUE)
                    /\ bars[u.tf].time < Bucket(time, u.tf)
                 \/ /\ ~u.closed
                    /\ u = Update(u.tf, Fold(bars[u.tf], time, u.tf), FALSE)
                    /\ u.time = Bucket(time, u.tf)
                    /\ bars[u.tf].time <= Bucket(time, u.tf)
    BY <1>0, TradeUpdated
  <2> HIDE DEF U
  <2> QED
    BY <1>0, <2>1
<1>2. time >= b.time => Latest(n) \in U
  <2>1. Bucket(time, 1) >= bars[1].time => Update(1, Fold(bars[1], time, 1), FALSE) \in U
    BY <1>0, TradeUpdated
  <2> QED
    BY <1>0, <2>1 DEF Latest
<1>3. time < b.time => n = b
  BY <1>0, FoldsTrade
<1>4. \A c : Update(1, c, TRUE).time = c.time /\ Update(1, c, FALSE).time = c.time
  BY DEF Update
<1> SUFFICES ASSUME n.time = now PROVE NowTold(U, n) \/ (NowUntold(U) /\ n = b)
  OBVIOUS
<1> HIDE DEF n, U, b
<1>5. CASE time >= b.time
  <2>1. ASSUME NEW u \in U, u.tf = 1, u.time = now PROVE u = Latest(n)
    <3>1. CASE u = Update(1, b, TRUE) /\ b.time < time
      <4>1. b.time = now
        BY <1>4, <2>1, <3>1
      <4> QED
        BY <1>0, <3>1, <4>1
    <3>2. CASE u = Update(1, n, FALSE)
      BY <3>2 DEF Latest
    <3> QED
      BY <1>1, <2>1, <3>1, <3>2
  <2> QED
    BY <1>2, <1>5, <2>1 DEF NowTold
<1>6. CASE time < b.time
  <2>1. ASSUME NEW u \in U, u.tf = 1, u.time = now PROVE FALSE
    <3>1. b.time < time \/ (u.time = time /\ b.time <= time)
      BY <1>1, <2>1
    <3> QED
      BY <1>0, <1>6, <2>1, <3>1
  <2> QED
    BY <1>3, <1>6, <2>1 DEF NowUntold
<1> QED
  BY <1>0, <1>5, <1>6

LEMMA MinuteFolds ==
  ASSUME Base, NEW b, BarOf(b, 1, now, total), NEW time \in Minutes, time <= now, total[time] > 0
  PROVE  /\ time < b.time => Fold(b, time, 1) = b
         /\ Fold(b, time, 1).time = now => time = now \/ time < b.time
<1>1. /\ time \in Nat /\ now \in Nat /\ 1 \in Timeframes /\ Bucket(time, 1) = time /\ b.time \in Int
  BY BaseFacts, MinutesAreNat, EnginesAssumption, Buckets, FieldsOfBar
<1>2. /\ time > b.time => Fold(b, time, 1) = [time |-> time, count |-> 1]
      /\ time = b.time => Fold(b, time, 1) = [time |-> time, count |-> b.count + 1]
      /\ time < b.time => Fold(b, time, 1) = b
  BY <1>1, FoldsTrade
<1> DEFINE n == Fold(b, time, 1)
           m == b.time
<1>3. (time > m => n.time = time) /\ (time = m => n.time = time) /\ (time < m => n = b) /\ m \in Int
  BY <1>1, <1>2
<1> HIDE DEF n, m
<1>4. (time < m => n = b) /\ (n.time = now => time = now \/ time < m)
  BY <1>1, <1>3
<1> QED
  BY <1>4 DEF n, m

LEMMA ShownRuns ==
  ASSUME SInv, NEW h, h.time \in Minutes, h.time \in Nat, h.time <= now, total[h.time] > 0,
         RanEngines(h, TradeUpdates(bars, h.time), Evaluated(active', snapshots, flow)),
         now' = now
  PROVE  ShownRows'
<1> DEFINE U == TradeUpdates(bars, h.time)
           r == Evaluated(active', snapshots, flow)
           b == bars[1]
           b1 == bars'[1]
           d == flow[1]
           d1 == flow'[1]
           time == h.time
<1>0. /\ 1 \in Timeframes /\ now \in Minutes /\ now \in Nat /\ Base /\ Bucket(time, 1) = time
      /\ BarOf(b, 1, now, total) /\ BarOf(d, 1, now, total) /\ d.time \in Int /\ d.time <= now
      /\ TInv /\ Held(snapshots, b) /\ (active => Shown(rows, b, d))
  BY TrackFacts, BaseFacts, Buckets DEF SInv, ShownRows
<1>1. /\ b1 = Fold(b, time, 1) /\ d1 = Fold(d, time, 1)
      /\ snapshots' = Remember(snapshots, U)
      /\ active' =>
           /\ Stored(rows'.bar[1][now], r.bar[1][now], U, 1, now)
           /\ rows'.delta[1][now] = IF time >= d.time /\ time = now
                                    THEN Flow(d1) ELSE r.delta[1][now]
  BY <1>0 DEF RanEngines
<1>2. SnapsOf(snapshots, now, total) /\ UpdatesOf(U, now, total)
  <2>1. SnapsOf(snapshots, now, total) /\ \A tf \in Timeframes : BarOf(bars[tf], tf, now, total)
    BY <1>0 DEF Base, EnginesShape, SnapsOf
  <2>2. \A u \in U : UpdateOf(u, now, total)
    BY <1>0, <2>1, TradeUpdated
  <2> QED
    BY <2>1, <2>2 DEF UpdatesOf
<1>3. b1.time = now => NowTold(U, b1) \/ (NowUntold(U) /\ b1 = b)
  BY <1>0, <1>1, TradeTells
<1>4. ASSUME active' PROVE Shown(r, b, d)
  BY <1>0, <1>2, <1>4, ShownEvaluated
<1>5. /\ time < d.time => d1 = d
      /\ d1.time = now => time = now \/ time < d.time
  <2> HIDE DEF d, d1, time
  <2>1. time \in Minutes /\ time <= now /\ total[time] > 0
    BY DEF time
  <2> QED
    BY <1>0, <1>1, <2>1, MinuteFolds
<1> HIDE DEF U, r, b, b1, d, d1, time
<1>6. Held(snapshots', b1)
  <2>1. CASE b1.time = now
    BY <1>0, <1>1, <1>2, <1>3, <2>1, HeldRemembered
  <2>2. CASE b1.time # now
    BY <2>2 DEF Held
  <2> QED
    BY <2>1, <2>2
<1>7. ASSUME active' PROVE Shown(rows', b1, d1)
  <2>1. ASSUME b1.time = now PROVE rows'.bar[1][now] = Row(Latest(b1))
    <3> DEFINE new == rows'.bar[1][now]
               old == r.bar[1][now]
    <3>1. Stored(new, old, U, 1, now)
      BY <1>1, <1>7
    <3>2. b1 = b => old = Row(Latest(b))
      BY <1>4, <1>7, <2>1 DEF Shown
    <3> HIDE DEF new, old
    <3>3. new = Row(Latest(b1))
      BY <1>3, <2>1, <3>1, <3>2, ShownStored, ToldStored
    <3> QED
      BY <3>3 DEF new
  <2>2. ASSUME d1.time = now PROVE rows'.delta[1][now] = Flow(d1)
    <3>1. CASE time = now
      <4>1. time >= d.time
        BY <1>0, <3>1
      <4> QED
        BY <1>1, <1>7, <3>1, <4>1
    <3>2. CASE time # now
      <4>1. time < d.time /\ d1 = d
        BY <1>5, <2>2, <3>2
      <4>2. r.delta[1][now] = Flow(d)
        BY <1>4, <1>7, <2>2, <4>1 DEF Shown
      <4> QED
        BY <1>1, <1>7, <3>2, <4>1, <4>2
    <3> QED
      BY <3>1, <3>2
  <2> QED
    BY <2>1, <2>2 DEF Shown
<1> QED
  BY <1>6, <1>7 DEF ShownRows, Held, Shown, b1, d1

(* What a bar frame says of its minute. *)
LEMMA BarTells ==
  ASSUME Base, NEW f \in Frame, f.time <= now, total[f.time] > 0
  PROVE  /\ UpdatesOf(BarUpdates(f), now, total)
         /\ Sent(f, 1) \in BarUpdates(f)
         /\ \A u \in BarUpdates(f) : u.tf = 1 => u = Sent(f, 1)
         /\ Sent(f, 1).tf = 1 /\ Sent(f, 1).time = f.time /\ Sent(f, 1).count = f.count
         /\ (Sent(f, 1).closed <=> f.closed) /\ Sent(f, 1).closed \in BOOLEAN
         /\ UpdateOf(Sent(f, 1), now, total)
         /\ Made(f, 1, rows.delta[1]).time = f.time /\ Made(f, 1, rows.delta[1]).count = f.count
<1>1. 1 \in Timeframes /\ now \in Nat /\ f.time \in Minutes /\ f.time \in Nat
  <2>1. f.time \in Minutes
    BY DEF Frame
  <2> QED
    BY <2>1, BaseFacts, EnginesAssumption, MinutesAreNat
<1>2. Bucket(f.time, 1) = f.time
  BY <1>1, Buckets
<1>3. /\ BarUpdates(f) = {Sent(f, tf) : tf \in Timeframes}
      /\ \A tf \in Timeframes :
              /\ UpdateOf(Sent(f, tf), now, total)
              /\ Sent(f, tf).tf = tf /\ Sent(f, tf).time = Bucket(f.time, tf)
              /\ Sent(f, tf).closed = Ends(f, tf)
              /\ Sent(f, tf).count = Made(f, tf, rows.bar[1]).count
  BY <1>1, SentUpdates
<1>4. /\ \A table : Made(f, 1, table).time = f.time /\ Made(f, 1, table).count = f.count
      /\ Ends(f, 1) <=> f.closed
  BY <1>1, <1>2, MadeForBucket
<1>5. UpdateOf(Sent(f, 1), now, total)
  BY <1>1, <1>3
<1>6. Sent(f, 1).closed \in BOOLEAN
  BY <1>5 DEF UpdateOf
<1>7. UpdatesOf(BarUpdates(f), now, total)
  BY <1>3 DEF UpdatesOf
<1>8. \A u \in BarUpdates(f) : u.tf = 1 => u = Sent(f, 1)
  BY <1>3
<1>9. Sent(f, 1) \in BarUpdates(f)
  BY <1>1, <1>3
<1>10. /\ Sent(f, 1).tf = 1 /\ Sent(f, 1).time = f.time /\ Sent(f, 1).count = f.count
       /\ (Sent(f, 1).closed <=> f.closed)
  BY <1>1, <1>2, <1>3, <1>4
<1> QED
  BY <1>4, <1>5, <1>6, <1>7, <1>8, <1>9, <1>10

LEMMA ShownHandleBar ==
  ASSUME SInv, HandleBar
  PROVE  ShownRows'
<1> DEFINE f == queue[1]
           U == BarUpdates(f)
           u1 == Sent(f, 1)
           r == Evaluated(active', snapshots', flow')
           b == bars[1]
           b1 == bars'[1]
           d1 == flow'[1]
<1>0. /\ 1 \in Timeframes /\ now \in Minutes /\ now \in Nat /\ Base
      /\ BarOf(b, 1, now, total) /\ b.time \in Int /\ b.time <= now
      /\ Held(snapshots, b) /\ (active => Shown(rows, b, flow[1]))
  BY TrackFacts, BaseFacts DEF SInv, ShownRows
<1>1. /\ Base' /\ f \in Frame /\ f.time \in Nat /\ f.time <= now /\ total[f.time] > 0
      /\ FrameInv(f, now, sequence, total, authoritative)
      /\ HandledBar(f, r)
  BY <1>0, BaseHandleBar
<1>2. /\ UpdatesOf(U, now, total)
      /\ u1 \in U /\ (\A u \in U : u.tf = 1 => u = u1)
      /\ u1.tf = 1 /\ u1.time = f.time /\ u1.count = f.count
      /\ (u1.closed <=> f.closed) /\ u1.closed \in BOOLEAN
      /\ UpdateOf(u1, now, total)
      /\ Made(f, 1, rows.delta[1]).time = f.time /\ Made(f, 1, rows.delta[1]).count = f.count
  BY <1>0, <1>1, BarTells
<1>3. /\ b1 = Reconcile(b, u1) /\ d1.time = f.time /\ d1.count = f.count
      /\ snapshots' = Remember(snapshots, U)
      /\ active' =>
           /\ Stored(rows'.bar[1][now], r.bar[1][now], U, 1, now)
           /\ rows'.delta[1][now] = IF f.time = now THEN [by |-> "bookmap", count |-> f.count]
                                    ELSE r.delta[1][now]
      /\ active' \in BOOLEAN /\ now' = now
  BY <1>0, <1>1, <1>2 DEF HandledBar, bridge
<1>4. /\ f.closed => f.time < now
      /\ f.closed \in BOOLEAN
  BY <1>1 DEF FrameInv, Frame
<1>5. \/ u1.closed /\ b.time <= u1.time /\ b1 = NoBar
      \/ ~u1.closed /\ b.time <= u1.time /\ b1 = [time |-> u1.time, count |-> u1.count]
      \/ b.time > u1.time /\ b1 = b
  BY <1>0, <1>2, <1>3, Reconciled
<1>6. u1 = [tf |-> u1.tf, time |-> u1.time, count |-> u1.count, closed |-> u1.closed]
  BY <1>2 DEF UpdateOf
<1>7. SnapsOf(snapshots', now, total)
  BY <1>1, <1>3 DEF Base, EnginesShape, SnapsOf, HandledBar, bridge
<1> HIDE DEF f, U, u1, r, b, b1, d1
<1>8. b1.time = now => \/ f.time = now /\ b1 = [time |-> f.time, count |-> f.count] /\ ~u1.closed
                       \/ f.time < now /\ b1 = b
  <2>1. NoBar.time = -1 /\ \A t, c : [time |-> t, count |-> c].time = t
    BY DEF NoBar
  <2> QED
    BY <1>0, <1>1, <1>2, <1>4, <1>5, <2>1
<1>9. b1.time = now => \/ f.time = now /\ NowTold(U, b1)
                       \/ f.time < now /\ b1 = b /\ NowUntold(U)
  <2>1. ASSUME f.time = now, b1 = [time |-> f.time, count |-> f.count], ~u1.closed
        PROVE  NowTold(U, b1)
    <3>1. Latest(b1) = [tf |-> 1, time |-> f.time, count |-> f.count, closed |-> FALSE]
      BY <2>1 DEF Latest, Update
    <3>2. Latest(b1) = u1
      BY <1>2, <1>6, <2>1, <3>1
    <3> QED
      BY <1>2, <3>2 DEF NowTold
  <2>2. ASSUME f.time < now PROVE NowUntold(U)
    <3>1. f.time # now
      BY <1>0, <1>1, <2>2
    <3> QED
      BY <1>2, <3>1 DEF NowUntold
  <2> QED
    BY <1>8, <2>1, <2>2
<1>10. Held(snapshots', b1)
  <2>1. CASE b1.time = now
    BY <1>0, <1>2, <1>3, <1>9, <2>1, HeldRemembered
  <2>2. CASE b1.time # now
    BY <2>2 DEF Held
  <2> QED
    BY <2>1, <2>2
<1>11. ASSUME active' PROVE Shown(rows', b1, d1)
  <2>1. ASSUME b1.time = now PROVE rows'.bar[1][now] = Row(Latest(b1))
    <3> DEFINE new == rows'.bar[1][now]
               old == r.bar[1][now]
    <3>1. Stored(new, old, U, 1, now)
      BY <1>3, <1>11
    <3>2. CASE f.time = now /\ NowTold(U, b1)
      <4> HIDE DEF new, old
      <4>1. new = Row(Latest(b1))
        BY <2>1, <3>1, <3>2, ToldStored
      <4> QED
        BY <4>1 DEF new
    <3>3. CASE f.time < now /\ b1 = b /\ NowUntold(U)
      <4>1. f.time # now
        BY <1>0, <1>1, <3>3
      <4>2. active => Shown(rows, b1, d1)
        BY <1>0, <1>3, <3>3, <4>1 DEF Shown
      <4>3. active' => Shown(Evaluated(active', snapshots', flow'), b1, flow'[1])
        BY <1>0, <1>7, <1>10, <4>2, ShownEvaluated DEF d1
      <4>4. old = Row(Latest(b))
        BY <1>11, <2>1, <3>3, <4>3 DEF Shown, r
      <4> HIDE DEF new, old
      <4>5. new = Row(Latest(b1))
        BY <2>1, <3>1, <3>3, <4>4, ShownStored
      <4> QED
        BY <4>5 DEF new
    <3> QED
      BY <1>9, <2>1, <3>2, <3>3
  <2>2. d1.time = now => rows'.delta[1][now] = Flow(d1)
    BY <1>3, <1>11 DEF Flow
  <2> QED
    BY <2>1, <2>2 DEF Shown
<1> QED
  BY <1>3, <1>10, <1>11 DEF ShownRows, Held, Shown, b1, d1

(* The row steps. *)
LEMMA ShownRowSteps ==
  ASSUME SInv, Evaluate \/ FlushForming \/ NtTrade
  PROVE  ShownRows'
<1>0. /\ Base /\ Held(snapshots, bars[1]) /\ (active => Shown(rows, bars[1], flow[1]))
      /\ SnapsOf(snapshots, now, total)
  BY TrackFacts DEF SInv, ShownRows, Base, EnginesShape, SnapsOf
<1>1. now' = now /\ bars' = bars /\ flow' = flow /\ snapshots' = snapshots
  BY DEF Evaluate, FlushForming, NtTrade, bridge, engines
<1>2. ASSUME active' PROVE Shown(rows', bars[1], flow[1])
  <2>1. CASE Evaluate
    <3>1. active' => Shown(Evaluated(active', snapshots, flow), bars[1], flow[1])
      BY <1>0, ShownEvaluated
    <3> QED
      BY <1>2, <2>1, <3>1 DEF Evaluate
  <2>2. CASE FlushForming
    <3>1. active /\ rows'.bar = rows.bar /\ rows'.delta = rows.delta
      BY <1>0, <2>2, BaseFlushForming DEF FlushForming
    <3> QED
      BY <1>0, <3>1 DEF Shown
  <2>3. CASE NtTrade
    BY <1>2, <2>3 DEF NtTrade
  <2> QED
    BY <2>1, <2>2, <2>3
<1> QED
  BY <1>0, <1>1, <1>2 DEF ShownRows, Held, Shown

(* Steps that leave the engines and the rows, and do not put Bookmap on    *)
(* the chart.                                                              *)
LEMMA ShownLeft ==
  ASSUME SInv, UNCHANGED <<engines, rows>>, active' => active, now' = now
  PROVE  ShownRows'
<1>1. bars' = bars /\ flow' = flow /\ snapshots' = snapshots /\ rows' = rows
  BY DEF engines
<1> QED
  BY <1>1 DEF SInv, ShownRows, Held, Shown

LEMMA ShownOnTimestamp ==
  ASSUME SInv, OnTimestamp
  PROVE  ShownRows'
<1>1. /\ bars' = bars /\ flow' = flow /\ now' = now + 1
  BY DEF OnTimestamp, engines
<1>2. /\ bars[1].time \in Int /\ bars[1].time <= now /\ flow[1].time \in Int /\ flow[1].time <= now
      /\ now \in Nat
  BY TrackFacts DEF SInv
<1>3. bars'[1].time # now' /\ flow'[1].time # now'
  BY <1>1, <1>2
<1> QED
  BY <1>3 DEF ShownRows, Held, Shown

LEMMA ShownNext ==
  ASSUME SInv, [Next]_vars
  PROVE  SInv'
<1>1. TInv'
  BY TrackNext DEF SInv
<1>2. CASE \/ OnTrade \/ DropStale \/ Connect \/ SendSnapshots \/ CutLine \/ ReceiveTrade
           \/ EndConnection \/ RecordFails \/ LateRecordFails \/ UNCHANGED vars
  <2>1. UNCHANGED <<engines, rows>> /\ (active' => active) /\ now' = now
    BY <1>2 DEF OnTrade, DropStale, Connect, SendSnapshots, CutLine, ReceiveTrade, EndConnection,
       RecordFails, LateRecordFails, Disconnected, vars, bridge
  <2>2. ShownRows'
    BY <2>1, ShownLeft
  <2> QED
    BY <1>1, <2>2 DEF SInv
<1>3. CASE TradeRecorded
  <2>1. now' = now
    BY <1>3 DEF TradeRecorded, bridge
  <2>2. ShownRows'
    BY <1>3, <2>1, BaseTradeRecorded, ShownRuns, TrackFacts DEF SInv
  <2> QED
    BY <1>1, <2>2 DEF SInv
<1>4. CASE LateRecorded
  <2>1. now' = now
    BY <1>4 DEF LateRecorded, bridge
  <2>2. ShownRows'
    BY <1>4, <2>1, BaseLateRecorded, ShownRuns, TrackFacts DEF SInv
  <2> QED
    BY <1>1, <2>2 DEF SInv
<1> QED
  BY <1>1, <1>2, <1>3, <1>4, ShownHandleBar, ShownRowSteps, ShownOnTimestamp DEF Next, SInv

LEMMA QuietIsExact == SInv => QuietChartIsExact
<1> SUFFICES ASSUME SInv, active, line = "open", queue = <<>>, task = Idle, late = Idle,
                    current # NoMinute, current.time \notin mixed, seen = sequence, ~unseen
             PROVE  /\ rows.bar[1][current.time] =
                          [by |-> "bookmap", count |-> current.count, closed |-> FALSE]
                    /\ rows.delta[1][current.time] = [by |-> "bookmap", count |-> current.count]
  BY DEF QuietChartIsExact
<1>1. Base /\ sequence \in Nat /\ total[now] \in Nat
  BY TrackFacts, BaseFacts DEF SInv
<1>2. current.time = now /\ current.count = total[now] /\ total[now] > 0
  BY <1>1, BridgeFacts DEF Base
<1>3. seen > Start /\ seen - Start = total[now]
  BY <1>1, <1>2 DEF Start
<1>4. ~OpenComes
  <2>1. Len(queue) = 0
    OBVIOUS
  <2> QED
    BY <2>1 DEF OpenComes
<1>5. ~(seen <= Start)
  BY <1>1, <1>3 DEF Start
<1>6. ~gap /\ ~task.gap
  BY <1>4, <1>5 DEF SInv, TInv, Tracking, Repairs, Idle
<1>7. Tracked(bars[1]) /\ Tracked(flow[1])
  BY <1>2, <1>4, <1>6 DEF SInv, TInv, Tracking, InStep
<1>8. /\ bars[1].time = now /\ bars[1].count = current.count
      /\ flow[1].time = now /\ flow[1].count = current.count
  BY <1>2, <1>3, <1>7 DEF Tracked, Folded
<1>9. Shown(rows, bars[1], flow[1])
  BY DEF SInv, ShownRows
<1> QED
  BY <1>2, <1>8, <1>9, LatestFields DEF Shown, Row, Flow

LEMMA QuietInit ==
  ASSUME Init
  PROVE  SInv
<1>1. Base
  BY BaseInit
<1>2. /\ now = 0 /\ sequence = 0 /\ queue = <<>> /\ task = Idle /\ highest = 0 /\ gap = FALSE
      /\ active = FALSE /\ bars = [tf \in Timeframes |-> NoBar]
      /\ flow = [tf \in Timeframes |-> NoBar] /\ seen = 0 /\ unseen = FALSE
      /\ total = [m \in Minutes |-> 0]
  BY DEF Init
<1>3. /\ bars[1] = NoBar /\ flow[1] = NoBar /\ NoBar.time = -1 /\ Len(queue) = 0 /\ total[now] = 0
  BY <1>2, EnginesAssumption DEF NoBar
<1>4. Start = 0 /\ Before = 0 /\ Folded = 0
  BY <1>2, <1>3 DEF Start, Before, Folded
<1>5. Numbers
  BY <1>2, <1>4 DEF Numbers
<1>6. Tracking
  <2>1. OpeningFollows
    BY <1>3 DEF OpeningFollows
  <2>2. NotAhead
    BY <1>2, <1>3 DEF NotAhead
  <2>3. InStep
    BY <1>2, <1>3, <1>4 DEF InStep, Tracked
  <2>4. Repairs
    BY <1>2 DEF Repairs
  <2> QED
    BY <2>1, <2>2, <2>3, <2>4 DEF Tracking
<1>7. ShownRows
  BY <1>2, <1>3 DEF ShownRows, Held
<1> QED
  BY <1>1, <1>5, <1>6, <1>7 DEF SInv, TInv, NInv

(* When nothing is on its way or being handled, the open minute on the     *)
(* chart is what the bridge counted, in the bar and in the delta: a gap in *)
(* the numbers takes Bookmap off the chart until a bar repairs it          *)
(* (on_bookmap_trade, on_bookmap_bar, seed_bar).  Left aside is what no    *)
(* number reveals, as QuietChartIsExact says.                              *)
THEOREM QuietChart == Spec => []QuietChartIsExact
<1>1. Init => SInv
  BY QuietInit
<1>2. SInv /\ [Next]_vars => SInv'
  BY ShownNext
<1> QED
  BY <1>1, <1>2, QuietIsExact, PTL DEF Spec

(* --------------------------- the closed rows ---------------------------- *)

Unspoiled(b, tf) == InBucket(b, tf) \cap (mixed \cup shed) = {}
Exact(tf, b, count) ==
  Traded(b, tf) \subseteq authoritative /\ Unspoiled(b, tf) => count = Counted(b, tf)

(* The closed bar of minute k that the backend has not had and can trust.  *)
Ended(f, k) == f.closed /\ f.time = k
Due(k) ==
  total[k] > 0 /\ k \notin authoritative /\ k \notin shed /\ ~First(total, k)
CloseComes(k) == \E i \in 1 .. Len(queue) : Ended(queue[i], k)

(* It is the first bar to come, and until then the gap lasts; or nothing   *)
(* of a later minute comes before it.                                      *)
NoBarBefore(i) == \A j \in 1 .. Len(queue) : j < i => ~IsBar(queue[j])
NoneLaterBefore(i, k) == \A j \in 1 .. Len(queue) : j < i => queue[j].time <= k
HandlersUpTo(k) == (task # Idle => task.time <= k) /\ (late # Idle => late.time <= k)
CloseFirst(k) ==
  gap /\ \E i \in 1 .. Len(queue) : Ended(queue[i], k) /\ NoBarBefore(i)
CloseInTime(k) ==
  /\ HandlersUpTo(k)
  /\ \E i \in 1 .. Len(queue) : Ended(queue[i], k) /\ NoneLaterBefore(i, k)

InTime ==
  \A k \in Minutes : Due(k) /\ CloseComes(k) => CloseInTime(k) \/ CloseFirst(k)

(* The bridge's last bar is on its way.                                    *)
LastSent ==
  /\ line = "connected" => gap
  /\ line \in {"never", "connected"} =>
       \A i \in 1 .. Len(queue) : IsBar(queue[i]) =>
         /\ last # NoMinute
         /\ \E j \in 1 .. Len(queue) : j >= i /\ Ended(queue[j], last.time)
  /\ (line = "open" \/ ~gap) /\ last # NoMinute /\ Due(last.time) => CloseComes(last.time)

(* A bar that the source told, to be stored. *)
Sound(tf, u) ==
  /\ Exact(tf, u.time, u.count)
  /\ u.closed =>
       /\ u.time < Bucket(now, tf)
       /\ \A k \in Traded(u.time, tf) : Due(k) /\ CloseComes(k) => CloseFirst(k)
SnapsSound == \A tf \in Timeframes : \A u \in snapshots[tf] : Sound(tf, u)
BarsExact ==
  \A tf \in Timeframes : \A b \in {bars[tf]} : b # NoBar => Exact(tf, b.time, b.count)

(* The backend will not trust the minute any more. *)
Settled(k) ==
  First(total, k) \/ (last # NoMinute /\ k < last.time /\ ~CloseComes(k))
GoodRow(tf, b, row) ==
  row.by = "bookmap" /\ row.closed =>
    /\ b < Bucket(now, tf)
    /\ Unspoiled(b, tf) => \/ row.count = Counted(b, tf)
                           \/ \E k \in Traded(b, tf) \ authoritative : Settled(k)
RowsGood ==
  \A tf \in Timeframes, b \in Minutes : \A row \in {rows.bar[tf][b]} : GoodRow(tf, b, row)

CInv == Base /\ LastSent /\ InTime /\ SnapsSound /\ BarsExact /\ RowsGood

(* A minute of an earlier bucket is an earlier minute. *)
LEMMA EarlierBucket ==
  ASSUME NEW tf \in Timeframes, NEW b, NEW k \in InBucket(b, tf), NEW t \in Nat, b < Bucket(t, tf),
         b \in Nat
  PROVE  k \in Minutes /\ k \in Nat /\ k < t /\ Bucket(k, tf) = b
<1>1. k \in Minutes /\ Bucket(k, tf) = b
  BY DEF InBucket
<1>2. k \in Nat
  BY <1>1, MinutesAreNat
<1>3. t <= k => Bucket(t, tf) <= Bucket(k, tf)
  BY <1>2, Buckets
<1>4. Bucket(t, tf) \in Int
  <2>1. tf \in Nat \ {0}
    BY Buckets
  <2> QED
    BY <2>1, BucketBelow
<1>5. ~(t <= k)
  BY <1>1, <1>3, <1>4
<1> QED
  BY <1>1, <1>2, <1>5

LEMMA SameCount ==
  ASSUME NEW b, NEW tf, \A k \in InBucket(b, tf) : total'[k] = total[k]
  PROVE  Counted(b, tf)' = Counted(b, tf) /\ Traded(b, tf)' = Traded(b, tf)
<1> DEFINE f == [m \in InBucket(b, tf) |-> total[m]]
           g == [m \in InBucket(b, tf) |-> total'[m]]
<1>1. f = g
  OBVIOUS
<1>2. Counted(b, tf) = SumFunction(f) /\ Counted(b, tf)' = SumFunction(g)
  BY DEF Counted
<1>3. Traded(b, tf)' = Traded(b, tf)
  BY DEF Traded
<1> HIDE DEF f, g
<1> QED
  BY <1>1, <1>2, <1>3

(* The bar of a frame is exact when all minutes of its bucket are trusted. *)
LEMMA SentExact ==
  ASSUME Base, Base', UNCHANGED bridge, NEW f \in Frame, f.time \in Minutes,
         total[f.time] > 0, known' = [known EXCEPT ![f.time] = f.count],
         NEW tf \in Timeframes, NEW c, c = Made(f, tf, rows.bar[1]).count
  PROVE  Exact(tf, Bucket(f.time, tf), c)'
<1> DEFINE b == Bucket(f.time, tf)
           S == InBucket(b, tf)
<1>0. /\ total' = total /\ total \in [Minutes -> Nat] /\ known \in [Minutes -> Nat]
      /\ f.count \in Nat /\ f.time \in Nat
  <2>1. f.count \in Nat
    BY DEF Frame
  <2> QED
    BY <2>1, BaseFacts, MinutesAreNat DEF bridge, Base, Known
<1>1. /\ known' \in [Minutes -> Nat] /\ known'[f.time] = f.count
      /\ \A m \in authoritative' : known'[m] = total[m]
      /\ \A m \in Minutes : total[m] = 0 => known'[m] = 0 /\ rows.bar[1][m].count = 0
  BY <1>0 DEF Base, Known
<1>2. SUFFICES ASSUME Traded(b, tf)' \subseteq authoritative'
               PROVE  c = Counted(b, tf)'
  BY DEF Exact
<1>3. /\ f.time \in S /\ S \subseteq Minutes
      /\ \A m \in S : total[m] > 0 => m \in authoritative'
  BY <1>0, <1>2 DEF Traded, InBucket
<1> DEFINE of(m) == IF known'[m] > 0 THEN known'[m] ELSE rows.bar[1][m].count
<1>4. ASSUME NEW m \in S PROVE of(m) = total[m]
  <2>1. total[m] \in Nat /\ known'[m] \in Nat /\ m \in Minutes
    BY <1>0, <1>1, <1>3
  <2>2. CASE total[m] = 0
    BY <1>1, <2>1, <2>2
  <2>3. CASE total[m] > 0
    BY <1>1, <1>3, <2>3
  <2> QED
    BY <2>1, <2>2, <2>3
<1>5. Counted(b, tf)' = SumFunction([m \in S |-> total[m]])
  BY <1>0 DEF Counted
<1>6. CASE tf = 1
  <2>1. S = {f.time} /\ b = f.time
    <3>1. \A m \in Minutes : m \in Nat /\ Bucket(m, 1) = m
      BY MinutesAreNat, Buckets
    <3> QED
      BY <1>6, <3>1 DEF InBucket
  <2>2. c = f.count
    BY <1>6, MadeForBucket
  <2>3. f.count = total[f.time] /\ total[f.time] \in Nat
    BY <1>0, <1>1, <1>3
  <2> DEFINE k == f.time
             n == total[f.time]
             h == [m \in S |-> total[m]]
  <2>4. h = [m \in {k} |-> n] /\ n \in Nat
    BY <2>1, <2>3
  <2>5. SumFunction([m \in {k} |-> n]) = n
    <3> HIDE DEF k, n
    <3> QED
      BY <2>4, SumOfOne
  <2>6. SumFunction(h) = n
    <3> HIDE DEF h, k, n
    <3> QED
      BY <2>4, <2>5
  <2> QED
    BY <1>5, <2>2, <2>3, <2>6
<1>7. CASE tf # 1
  <2>1. c = SumFunction([m \in S |-> of(m)])
    <3>1. Made(f, tf, rows.bar[1]) = Rolled(f, tf, rows.bar[1])
      BY <1>7 DEF Made
    <3>2. Rolled(f, tf, rows.bar[1]).count = RollUp(known', rows.bar[1], b, tf)
      BY DEF Rolled
    <3>3. RollUp(known', rows.bar[1], b, tf) = SumFunction([m \in S |-> of(m)])
      BY DEF RollUp
    <3> QED
      BY <3>1, <3>2, <3>3
  <2> DEFINE h == [m \in S |-> total[m]]
             g == [m \in S |-> of(m)]
  <2>2. g = h
    BY <1>4
  <2>3. c = SumFunction(g) /\ Counted(b, tf)' = SumFunction(h)
    BY <1>5, <2>1
  <2> HIDE DEF g, h
  <2> QED
    BY <2>2, <2>3
<1> QED
  BY <1>6, <1>7

(* What the bridge and the histories only add to. *)
Grows ==
  /\ now \in Nat /\ now' \in Nat /\ now <= now'
  /\ mixed \subseteq mixed' /\ shed \subseteq shed' /\ authoritative \subseteq authoritative'
  /\ \A m \in Minutes : m # now => total'[m] = total[m]
  /\ total'[now] = total[now] \/ (total'[now] > 0 /\ now \notin authoritative')
  /\ \A m \in Minutes : m <= now => (First(total', m) <=> First(total, m))
  /\ last # NoMinute => last' # NoMinute /\ last.time <= last'.time

(* What becomes of a due close that is on its way. *)
Carried(k) ==
  Due(k)' /\ CloseComes(k)' =>
    \/ /\ Due(k) /\ CloseComes(k)
       /\ CloseFirst(k) => CloseFirst(k)'
       /\ CloseInTime(k) => CloseInTime(k)'
    \/ CloseFirst(k)'
    \/ k = now /\ CloseInTime(k)'
Carries ==
  /\ \A k \in Minutes : Carried(k)
  /\ \A k \in Minutes : last # NoMinute /\ k < last.time /\ CloseComes(k)' => CloseComes(k)
  /\ \A k \in Minutes : Settled(k) /\ k \notin authoritative => k \notin authoritative'

(* The frames that leave the front take no due close with them. *)
TakesNone(d) ==
  \A k \in Minutes : (\E i \in 1 .. Len(queue) : i <= d /\ Ended(queue[i], k)) => ~Due(k)'

LEMMA ComingEnded ==
  ASSUME Base, NEW k, CloseComes(k)
  PROVE  k \in Minutes /\ k \in Nat /\ k < now /\ total[k] > 0
<1>1. PICK i \in 1 .. Len(queue) : queue[i].closed /\ queue[i].time = k
  BY DEF CloseComes, Ended
<1>2. FrameInv(queue[i], now, sequence, total, authoritative) /\ queue[i].time \in Minutes
      /\ queue[i].time \in Nat
  BY BaseFacts
<1> QED
  BY <1>1, <1>2 DEF FrameInv

LEMMA DueBefore ==
  ASSUME Grows, NEW k \in Minutes, k \in Nat, k < now, Due(k)'
  PROVE  Due(k)
<1>1. total'[k] = total[k] /\ (First(total', k) <=> First(total, k)) /\ shed \subseteq shed'
      /\ authoritative \subseteq authoritative'
  BY DEF Grows
<1>2. total'[k] > 0 /\ k \notin authoritative' /\ k \notin shed' /\ ~First(total', k)
  BY DEF Due
<1> QED
  BY <1>1, <1>2 DEF Due

(* A frame that stays has the same frames before it, or fewer. *)
LEMMA FrameStays ==
  ASSUME NEW d, NEW add, Comes(d, add), NEW i \in 1 .. Len(queue), i > d
  PROVE  /\ i - d \in 1 .. Len(queue') /\ queue'[i - d] = queue[i]
         /\ \A j \in 1 .. Len(queue') : j < i - d =>
              \E l \in 1 .. Len(queue) : l < i /\ queue'[j] = queue[l]
<1>1. /\ Len(queue) \in Nat /\ Len(add) \in Nat /\ d \in Nat
      /\ i - d \in 1 .. Len(queue') /\ queue'[i - d] = queue[i]
  BY DEF Comes
<1>2. ASSUME NEW j \in 1 .. Len(queue'), j < i - d
      PROVE  \E l \in 1 .. Len(queue) : l < i /\ queue'[j] = queue[l]
  <2>1. \/ \E l \in 1 .. Len(queue) : l = j + d /\ queue'[j] = queue[l]
        \/ \E l \in 1 .. Len(add) : Len(queue) + l = j + d /\ queue'[j] = add[l]
    BY DEF Comes
  <2>2. CASE \E l \in 1 .. Len(queue) : l = j + d /\ queue'[j] = queue[l]
    BY <1>1, <1>2, <2>2
  <2>3. CASE \E l \in 1 .. Len(add) : Len(queue) + l = j + d /\ queue'[j] = add[l]
    BY <1>1, <1>2, <2>3
  <2> QED
    BY <2>1, <2>2, <2>3
<1> QED
  BY <1>1, <1>2

(* A due close stays on its way, as early as it was. *)
LEMMA CloseStays ==
  ASSUME NEW d, NEW add, Comes(d, add), TakesNone(d), NEW k \in Minutes, Due(k)'
  PROVE  /\ CloseComes(k) => CloseComes(k)'
         /\ gap' /\ CloseFirst(k) => CloseFirst(k)'
         /\ CloseInTime(k) =>
              /\ HandlersUpTo(k)
              /\ \A j \in 1 .. Len(queue) : j <= d => queue[j].time <= k
              /\ HandlersUpTo(k)' => CloseInTime(k)'
<1>0. Len(queue) \in Nat /\ d \in Nat
  BY DEF Comes
<1>1. ASSUME NEW i \in 1 .. Len(queue), Ended(queue[i], k)
      PROVE  i > d
  BY <1>0, <1>1 DEF TakesNone
<1>2. ASSUME NEW i \in 1 .. Len(queue), Ended(queue[i], k)
      PROVE  /\ i - d \in 1 .. Len(queue') /\ Ended(queue'[i - d], k)
             /\ \A j \in 1 .. Len(queue') : j < i - d =>
                  \E l \in 1 .. Len(queue) : l < i /\ queue'[j] = queue[l]
  BY <1>1, <1>2, FrameStays
<1>3. CloseComes(k) => CloseComes(k)'
  BY <1>2 DEF CloseComes, Ended
<1>4. ASSUME gap', CloseFirst(k) PROVE CloseFirst(k)'
  <2>1. PICK i \in 1 .. Len(queue) : Ended(queue[i], k) /\ NoBarBefore(i)
    BY <1>4 DEF CloseFirst
  <2>2. PICK n : n = i - d
    OBVIOUS
  <2>3. /\ n \in 1 .. Len(queue') /\ Ended(queue'[n], k)
        /\ \A j \in 1 .. Len(queue') : j < n =>
             \E l \in 1 .. Len(queue) : l < i /\ queue'[j] = queue[l]
    BY <1>2, <2>1, <2>2
  <2>4. \A j \in 1 .. Len(queue') : j < n => ~IsBar(queue'[j])
    BY <2>1, <2>3 DEF NoBarBefore
  <2> QED
    BY <1>4, <2>3, <2>4 DEF CloseFirst, NoBarBefore, Ended, IsBar
<1>5. ASSUME CloseInTime(k)
      PROVE  /\ HandlersUpTo(k)
             /\ \A j \in 1 .. Len(queue) : j <= d => queue[j].time <= k
             /\ HandlersUpTo(k)' => CloseInTime(k)'
  <2>1. PICK i \in 1 .. Len(queue) : Ended(queue[i], k) /\ NoneLaterBefore(i, k)
    BY <1>5 DEF CloseInTime
  <2>2. PICK n : n = i - d
    OBVIOUS
  <2>3. /\ n \in 1 .. Len(queue') /\ Ended(queue'[n], k)
        /\ \A j \in 1 .. Len(queue') : j < n =>
             \E l \in 1 .. Len(queue) : l < i /\ queue'[j] = queue[l]
    BY <1>2, <2>1, <2>2
  <2>4. \A j \in 1 .. Len(queue') : j < n => queue'[j].time <= k
    BY <2>1, <2>3 DEF NoneLaterBefore
  <2>5. \A j \in 1 .. Len(queue) : j <= d => queue[j].time <= k
    <3>1. i > d
      BY <1>1, <2>1
    <3>2. \A j \in 1 .. Len(queue) : j <= d => j < i
      BY <1>0, <3>1
    <3> QED
      BY <2>1, <3>2 DEF NoneLaterBefore
  <2> QED
    BY <1>5, <2>3, <2>4, <2>5 DEF CloseInTime, NoneLaterBefore, Ended
<1> QED
  BY <1>3, <1>4, <1>5

(* Closes that come afterwards were on their way, or are added. *)
LEMMA CloseFrom ==
  ASSUME NEW d, NEW add, Comes(d, add), NEW k, CloseComes(k)'
  PROVE  CloseComes(k) \/ \E j \in 1 .. Len(add) : Ended(add[j], k)
<1>1. PICK i \in 1 .. Len(queue') : Ended(queue'[i], k)
  BY DEF CloseComes, Ended
<1>2. \/ \E j \in 1 .. Len(queue) : j = i + d /\ queue'[i] = queue[j]
      \/ \E j \in 1 .. Len(add) : Len(queue) + j = i + d /\ queue'[i] = add[j]
  BY DEF Comes
<1> QED
  BY <1>1, <1>2 DEF CloseComes

(* A step that adds no close. *)
LEMMA CarriesOld ==
  ASSUME Base, Grows, NEW d, NEW add, Comes(d, add), TakesNone(d),
         \A j \in 1 .. Len(add) : ~add[j].closed,
         NEW k \in Minutes,
         CloseFirst(k) /\ Due(k)' => gap',
         CloseInTime(k) /\ (\A j \in 1 .. Len(queue) : j <= d => queue[j].time <= k)
           => HandlersUpTo(k)'
  PROVE  Carried(k) /\ (CloseComes(k)' => CloseComes(k))
<1>1. CloseComes(k)' => CloseComes(k)
  BY CloseFrom DEF Ended
<1>2. ASSUME Due(k)', CloseComes(k)' PROVE Carried(k)
  <2>1. k \in Nat /\ k < now /\ CloseComes(k)
    BY <1>1, <1>2, ComingEnded
  <2>2. Due(k)
    BY <1>2, <2>1, DueBefore
  <2>3. /\ gap' /\ CloseFirst(k) => CloseFirst(k)'
        /\ CloseInTime(k) =>
              /\ HandlersUpTo(k)
              /\ \A j \in 1 .. Len(queue) : j <= d => queue[j].time <= k
              /\ HandlersUpTo(k)' => CloseInTime(k)'
    BY <1>2, CloseStays
  <2> QED
    BY <1>2, <2>1, <2>2, <2>3 DEF Carried
<1> QED
  BY <1>1, <1>2 DEF Carried

LEMMA LostTakesNone ==
  ASSUME NEW d, NEW add, Lost(d, add)
  PROVE  TakesNone(d)
<1> SUFFICES ASSUME NEW k \in Minutes, NEW i \in 1 .. Len(queue), i <= d, Ended(queue[i], k)
             PROVE  ~Due(k)'
  BY DEF TakesNone
<1>1. k \in shed'
  BY DEF Lost, Ended
<1> QED
  BY <1>1 DEF Due

(* The bridge's last bar stays on its way. *)
LEMMA LastStaysSent ==
  ASSUME Base, LastSent, Grows, NEW d, NEW add, Comes(d, add), TakesNone(d),
         \A j \in 1 .. Len(add) : ~IsBar(add[j]),
         last' = last, line' = line, gap => gap' \/ line = "open", gap' => gap
  PROVE  LastSent'
<1>0. PICK t : t = last.time
  OBVIOUS
<1>1. last'.time = t /\ (last # NoMinute => t \in Minutes /\ t \in Nat /\ t < now)
  BY <1>0, BridgeFacts DEF Base
<1>2. line' = "connected" => gap'
  BY DEF LastSent
<1>3. ASSUME line' \in {"never", "connected"}, NEW i \in 1 .. Len(queue'), IsBar(queue'[i])
      PROVE  /\ last' # NoMinute
             /\ \E j \in 1 .. Len(queue') : j >= i /\ Ended(queue'[j], t)
  <2>0. Len(queue) \in Nat /\ d \in Nat
    BY DEF Comes
  <2>1. PICK l \in 1 .. Len(queue) : l = i + d /\ queue'[i] = queue[l]
    <3>1. \/ \E j \in 1 .. Len(queue) : j = i + d /\ queue'[i] = queue[j]
          \/ \E j \in 1 .. Len(add) : Len(queue) + j = i + d /\ queue'[i] = add[j]
      BY DEF Comes
    <3> QED
      BY <1>3, <3>1
  <2>2. IsBar(queue[l])
    BY <1>3, <2>1
  <2>3. last # NoMinute /\ \E j \in 1 .. Len(queue) : j >= l /\ Ended(queue[j], t)
    BY <1>0, <1>3, <2>2 DEF LastSent
  <2>4. PICK j \in 1 .. Len(queue) : j >= l /\ Ended(queue[j], t)
    BY <2>3
  <2>5. j - d \in 1 .. Len(queue') /\ queue'[j - d] = queue[j]
    <3>1. j > d
      BY <2>0, <2>1, <2>4
    <3> QED
      BY <3>1, FrameStays
  <2>6. j - d >= i
    BY <2>0, <2>1, <2>4
  <2> QED
    BY <2>3, <2>4, <2>5, <2>6
<1>4. ASSUME line' = "open" \/ ~gap', last' # NoMinute, Due(t)'
      PROVE  CloseComes(t)'
  <2>1. last # NoMinute /\ (line = "open" \/ ~gap)
    BY <1>4
  <2>2. Due(t)
    BY <1>1, <1>4, <2>1, DueBefore
  <2>3. CloseComes(t)
    BY <1>0, <2>1, <2>2 DEF LastSent
  <2> QED
    BY <1>1, <1>4, <2>1, <2>3, CloseStays
<1>5. Due(last.time)' = Due(t)' /\ CloseComes(last.time)' = CloseComes(t)'
  BY <1>1 DEF Due, CloseComes, Ended
<1>6. \A i \in 1 .. Len(queue') : IsBar(queue[i])' = IsBar(queue'[i])
  BY DEF IsBar
<1>7. \A j \in 1 .. Len(queue') : Ended(queue[j], last.time)' = Ended(queue'[j], t)
  BY <1>1 DEF Ended
<1> QED
  BY <1>2, <1>3, <1>4, <1>5, <1>6, <1>7 DEF LastSent

LEMMA CarriesOnTrade ==
  ASSUME Base, LastSent, OnTrade
  PROVE  Grows /\ Carries /\ LastSent'
<1>0. /\ now \in Nat /\ now \in Minutes /\ sequence \in Nat /\ queue \in Seq(Frame) /\ total[now] \in Nat
      /\ now \notin authoritative
  BY BaseFacts
<1>1. PICK add : add = <<TradeFrame(sequence')>>
  OBVIOUS
<1>2. PICK d \in Nat : Shifts(d, add) /\ Lost(d, add) /\ d <= Len(queue)
  BY <1>0, <1>1, TradeQueued DEF Base
<1>3. Comes(d, add) /\ TakesNone(d)
  BY <1>0, <1>2, FramesOf, LostTakesNone
<1>4. /\ now' = now /\ last' = last /\ total' \in [Minutes -> Nat] /\ total'[now] = total[now] + 1
      /\ \A m \in Minutes : m # now => total'[m] = total[m]
      /\ \A m \in Minutes : m <= now => (First(total', m) <=> First(total, m))
  BY TradeCounts DEF Base
<1>5. UNCHANGED <<mixed, authoritative, gap, task, late, line>>
  BY DEF OnTrade, engines
<1>6. \A j \in 1 .. Len(add) : ~add[j].closed /\ ~IsBar(add[j])
  <2>1. Len(add) = 1 /\ add[1] = TradeFrame(sequence')
    BY <1>1
  <2>2. ~TradeFrame(sequence').closed /\ ~IsBar(TradeFrame(sequence'))
    BY DEF TradeFrame, IsBar
  <2>3. \A j \in 1 .. Len(add) : j = 1
    BY <2>1
  <2> QED
    BY <2>1, <2>2, <2>3
<1>7. Grows
  <2>1. shed \subseteq shed'
    BY <1>2 DEF Lost
  <2>2. last # NoMinute => last.time <= last.time
    BY BridgeFacts DEF Base
  <2>3. total'[now] > 0
    BY <1>0, <1>4
  <2>4. now' \in Nat /\ now <= now'
    BY <1>0, <1>4
  <2> QED
    BY <1>0, <1>4, <1>5, <2>1, <2>2, <2>3, <2>4 DEF Grows
<1>8. ASSUME NEW k \in Minutes
      PROVE  Carried(k) /\ (CloseComes(k)' => CloseComes(k))
  <2>1. CloseFirst(k) => gap'
    BY <1>5 DEF CloseFirst
  <2>2. CloseInTime(k) => HandlersUpTo(k)'
    BY <1>5 DEF CloseInTime, HandlersUpTo
  <2> QED
    BY <1>3, <1>6, <1>7, <2>1, <2>2, CarriesOld
<1>9. Carries
  BY <1>5, <1>8 DEF Carries
<1>10. LastSent'
  BY <1>3, <1>4, <1>5, <1>6, <1>7, LastStaysSent
<1> QED
  BY <1>7, <1>9, <1>10

(* What LastSent says of the bridge's last minute t. *)
SentUpTo(t) ==
  /\ line = "connected" => gap
  /\ line \in {"never", "connected"} =>
       \A i \in 1 .. Len(queue) : IsBar(queue[i]) =>
         /\ last # NoMinute
         /\ \E j \in 1 .. Len(queue) : j >= i /\ Ended(queue[j], t)
  /\ (line = "open" \/ ~gap) /\ last # NoMinute /\ Due(t) => CloseComes(t)

LEMMA SentIsUpTo == \A t : last.time = t => (LastSent <=> SentUpTo(t))
  BY DEF LastSent, SentUpTo

LEMMA SentNext ==
  ASSUME NEW s, last'.time = s, SentUpTo(s)'
  PROVE  LastSent'
<1>1. (\A t : last.time = t => (LastSent <=> SentUpTo(t)))'
  BY SentIsUpTo, PTL
<1> QED
  BY <1>1

LEMMA CarriesOnTimestamp ==
  ASSUME Base, LastSent, OnTimestamp
  PROVE  Grows /\ Carries /\ LastSent'
<1>0. /\ now \in Nat /\ now \in Minutes /\ queue \in Seq(Frame) /\ Len(queue) \in Nat
      /\ \A i \in 1 .. Len(queue) : queue[i].time \in Nat /\ queue[i].time <= now
      /\ last # NoMinute => last.time \in Nat /\ last.time < now
  BY BaseFacts, BridgeFacts DEF Base
<1>1. /\ now' = now + 1 /\ total' = total
      /\ \A m \in Minutes : First(total', m) <=> First(total, m)
      /\ current = NoMinute => UNCHANGED <<last, queue, shed>>
      /\ current # NoMinute => last' = current
  BY MinuteBegins DEF Base
<1>2. UNCHANGED <<mixed, authoritative, gap, task, late, line>>
  BY DEF OnTimestamp, engines
<1>3. CASE current = NoMinute
  <2>1. Comes(0, <<>>) /\ Len(<<>>) = 0
    BY <1>0, <1>1, <1>3, NothingComes
  <2>2. TakesNone(0)
    BY <1>0 DEF TakesNone
  <2>3. Grows
    <3>1. last # NoMinute => last'.time = last.time /\ last.time \in Nat
      BY <1>0, <1>1, <1>3
    <3>2. last # NoMinute => last' # NoMinute /\ last.time <= last'.time
      BY <1>1, <1>3, <3>1
    <3>3. now' \in Nat /\ now <= now'
      BY <1>0, <1>1
    <3> QED
      BY <1>0, <1>1, <1>2, <1>3, <3>2, <3>3 DEF Grows
  <2>4. ASSUME NEW k \in Minutes
        PROVE  Carried(k) /\ (CloseComes(k)' => CloseComes(k))
    <3>1. CloseFirst(k) => gap'
      BY <1>2 DEF CloseFirst
    <3>2. CloseInTime(k) => HandlersUpTo(k)'
      BY <1>2 DEF CloseInTime, HandlersUpTo
    <3> QED
      BY <2>1, <2>2, <2>3, <3>1, <3>2, CarriesOld
  <2>5. Carries
    BY <1>2, <2>4 DEF Carries
  <2>6. LastSent'
    <3>1. last' = last
      BY <1>1, <1>3
    <3> QED
      BY <1>2, <2>1, <2>2, <2>3, <3>1, LastStaysSent
  <2> QED
    BY <2>3, <2>5, <2>6
<1>4. CASE current # NoMinute
  <2>1. PICK add : add = <<BarFrame(current, TRUE)>>
    OBVIOUS
  <2>2. PICK d \in Nat : Shifts(d, add) /\ Lost(d, add) /\ d <= Len(queue)
    BY <1>0, <1>4, <2>1, MinuteQueued DEF Base
  <2>3. Comes(d, add) /\ TakesNone(d)
    BY <1>0, <2>2, FramesOf, LostTakesNone
  <2>4. current.time = now /\ total[now] > 0
    BY <1>4, BridgeFacts DEF Base
  <2>5. /\ Len(add) = 1 /\ add[1].closed /\ add[1].time = now
        /\ \A j \in 1 .. Len(add) : j = 1
    <3>1. Len(add) = 1 /\ add[1] = BarFrame(current, TRUE)
      BY <2>1
    <3>2. BarFrame(current, TRUE).closed /\ BarFrame(current, TRUE).time = now
      BY <2>4 DEF BarFrame
    <3>3. \A j \in 1 .. Len(add) : j = 1
      BY <3>1
    <3> QED
      BY <3>1, <3>2, <3>3
  <2>6. last'.time = now /\ last' # NoMinute
    BY <1>1, <1>4, <2>4
  <2>7. Grows
    <3>1. shed \subseteq shed'
      BY <2>2 DEF Lost
    <3>2. last # NoMinute => last.time <= last'.time
      BY <1>0, <2>6
    <3>3. now' \in Nat /\ now <= now'
      BY <1>0, <1>1
    <3> QED
      BY <1>0, <1>1, <1>2, <2>6, <3>1, <3>2, <3>3 DEF Grows
  <2>8. PICK n : n = (Len(queue) + 1) - d
    OBVIOUS
  <2>9. /\ n \in 1 .. Len(queue') /\ n = Len(queue') /\ Ended(queue'[n], now) /\ Len(queue') \in Nat
    <3>1. 1 \in 1 .. Len(add) /\ Len(queue) + 1 > d /\ d \in Nat
      BY <1>0, <2>2, <2>5
    <3>2. n \in 1 .. Len(queue') /\ queue'[n] = add[1] /\ Len(queue') = (Len(queue) + 1) - d
      BY <2>3, <2>5, <2>8, <3>1 DEF Comes
    <3>3. Len(queue') \in Nat
      BY <1>0, <2>2, <3>2
    <3> QED
      BY <2>5, <2>8, <3>2, <3>3 DEF Ended
  <2>10. \A j \in 1 .. Len(queue') : queue'[j].time <= now
    <3> SUFFICES ASSUME NEW j \in 1 .. Len(queue') PROVE queue'[j].time <= now
      OBVIOUS
    <3>1. \/ \E i \in 1 .. Len(queue) : i = j + d /\ queue'[j] = queue[i]
          \/ \E i \in 1 .. Len(add) : Len(queue) + i = j + d /\ queue'[j] = add[i]
      BY <2>3 DEF Comes
    <3> QED
      BY <1>0, <2>5, <3>1
  <2>11. \A k : k = now => HandlersUpTo(k)'
    <3>1. (task # Idle => task.time <= now) /\ (late # Idle => late.time <= now)
      BY DEF Base, Handlers, HandlerOf
    <3>2. \A k : HandlersUpTo(k)' <=> HandlersUpTo(k)
      BY <1>2 DEF HandlersUpTo
    <3>3. \A k : k = now => HandlersUpTo(k)
      BY <3>1 DEF HandlersUpTo
    <3>4. \A k : k = now => HandlersUpTo(k)'
      BY <3>2, <3>3
    <3> QED
      BY <3>4
  <2>12. ASSUME NEW k \in Minutes, CloseComes(k)'
         PROVE  CloseComes(k) \/ k = now
    <3>1. CloseComes(k) \/ \E j \in 1 .. Len(add) : Ended(add[j], k)
      BY <2>3, <2>12, CloseFrom
    <3> QED
      BY <2>5, <3>1 DEF Ended
  <2>13. ASSUME NEW k \in Minutes
         PROVE  Carried(k) /\ (last # NoMinute /\ k < last.time /\ CloseComes(k)' => CloseComes(k))
    <3>1. ASSUME k = now PROVE CloseInTime(k)'
      <4>1. HandlersUpTo(k)' /\ Ended(queue'[n], k) /\ \A j \in 1 .. Len(queue') : queue'[j].time <= k
        BY <2>9, <2>10, <2>11, <3>1
      <4> QED
        BY <2>9, <4>1 DEF CloseInTime, NoneLaterBefore, Ended
    <3>2. ASSUME Due(k)', CloseComes(k)', CloseComes(k) PROVE Carried(k)
      <4>1. k \in Nat /\ k < now
        BY <3>2, ComingEnded
      <4>2. Due(k)
        BY <2>7, <3>2, <4>1, DueBefore
      <4>3. CloseFirst(k) => CloseFirst(k)'
        <5>1. CloseFirst(k) => gap'
          BY <1>2 DEF CloseFirst
        <5> QED
          BY <2>3, <3>2, <5>1, CloseStays
      <4>4. CloseInTime(k) => CloseInTime(k)'
        <5>1. CloseInTime(k) => HandlersUpTo(k)'
          BY <1>2 DEF CloseInTime, HandlersUpTo
        <5> QED
          BY <2>3, <3>2, <5>1, CloseStays
      <4> QED
        BY <3>2, <4>2, <4>3, <4>4 DEF Carried
    <3>3. k = now => ~(last # NoMinute /\ k < last.time)
      BY <1>0
    <3> QED
      BY <2>12, <3>1, <3>2, <3>3 DEF Carried
  <2>14. Carries
    BY <1>2, <2>13 DEF Carries
  <2>15. PICK t : t = now
    OBVIOUS
  <2>16. SentUpTo(t)'
    <3>1. Ended(queue'[n], t) /\ \A i \in 1 .. Len(queue') : n >= i
      BY <2>9, <2>15
    <3>2. line' = "connected" => gap'
      BY <1>2 DEF LastSent
    <3>3. CloseComes(t)'
      BY <2>9, <3>1 DEF CloseComes, Ended
    <3> QED
      BY <2>6, <2>9, <3>1, <3>2, <3>3 DEF SentUpTo, Ended
  <2>17. LastSent'
    BY <2>6, <2>15, <2>16, SentNext
  <2> QED
    BY <2>7, <2>14, <2>17
<1> QED
  BY <1>3, <1>4

(* Steps that leave the bridge alone. *)
LEMMA GrowsBeside ==
  ASSUME Base, UNCHANGED bridge, mixed \subseteq mixed', shed \subseteq shed',
         authoritative \subseteq authoritative'
  PROVE  Grows
<1>1. now \in Nat /\ (last # NoMinute => last.time \in Nat)
  BY BaseFacts, BridgeFacts DEF Base
<1>2. now' = now /\ last' = last /\ total' = total
  BY DEF bridge
<1>3. now <= now /\ (last # NoMinute => last.time <= last.time)
  BY <1>1
<1>4. \A m \in Minutes : First(total', m) <=> First(total, m)
  BY <1>2 DEF First
<1> QED
  BY <1>1, <1>2, <1>3, <1>4 DEF Grows

LEMMA CarriesSendSnapshots ==
  ASSUME Base, LastSent, SendSnapshots
  PROVE  Grows /\ Carries /\ LastSent'
<1>0. /\ now \in Nat /\ now \in Minutes /\ queue \in Seq(Frame) /\ Len(queue) \in Nat
      /\ now \notin authoritative
  BY BaseFacts
<1>1. PICK add : add = Snapshot
  OBVIOUS
<1>2. PICK d \in Nat : Shifts(d, add) /\ Lost(d, add)
  BY <1>0, <1>1, SnapshotsQueued DEF Base
<1>3. Comes(d, add) /\ TakesNone(d)
  BY <1>0, <1>2, FramesOf, LostTakesNone
<1>4. UNCHANGED <<bridge, mixed, authoritative, gap, task, late>> /\ line = "connected" /\ line' = "open"
  BY DEF SendSnapshots, engines
<1>5. last' = last
  BY <1>4 DEF bridge
<1>6. Grows
  BY <1>2, <1>4, GrowsBeside DEF Lost
<1>7. gap /\ gap'
  BY <1>4 DEF LastSent
<1>8. /\ \A j \in 1 .. Len(add) : add[j].closed => last # NoMinute /\ add[j].time = last.time
      /\ last # NoMinute => /\ 1 \in 1 .. Len(add) /\ Ended(add[1], last.time)
  <2>1. /\ \A i \in 1 .. Len(add) :
             \/ last # NoMinute /\ i = 1 /\ add[i] = BarFrame(last, TRUE)
             \/ current # NoMinute /\ i = Len(add) /\ add[i] = BarFrame(current, FALSE)
        /\ last # NoMinute => Len(add) > 0 /\ add[1] = BarFrame(last, TRUE)
        /\ Len(add) \in Nat
    BY <1>1, SnapshotFrames DEF Base
  <2>2. /\ BarFrame(last, TRUE).closed /\ BarFrame(last, TRUE).time = last.time
        /\ ~BarFrame(current, FALSE).closed
    BY DEF BarFrame
  <2>3. \A i \in 1 .. Len(add) : \/ last # NoMinute /\ add[i] = BarFrame(last, TRUE)
                                 \/ add[i] = BarFrame(current, FALSE)
    BY <2>1
  <2>4. \A j \in 1 .. Len(add) : add[j].closed => last # NoMinute /\ add[j].time = last.time
    BY <2>2, <2>3
  <2>5. last # NoMinute => 1 \in 1 .. Len(add)
    BY <2>1
  <2> QED
    BY <2>1, <2>2, <2>4, <2>5 DEF Ended
<1>9. PICK n : n = (Len(queue) + 1) - d
  OBVIOUS
(* The last minute's bar is in the queue, unless the sender shed it. *)
<1>10. ASSUME last # NoMinute, NEW k \in Minutes, k = last.time, Due(k)'
       PROVE  /\ n \in 1 .. Len(queue') /\ Ended(queue'[n], k)
              /\ \A j \in 1 .. Len(queue') : j < n => \E i \in 1 .. Len(queue) : queue'[j] = queue[i]
  <2>1. 1 \in 1 .. Len(add) /\ add[1].closed /\ add[1].time = k
    BY <1>8, <1>10 DEF Ended
  <2>2. Len(queue) + 1 > d
    <3>1. Len(queue) + 1 <= d => k \in shed'
      BY <1>2, <2>1 DEF Lost
    <3>2. k \notin shed'
      BY <1>10 DEF Due
    <3> QED
      BY <1>0, <3>1, <3>2
  <2>3. n \in 1 .. Len(queue') /\ queue'[n] = add[1]
    BY <1>3, <1>9, <2>1, <2>2 DEF Comes
  <2>4. ASSUME NEW j \in 1 .. Len(queue'), j < n
        PROVE  \E i \in 1 .. Len(queue) : queue'[j] = queue[i]
    <3>1. \/ \E i \in 1 .. Len(queue) : i = j + d /\ queue'[j] = queue[i]
          \/ \E i \in 1 .. Len(add) : Len(queue) + i = j + d /\ queue'[j] = add[i]
      BY <1>3 DEF Comes
    <3>2. \A i \in 1 .. Len(add) : Len(queue) + i # j + d
      BY <1>0, <1>9, <2>4
    <3> QED
      BY <3>1, <3>2
  <2> QED
    BY <2>1, <2>3, <2>4 DEF Ended
<1>11. ASSUME NEW k \in Minutes, CloseComes(k)'
       PROVE  CloseComes(k) \/ (last # NoMinute /\ k = last.time)
  <2>1. CloseComes(k) \/ \E j \in 1 .. Len(add) : Ended(add[j], k)
    BY <1>3, <1>11, CloseFrom
  <2> QED
    BY <1>8, <2>1 DEF Ended
<1>12. ASSUME NEW k \in Minutes
       PROVE  Carried(k) /\ (last # NoMinute /\ k < last.time /\ CloseComes(k)' => CloseComes(k))
  <2>1. last # NoMinute => last.time \in Nat
    BY BridgeFacts DEF Base
  <2>2. last # NoMinute /\ k < last.time /\ CloseComes(k)' => CloseComes(k)
    BY <1>11, <2>1
  <2>3. ASSUME Due(k)', CloseComes(k)', CloseComes(k) PROVE Carried(k)
    <3>1. k \in Nat /\ k < now
      BY <2>3, ComingEnded
    <3>2. Due(k)
      BY <1>6, <2>3, <3>1, DueBefore
    <3>3. CloseFirst(k) => CloseFirst(k)'
      BY <1>3, <1>7, <2>3, CloseStays
    <3>4. CloseInTime(k) => CloseInTime(k)'
      <4>1. CloseInTime(k) => HandlersUpTo(k)'
        BY <1>4 DEF CloseInTime, HandlersUpTo
      <4> QED
        BY <1>3, <2>3, <4>1, CloseStays
    <3> QED
      BY <2>3, <3>2, <3>3, <3>4 DEF Carried
  <2>4. ASSUME Due(k)', CloseComes(k)', ~CloseComes(k) PROVE Carried(k)
    <3>1. last # NoMinute /\ k = last.time
      BY <1>11, <2>4
    <3>2. \A i \in 1 .. Len(queue) : ~IsBar(queue[i])
      <4>1. \A j \in 1 .. Len(queue) : ~Ended(queue[j], last.time)
        BY <2>4, <3>1 DEF CloseComes
      <4> QED
        BY <1>4, <4>1 DEF LastSent
    <3>3. /\ n \in 1 .. Len(queue') /\ Ended(queue'[n], k)
          /\ \A j \in 1 .. Len(queue') : j < n => ~IsBar(queue'[j])
      BY <1>10, <2>4, <3>1, <3>2
    <3>4. CloseFirst(k)'
      BY <1>7, <3>3 DEF CloseFirst, NoBarBefore, Ended, IsBar
    <3> QED
      BY <3>4 DEF Carried
  <2> QED
    BY <2>2, <2>3, <2>4 DEF Carried
<1>13. Carries
  BY <1>4, <1>12 DEF Carries
<1>14. PICK t : t = last.time
  OBVIOUS
<1>15. SentUpTo(t)'
  <2>1. last # NoMinute /\ Due(t)' => CloseComes(t)'
    <3>1. SUFFICES ASSUME last # NoMinute, Due(t)' PROVE CloseComes(t)'
      OBVIOUS
    <3>2. t \in Minutes
      BY <1>14, <3>1, BridgeFacts DEF Base
    <3>3. n \in 1 .. Len(queue') /\ Ended(queue'[n], t)
      BY <1>10, <1>14, <3>1, <3>2
    <3> QED
      BY <3>3 DEF CloseComes, Ended
  <2> QED
    BY <1>4, <1>5, <2>1 DEF SentUpTo
<1>16. LastSent'
  BY <1>5, <1>14, <1>15, SentNext
<1> QED
  BY <1>6, <1>13, <1>16

(* Frames leave the front for a handler, or as stale. *)
LEMMA CarriesPop ==
  ASSUME Base, LastSent, UNCHANGED <<bridge, mixed, shed, late>>, line = "open", line' = "open",
         authoritative \subseteq authoritative', Comes(1, <<>>), TakesNone(1),
         gap' => gap, \A k \in Minutes : CloseFirst(k) /\ Due(k)' => gap',
         task' = task \/ (1 \in 1 .. Len(queue) /\ task'.time = queue[1].time),
         \A k \in Minutes : Settled(k) /\ k \notin authoritative => k \notin authoritative'
  PROVE  Grows /\ Carries /\ LastSent'
<1>1. Grows
  BY GrowsBeside
<1>2. Len(<<>>) = 0
  OBVIOUS
<1>3. ASSUME NEW k \in Minutes
      PROVE  Carried(k) /\ (CloseComes(k)' => CloseComes(k))
  <2>1. CloseInTime(k) /\ (\A j \in 1 .. Len(queue) : j <= 1 => queue[j].time <= k) => HandlersUpTo(k)'
    <3>1. CloseInTime(k) => HandlersUpTo(k)
      BY DEF CloseInTime
    <3>2. CASE task' = task
      BY <3>1, <3>2 DEF HandlersUpTo
    <3>3. CASE 1 \in 1 .. Len(queue) /\ task'.time = queue[1].time
      BY <3>1, <3>3 DEF HandlersUpTo
    <3> QED
      BY <3>2, <3>3
  <2>2. \A j \in 1 .. Len(<<>>) : ~(<<>>)[j].closed
    BY <1>2
  <2> QED
    BY <1>1, <2>1, <2>2, CarriesOld
<1>4. Carries
  BY <1>3 DEF Carries
<1>5. LastSent'
  <2>1. last' = last
    BY DEF bridge
  <2>2. \A j \in 1 .. Len(<<>>) : ~IsBar((<<>>)[j])
    BY <1>2
  <2> QED
    BY <1>1, <2>1, <2>2, LastStaysSent
<1> QED
  BY <1>1, <1>4, <1>5

LEMMA TradeTakesNone ==
  ASSUME Base, 1 \in 1 .. Len(queue), ~IsBar(queue[1])
  PROVE  TakesNone(1)
<1>1. ~queue[1].closed /\ Len(queue) \in Nat
  BY BaseFacts DEF FrameInv
<1>2. \A i \in 1 .. Len(queue) : i <= 1 => i = 1
  BY <1>1
<1> QED
  BY <1>1, <1>2 DEF TakesNone, Ended

LEMMA CarriesDropStale ==
  ASSUME Base, LastSent, DropStale
  PROVE  Grows /\ Carries /\ LastSent'
<1>1. /\ UNCHANGED <<bridge, mixed, shed, late, authoritative, task, gap>>
      /\ line = "open" /\ line' = "open" /\ queue # <<>> /\ queue' = Tail(queue)
      /\ Head(queue).type = "trade"
  BY DEF DropStale, link, engines
<1>2. \A i \in 1 .. Len(queue) : ~queue[i].closed => queue[i].time \notin authoritative'
  BY <1>1, BaseFacts DEF FrameInv
<1>3. Comes(1, <<>>) /\ 1 \in 1 .. Len(queue) /\ Head(queue) = queue[1]
  BY <1>1, <1>2, QueuePops DEF bridge
<1>4. ~IsBar(queue[1])
  BY <1>1, <1>3 DEF IsBar
<1>5. TakesNone(1)
  BY <1>3, <1>4, TradeTakesNone
<1>6. \A k \in Minutes : CloseFirst(k) => gap'
  BY <1>1 DEF CloseFirst
<1> QED
  BY <1>1, <1>3, <1>5, <1>6, CarriesPop

LEMMA CarriesReceiveTrade ==
  ASSUME Base, LastSent, ReceiveTrade
  PROVE  Grows /\ Carries /\ LastSent'
<1>1. /\ UNCHANGED <<bridge, mixed, shed, late, authoritative, gap>>
      /\ line = "open" /\ line' = "open"
  BY DEF ReceiveTrade, Receives, link, engines
<1>2. 1 \in 1 .. Len(queue) /\ ~IsBar(queue[1]) /\ task'.time = queue[1].time /\ Comes(1, <<>>)
  BY BaseReceiveTrade
<1>3. TakesNone(1)
  BY <1>2, TradeTakesNone
<1>4. \A k \in Minutes : CloseFirst(k) => gap'
  BY <1>1 DEF CloseFirst
<1> QED
  BY <1>1, <1>2, <1>3, <1>4, CarriesPop

LEMMA CarriesHandleBar ==
  ASSUME Base, LastSent, HandleBar
  PROVE  Grows /\ Carries /\ LastSent'
<1> PICK f : f = queue[1]
  OBVIOUS
<1>1. /\ 1 \in 1 .. Len(queue) /\ IsBar(f) /\ f \in Frame /\ Comes(1, <<>>)
      /\ FrameInv(f, now, sequence, total, authoritative)
      /\ HandledBar(f, Evaluated(active', snapshots', flow'))
  BY BaseHandleBar
<1>2. /\ UNCHANGED <<bridge, mixed, shed, late, task>>
      /\ gap' = (gap /\ f.partial)
      /\ authoritative' = IF f.closed /\ ~f.partial
                          THEN authoritative \cup {f.time} ELSE authoritative
  BY <1>1 DEF HandledBar
<1>3. line = "open" /\ line' = "open" /\ total' = total
  BY <1>2 DEF HandleBar, Receives, link, bridge
<1>4. f.partial <=> First(total, f.time)
  BY <1>1 DEF FrameInv
<1>5. TakesNone(1)
  <2> SUFFICES ASSUME NEW k \in Minutes, NEW i \in 1 .. Len(queue), i <= 1, Ended(queue[i], k)
               PROVE  ~Due(k)'
    BY DEF TakesNone
  <2>1. i = 1 /\ f.closed /\ f.time = k
    <3>1. i = 1
      BY <1>1, BaseFacts
    <3> QED
      BY <3>1 DEF Ended
  <2>2. CASE f.partial
    <3>1. First(total, k)
      BY <1>4, <2>1, <2>2
    <3>2. First(total', k)
      BY <1>3, <3>1 DEF First
    <3> QED
      BY <3>2 DEF Due
  <2>3. CASE ~f.partial
    <3>1. k \in authoritative'
      BY <1>2, <2>1, <2>3
    <3> QED
      BY <3>1 DEF Due
  <2> QED
    BY <2>2, <2>3
<1>6. ASSUME NEW k \in Minutes, CloseFirst(k), Due(k)'
      PROVE  gap'
  <2>1. PICK i \in 1 .. Len(queue) : Ended(queue[i], k) /\ NoBarBefore(i)
    BY <1>6 DEF CloseFirst
  <2>2. ~(1 < i)
    BY <1>1, <2>1 DEF NoBarBefore
  <2>3. i <= 1
    BY <1>1, <2>2, BaseFacts
  <2> QED
    BY <1>5, <1>6, <2>1, <2>3 DEF TakesNone
<1>7. ASSUME NEW k \in Minutes, Settled(k), k \notin authoritative
      PROVE  k \notin authoritative'
  <2>1. SUFFICES ASSUME f.closed, ~f.partial, f.time = k PROVE FALSE
    BY <1>2, <1>7
  <2>2. ~First(total, k) /\ CloseComes(k)
    BY <1>1, <1>4, <2>1 DEF CloseComes, Ended
  <2> QED
    BY <1>7, <2>2 DEF Settled
<1> QED
  BY <1>1, <1>2, <1>3, <1>5, <1>6, <1>7, CarriesPop

LEMMA OthersLine ==
  ASSUME Others
  PROVE  /\ UNCHANGED <<bridge, authoritative, shed>> /\ mixed \subseteq mixed'
         /\ task' = task \/ task' = Idle
         /\ late' = late \/ late' = Idle \/ late' = task
         /\ gap => gap'
         /\ line' = "connected" => gap' \/ line = "connected"
         /\ queue' = queue \/ queue' = <<>>
         /\ line' \in {"never", "connected"} =>
              queue' = <<>> \/ (queue' = queue /\ line \in {"never", "connected"})
         /\ line' = "open" \/ ~gap' => (line = "open" \/ ~gap) /\ queue' = queue
<1>1. CASE Connect
  BY <1>1 DEF Connect, Hands, engines
<1>2. CASE CutLine
  BY <1>2 DEF CutLine, engines
<1>3. CASE TradeRecorded
  BY <1>3 DEF TradeRecorded, RunEngines, link
<1>4. CASE LateRecorded
  BY <1>4 DEF LateRecorded, RunEngines, link
<1>5. CASE EndConnection
  BY <1>5 DEF EndConnection, Disconnected, engines
<1>6. CASE RecordFails
  BY <1>6 DEF RecordFails, Disconnected, engines
<1>7. CASE LateRecordFails
  BY <1>7 DEF LateRecordFails, link, engines
<1>8. CASE Evaluate
  BY <1>8 DEF Evaluate, link, engines
<1>9. CASE FlushForming
  BY <1>9 DEF FlushForming, link, engines
<1>10. CASE NtTrade
  BY <1>10 DEF NtTrade, link, engines
<1>11. CASE UNCHANGED vars
  BY <1>11 DEF vars, link, engines, history, bridge
<1> QED
  BY <1>1, <1>2, <1>3, <1>4, <1>5, <1>6, <1>7, <1>8, <1>9, <1>10, <1>11 DEF Others

LEMMA CarriesOthers ==
  ASSUME Base, LastSent, Others
  PROVE  Grows /\ Carries /\ LastSent'
<1>0. queue \in Seq(Frame) /\ Len(queue) \in Nat
  BY BaseFacts
<1>1. Grows
  BY OthersLine, GrowsBeside
<1>2. /\ total' = total /\ last' = last /\ authoritative' = authoritative /\ shed' = shed
      /\ \A k : Due(k)' <=> Due(k)
  <2>1. total' = total /\ last' = last /\ authoritative' = authoritative /\ shed' = shed
    BY OthersLine DEF bridge
  <2>2. \A k : First(total', k) <=> First(total, k)
    BY <2>1 DEF First
  <2> QED
    BY <2>1, <2>2 DEF Due
<1>3. ASSUME queue' = <<>>, NEW k PROVE ~CloseComes(k)'
  BY <1>3 DEF CloseComes
<1>4. ASSUME queue' = queue, NEW k \in Minutes
      PROVE  Carried(k) /\ (CloseComes(k)' <=> CloseComes(k))
  <2>1. CloseComes(k)' <=> CloseComes(k)
    BY <1>4 DEF CloseComes, Ended
  <2>2. CloseFirst(k) => CloseFirst(k)'
    BY <1>4, OthersLine DEF CloseFirst, NoBarBefore, Ended, IsBar
  <2>3. HandlersUpTo(k) => HandlersUpTo(k)'
    BY OthersLine DEF HandlersUpTo
  <2>4. CloseInTime(k) => CloseInTime(k)'
    BY <1>4, <2>3 DEF CloseInTime, NoneLaterBefore, Ended
  <2> QED
    BY <1>2, <2>1, <2>2, <2>4 DEF Carried
<1>5. \A k \in Minutes : Carried(k) /\ (CloseComes(k)' => CloseComes(k))
  BY <1>3, <1>4, OthersLine DEF Carried
<1>6. Carries
  BY <1>2, <1>5 DEF Carries
<1>7. PICK t : t = last.time
  OBVIOUS
<1>8. SentUpTo(t)'
  <2>1. line' = "connected" => gap'
    BY OthersLine DEF LastSent
  <2>2. ASSUME line' \in {"never", "connected"}, NEW i \in 1 .. Len(queue'), IsBar(queue'[i])
        PROVE  last' # NoMinute /\ \E j \in 1 .. Len(queue') : j >= i /\ Ended(queue'[j], t)
    <3>1. queue' # <<>>
      BY <2>2
    <3>2. queue' = queue /\ line \in {"never", "connected"}
      BY <2>2, <3>1, OthersLine
    <3> QED
      BY <1>2, <1>7, <2>2, <3>2 DEF LastSent
  <2>3. ASSUME line' = "open" \/ ~gap', last' # NoMinute, Due(t)'
        PROVE  CloseComes(t)'
    <3>1. (line = "open" \/ ~gap) /\ queue' = queue
      BY <2>3, OthersLine
    <3>2. CloseComes(t)
      BY <1>2, <1>7, <2>3, <3>1 DEF LastSent
    <3> QED
      BY <3>1, <3>2 DEF CloseComes, Ended
  <2> QED
    BY <2>1, <2>2, <2>3 DEF SentUpTo, Ended, IsBar
<1>9. LastSent'
  BY <1>2, <1>7, <1>8, SentNext
<1> QED
  BY <1>1, <1>6, <1>9

LEMMA CarriesNext ==
  ASSUME Base, LastSent, [Next]_vars
  PROVE  Grows /\ Carries /\ LastSent'
BY CarriesOnTrade, CarriesOnTimestamp, CarriesSendSnapshots, CarriesDropStale,
   CarriesReceiveTrade, CarriesHandleBar, CarriesOthers DEF Next, Others

LEMMA InTimeNext ==
  ASSUME InTime, Carries
  PROVE  InTime'
<1> SUFFICES ASSUME NEW k \in Minutes, Due(k)', CloseComes(k)'
             PROVE  CloseInTime(k)' \/ CloseFirst(k)'
  BY DEF InTime
<1>1. Carried(k)
  BY DEF Carries
<1>2. Due(k) /\ CloseComes(k) => CloseInTime(k) \/ CloseFirst(k)
  BY DEF InTime
<1> QED
  BY <1>1, <1>2 DEF Carried

(* No minute of the bucket becomes trusted in the step. *)
NoneTrusted(b, tf) == \A k \in InBucket(b, tf) : k \in authoritative' => k \in authoritative

LEMMA ExactStays ==
  ASSUME Grows, NEW tf \in Timeframes, NEW b, NEW c, Exact(tf, b, c), NoneTrusted(b, tf)
  PROVE  Exact(tf, b, c)'
<1> SUFFICES ASSUME Traded(b, tf)' \subseteq authoritative', Unspoiled(b, tf)'
             PROVE  c = Counted(b, tf)'
  BY DEF Exact
<1>1. Unspoiled(b, tf)
  BY DEF Unspoiled, Grows
<1>2. ASSUME NEW k \in InBucket(b, tf) PROVE total'[k] = total[k]
  <2>1. k \in Minutes
    BY DEF InBucket
  <2>2. CASE k # now
    BY <2>1, <2>2 DEF Grows
  <2>3. CASE k = now /\ total'[now] # total[now]
    <3>1. total'[k] > 0 /\ k \notin authoritative'
      BY <2>3 DEF Grows
    <3>2. k \in Traded(b, tf)'
      BY <3>1 DEF Traded
    <3> QED
      BY <3>1, <3>2
  <2> QED
    BY <2>2, <2>3
<1>3. Counted(b, tf)' = Counted(b, tf) /\ Traded(b, tf)' = Traded(b, tf)
  BY <1>2, SameCount
<1>4. Traded(b, tf) \subseteq authoritative
  BY <1>3 DEF NoneTrusted, Traded
<1> QED
  BY <1>1, <1>3, <1>4 DEF Exact

(* Minutes of an earlier bucket. *)
LEMMA EarlierSame ==
  ASSUME Base, Grows, NEW tf \in Timeframes, NEW b \in Nat, b < Bucket(now, tf)
  PROVE  /\ Counted(b, tf)' = Counted(b, tf) /\ Traded(b, tf)' = Traded(b, tf)
         /\ \A k \in InBucket(b, tf) : k \in Minutes /\ k \in Nat /\ k < now
         /\ b < Bucket(now', tf)
<1>1. now \in Nat /\ now' \in Nat /\ now <= now'
  BY DEF Grows
<1>2. \A k \in InBucket(b, tf) : k \in Minutes /\ k \in Nat /\ k < now
  BY <1>1, EarlierBucket
<1>3. \A k \in InBucket(b, tf) : total'[k] = total[k]
  BY <1>1, <1>2 DEF Grows
<1>4. tf \in Nat \ {0}
  BY Buckets
<1>5. Bucket(now, tf) \in Nat /\ Bucket(now', tf) \in Nat /\ Bucket(now, tf) <= Bucket(now', tf)
  BY <1>1, <1>4, BucketBelow, BucketGrows
<1>6. b < Bucket(now', tf)
  BY <1>5
<1> QED
  BY <1>2, <1>3, <1>6, SameCount

LEMMA SoundStays ==
  ASSUME Base, Grows, Carries, NEW tf \in Timeframes, NEW u, u.time \in Nat, Sound(tf, u),
         NoneTrusted(u.time, tf)
  PROVE  Sound(tf, u)'
<1>0. PICK b \in Nat : b = u.time
  OBVIOUS
<1>1. Exact(tf, u.time, u.count)'
  <2>1. PICK c : c = u.count
    OBVIOUS
  <2>2. Exact(tf, b, c) /\ NoneTrusted(b, tf)
    BY <1>0, <2>1 DEF Sound
  <2>3. Exact(tf, b, c)'
    BY <2>2, ExactStays
  <2> QED
    BY <1>0, <2>1, <2>3
<1>2. ASSUME u.closed
      PROVE  /\ u.time < Bucket(now', tf)
             /\ \A k \in Traded(u.time, tf)' : Due(k)' /\ CloseComes(k)' => CloseFirst(k)'
  <2>1. b < Bucket(now, tf)
        /\ \A k \in Traded(b, tf) : Due(k) /\ CloseComes(k) => CloseFirst(k)
    BY <1>0, <1>2 DEF Sound
  <2>2. /\ Traded(b, tf)' = Traded(b, tf) /\ b < Bucket(now', tf)
        /\ \A k \in InBucket(b, tf) : k \in Minutes /\ k \in Nat /\ k < now
    BY <2>1, EarlierSame
  <2>3. ASSUME NEW k \in Traded(b, tf), Due(k)', CloseComes(k)'
        PROVE  CloseFirst(k)'
    <3>1. k \in Minutes /\ k \in Nat /\ k < now
      BY <2>2 DEF Traded
    <3>2. Carried(k) /\ k # now
      BY <3>1 DEF Carries, Grows
    <3> QED
      BY <2>1, <2>3, <3>2 DEF Carried
  <2> QED
    BY <1>0, <2>2, <2>3
<1> QED
  BY <1>1, <1>2 DEF Sound

LEMMA LastMinute == Base => (last # NoMinute => last.time \in Nat)
  BY BridgeFacts DEF Base

LEMMA GoodStays ==
  ASSUME Base, Base', Grows, Carries, NEW tf \in Timeframes, NEW b \in Minutes, NEW row,
         GoodRow(tf, b, row)
  PROVE  GoodRow(tf, b, row)'
<1> SUFFICES ASSUME row.by = "bookmap", row.closed
             PROVE  /\ b < Bucket(now', tf)
                    /\ Unspoiled(b, tf)' => \/ row.count = Counted(b, tf)'
                                            \/ \E k \in Traded(b, tf)' \ authoritative' : Settled(k)'
  BY DEF GoodRow
<1>1. /\ b < Bucket(now, tf) /\ b \in Nat
      /\ Unspoiled(b, tf) => \/ row.count = Counted(b, tf)
                             \/ \E k \in Traded(b, tf) \ authoritative : Settled(k)
  BY MinutesAreNat DEF GoodRow
<1>2. /\ Counted(b, tf)' = Counted(b, tf) /\ Traded(b, tf)' = Traded(b, tf)
      /\ \A k \in InBucket(b, tf) : k \in Minutes /\ k \in Nat /\ k < now
      /\ b < Bucket(now', tf)
  BY <1>1, EarlierSame
<1>3. Unspoiled(b, tf)' => Unspoiled(b, tf)
  BY DEF Unspoiled, Grows
<1>4. ASSUME NEW k \in Traded(b, tf) \ authoritative, Settled(k)
      PROVE  k \notin authoritative' /\ Settled(k)'
  <2>1. k \in Minutes /\ k \in Nat /\ k < now
    BY <1>2 DEF Traded
  <2>2. k \notin authoritative'
    BY <1>4, <2>1 DEF Carries
  <2>3. CASE First(total, k)
    <3>1. First(total', k)
      BY <2>1, <2>3 DEF Grows
    <3> QED
      BY <2>2, <3>1 DEF Settled
  <2>4. CASE last # NoMinute /\ k < last.time /\ ~CloseComes(k)
    <3>1. last' # NoMinute /\ last.time <= last'.time /\ ~CloseComes(k)'
      BY <2>1, <2>4 DEF Grows, Carries
    <3>2. last.time \in Nat
      BY <2>4, LastMinute
    <3>3. last'.time \in Nat
      <4>1. Base' => (last # NoMinute => last.time \in Nat)'
        BY LastMinute, PTL
      <4> QED
        BY <3>1, <4>1
    <3>4. k < last'.time
      BY <2>1, <2>4, <3>1, <3>2, <3>3
    <3> QED
      BY <2>2, <3>1, <3>4 DEF Settled
  <2> QED
    BY <1>4, <2>3, <2>4 DEF Settled
<1> QED
  BY <1>1, <1>2, <1>3, <1>4

(* A bar that may be stored makes a good row, once the gap is over. *)
AllGood ==
  \A tf \in Timeframes : \A u :
    UpdateOf(u, now, total) /\ u.tf = tf /\ Sound(tf, u) => GoodRow(tf, u.time, Row(u))

LEMMA SoundIsGood == Base /\ LastSent /\ ~gap => AllGood
<1> SUFFICES ASSUME Base, LastSent, ~gap, NEW tf \in Timeframes, NEW u,
                    UpdateOf(u, now, total), Sound(tf, u)
             PROVE  GoodRow(tf, u.time, Row(u))
  BY DEF AllGood
<1>0. PICK b : b = u.time
  OBVIOUS
<1>1. b \in Minutes /\ b \in Nat /\ now \in Nat
  <2>1. b \in Minutes
    BY <1>0 DEF UpdateOf
  <2> QED
    BY <2>1, MinutesAreNat, BaseFacts
<1>2. Row(u).count = u.count /\ Row(u).closed = u.closed
  BY DEF Row
<1>3. SUFFICES ASSUME u.closed, Unspoiled(b, tf), u.count # Counted(b, tf)
               PROVE  \E k \in Traded(b, tf) \ authoritative : Settled(k)
  BY <1>0, <1>2 DEF GoodRow, Sound
<1>4. b < Bucket(now, tf) /\ ~(Traded(b, tf) \subseteq authoritative)
      /\ \A k \in Traded(b, tf) : Due(k) /\ CloseComes(k) => CloseFirst(k)
  BY <1>0, <1>3 DEF Sound, Exact
<1>5. PICK k \in Traded(b, tf) : k \notin authoritative
  BY <1>4
<1>6. k \in InBucket(b, tf) /\ total[k] > 0 /\ k \notin shed
  BY <1>3 DEF Traded, Unspoiled
<1>7. k \in Minutes /\ k \in Nat /\ k < now
  BY <1>1, <1>4, <1>6, EarlierBucket
<1>8. CASE First(total, k)
  BY <1>5, <1>8 DEF Settled
<1>9. CASE ~First(total, k)
  <2>1. Due(k)
    BY <1>5, <1>6, <1>9 DEF Due
  <2>2. ~CloseComes(k)
    BY <1>4, <2>1 DEF CloseFirst
  <2>3. last # NoMinute
    <3>1. ~First(total, now)
      BY <1>6, <1>7 DEF First
    <3> QED
      BY <3>1, BridgeFacts DEF Base
  <2>4. k <= last.time /\ last.time \in Nat
    BY <1>6, <1>7, <2>3, BridgeFacts DEF Base
  <2>5. k # last.time
    BY <2>1, <2>2, <2>3 DEF LastSent
  <2>6. k < last.time
    BY <1>7, <2>4, <2>5
  <2> QED
    BY <1>5, <2>2, <2>3, <2>6 DEF Settled
<1> QED
  BY <1>8, <1>9

LEMMA EvaluatedBar ==
  ASSUME RowsShape(rows), NEW tf \in Timeframes, NEW m \in Minutes,
         NEW chosen, NEW snaps, NEW deltas
  PROVE  \/ Evaluated(chosen, snaps, deltas).bar[tf][m] = rows.bar[tf][m]
         \/ Stored(Evaluated(chosen, snaps, deltas).bar[tf][m], rows.bar[tf][m],
                   AllOf(snaps), tf, m)
<1> PICK r : r = Evaluated(chosen, snaps, deltas)
  OBVIOUS
<1>1. r = rows \/ r = Seeded(snaps, deltas)
  BY DEF Evaluated
<1>2. r = Seeded(snaps, deltas) => Stored(r.bar[tf][m], rows.bar[tf][m], AllOf(snaps), tf, m)
  <2>1. Seeded(snaps, deltas).bar = StoreBars(rows.bar, AllOf(snaps))
    BY DEF Seeded, AllOf
  <2>2. PICK t : t = rows.bar
    OBVIOUS
  <2>3. PICK U : U = AllOf(snaps)
    OBVIOUS
  <2>4. Stored(StoreBars(t, U)[tf][m], t[tf][m], U, tf, m)
    BY BarsStored
  <2> QED
    BY <2>1, <2>2, <2>3, <2>4
<1> QED
  BY <1>1, <1>2

(* A row stays, is not Bookmap's, or comes from an update in S when the    *)
(* gap is over.                                                            *)
RowFrom(new, old, S, tf, m) ==
  \/ new = old
  \/ new.by # "bookmap"
  \/ ~gap' /\ \E u \in S : u.tf = tf /\ u.time = m /\ new = Row(u)
SoundSet(S) == \A u \in S : UpdateOf(u, now, total) /\ Sound(u.tf, u)
RowsFrom(S) ==
  \A tf \in Timeframes, m \in Minutes : RowFrom(rows'.bar[tf][m], rows.bar[tf][m], S, tf, m)

LEMMA RowsNext ==
  ASSUME CInv, Base', LastSent', Grows, Carries, NEW S, SoundSet(S)', RowsFrom(S)
  PROVE  RowsGood'
<1> SUFFICES ASSUME NEW tf \in Timeframes, NEW m \in Minutes, NEW row, row = rows'.bar[tf][m]
             PROVE  GoodRow(tf, m, row)'
  BY DEF RowsGood
<1>1. RowFrom(row, rows.bar[tf][m], S, tf, m)
  BY DEF RowsFrom
<1>2. CASE row = rows.bar[tf][m]
  <2>1. GoodRow(tf, m, row)
    BY <1>2 DEF CInv, RowsGood
  <2> QED
    BY <2>1, GoodStays DEF CInv
<1>3. CASE row.by # "bookmap"
  BY <1>3 DEF GoodRow
<1>4. ASSUME ~gap', NEW u \in S, u.tf = tf, u.time = m, row = Row(u)
      PROVE  GoodRow(tf, m, row)'
  <2>1. (Base /\ LastSent /\ ~gap => AllGood)'
    BY SoundIsGood, PTL
  <2>2. AllGood'
    BY <1>4, <2>1
  <2>3. UpdateOf(u, now', total') /\ Sound(tf, u)'
    BY <1>4 DEF SoundSet
  <2>4. GoodRow(tf, u.time, Row(u))'
    BY <1>4, <2>2, <2>3 DEF AllGood
  <2> QED
    BY <1>4, <2>4
<1> QED
  BY <1>1, <1>2, <1>3, <1>4 DEF RowFrom

LEMMA RowsStoredFrom ==
  ASSUME RowsShape(rows), NEW chosen, NEW snaps, NEW deltas, NEW U, NEW r,
         r = Evaluated(chosen, snaps, deltas), active' \in BOOLEAN, active' => ~gap',
         ~active' => rows' = rows,
         active' => \A tf \in Timeframes, m \in Minutes :
           Stored(rows'.bar[tf][m], r.bar[tf][m], U, tf, m)
  PROVE  RowsFrom(U \cup AllOf(snaps))
<1> PICK S : S = U \cup AllOf(snaps)
  OBVIOUS
<1> SUFFICES ASSUME NEW tf \in Timeframes, NEW m \in Minutes
             PROVE  RowFrom(rows'.bar[tf][m], rows.bar[tf][m], S, tf, m)
  BY DEF RowsFrom
<1>1. CASE ~active'
  BY <1>1 DEF RowFrom
<1>2. CASE active'
  <2>1. Stored(rows'.bar[tf][m], r.bar[tf][m], U, tf, m) /\ ~gap'
    BY <1>2
  <2>2. r.bar[tf][m] = rows.bar[tf][m] \/ Stored(r.bar[tf][m], rows.bar[tf][m], AllOf(snaps), tf, m)
    BY EvaluatedBar
  <2> DEFINE a == rows'.bar[tf][m]
             b == r.bar[tf][m]
             c == rows.bar[tf][m]
  <2>3. \/ \E u \in U : u.tf = tf /\ u.time = m /\ a = Row(u)
        \/ a = b
    BY <2>1 DEF Stored
  <2>4. \/ \E u \in AllOf(snaps) : u.tf = tf /\ u.time = m /\ b = Row(u)
        \/ b = c
    BY <2>2 DEF Stored
  <2> HIDE DEF a, b, c
  <2>5. RowFrom(a, c, S, tf, m)
    BY <2>1, <2>3, <2>4 DEF RowFrom
  <2> QED
    BY <2>5 DEF a, c
<1> QED
  BY <1>1, <1>2

(* ---------------------- the engines run a trade ------------------------- *)

(* The handler of a trade that the close of its minute is to repair, or    *)
(* that is left aside.                                                     *)
Taints(h) == h.time \notin authoritative \/ h.time \in mixed'

LEMMA TaintedExact ==
  ASSUME NEW t \in Minutes, total'[t] > 0, t \notin authoritative' \/ t \in mixed',
         NEW tf \in Timeframes, NEW b, b = Bucket(t, tf), NEW c
  PROVE  Exact(tf, b, c)'
<1>1. t \in InBucket(b, tf)
  BY DEF InBucket
<1>2. t \in Traded(b, tf)'
  BY <1>1 DEF Traded
<1>3. t \in mixed' => ~Unspoiled(b, tf)'
  BY <1>1 DEF Unspoiled
<1> QED
  BY <1>2, <1>3 DEF Exact

LEMMA SoundRuns ==
  ASSUME CInv, Base', Grows, Carries, UNCHANGED bridge, authoritative' = authoritative,
         NEW h, h.time \in Minutes, h.time \in Nat, h.time <= now, total[h.time] > 0, Taints(h),
         \A k \in Minutes : HandlersUpTo(k) => h.time <= k
  PROVE  \A u \in TradeUpdates(bars, h.time) : UpdateOf(u, now', total') /\ Sound(u.tf, u)'
<1> PICK t : t = h.time
  OBVIOUS
<1>0. /\ now' = now /\ total' = total /\ now \in Nat /\ t \in Minutes /\ t \in Nat /\ t <= now /\ total[t] > 0
      /\ \A tf \in Timeframes : BarOf(bars[tf], tf, now, total)
      /\ t \notin authoritative' \/ t \in mixed'
  BY BaseFacts DEF CInv, Base, EnginesShape, bridge, Taints
<1> SUFFICES ASSUME NEW u \in TradeUpdates(bars, t)
             PROVE  UpdateOf(u, now', total') /\ Sound(u.tf, u)'
  OBVIOUS
<1>1. /\ UpdateOf(u, now, total)
      /\ \/ /\ u.closed /\ bars[u.tf] # NoBar
            /\ u = Update(u.tf, bars[u.tf], TRUE)
            /\ bars[u.tf].time < Bucket(t, u.tf)
         \/ ~u.closed /\ u.time = Bucket(t, u.tf)
  BY <1>0, TradeUpdated
<1>2. PICK tf \in Timeframes : tf = u.tf
  BY <1>1 DEF UpdateOf
<1>3. CASE ~u.closed /\ u.time = Bucket(t, u.tf)
  <2>1. PICK b, c : b = u.time /\ c = u.count
    OBVIOUS
  <2>2. Exact(tf, b, c)'
    BY <1>0, <1>2, <1>3, <2>1, TaintedExact
  <2>3. Exact(tf, u.time, u.count)'
    BY <2>1, <2>2
  <2>4. Sound(tf, u)'
    BY <1>3, <2>3 DEF Sound
  <2> QED
    BY <1>0, <1>1, <1>2, <2>4
<1>4. CASE /\ u.closed /\ bars[u.tf] # NoBar
           /\ u = Update(u.tf, bars[u.tf], TRUE)
           /\ bars[u.tf].time < Bucket(t, u.tf)
  <2>1. PICK b, c : b = u.time /\ c = u.count
    OBVIOUS
  <2>2. bars[tf].time = b /\ bars[tf].count = c /\ bars[tf] # NoBar /\ b < Bucket(t, tf)
    <3>1. u.time = bars[tf].time /\ u.count = bars[tf].count
      BY <1>2, <1>4 DEF Update
    <3> QED
      BY <1>2, <1>4, <2>1, <3>1
  <2>3. b \in Minutes /\ b \in Nat
    <3>1. b \in Minutes
      BY <1>1, <2>1 DEF UpdateOf
    <3> QED
      BY <3>1, MinutesAreNat
  <2>4. Exact(tf, b, c)
    BY <2>2 DEF CInv, BarsExact
  <2>5. Exact(tf, b, c)'
    <3>1. NoneTrusted(b, tf)
      BY DEF NoneTrusted
    <3> QED
      BY <2>4, <3>1, ExactStays
  <2>6. b < Bucket(now, tf)
    <3>1. tf \in Nat \ {0}
      BY Buckets
    <3>2. Bucket(t, tf) \in Nat /\ Bucket(now, tf) \in Nat /\ Bucket(t, tf) <= Bucket(now, tf)
      BY <1>0, <3>1, BucketBelow, BucketGrows
    <3> QED
      BY <2>2, <2>3, <3>2
  <2>7. ASSUME NEW k \in Traded(b, tf)', Due(k)', CloseComes(k)'
        PROVE  CloseFirst(k)'
    <3>1. k \in InBucket(b, tf)
      BY <2>7 DEF Traded
    <3>2. k \in Minutes /\ k \in Nat /\ k < t
      BY <1>0, <2>2, <2>3, <3>1, EarlierBucket
    <3>3. ~HandlersUpTo(k)
      BY <1>0, <3>2
    <3>4. ~CloseInTime(k)
      BY <3>3 DEF CloseInTime
    <3>5. Carried(k) /\ k # now
      BY <1>0, <3>2 DEF Carries
    <3>6. Due(k) /\ CloseComes(k) => CloseFirst(k)
      BY <3>2, <3>4 DEF CInv, InTime
    <3> QED
      BY <2>7, <3>5, <3>6 DEF Carried
  <2>8. Sound(tf, u)'
    <3>1. Exact(tf, u.time, u.count)'
      BY <2>1, <2>5
    <3>2. \A k \in Traded(u.time, tf)' : Due(k)' /\ CloseComes(k)' => CloseFirst(k)'
      BY <2>1, <2>7
    <3>3. u.time < Bucket(now', tf)
      BY <1>0, <2>1, <2>6
    <3> QED
      BY <3>1, <3>2, <3>3 DEF Sound
  <2> QED
    BY <1>0, <1>1, <1>2, <2>8
<1> QED
  BY <1>1, <1>3, <1>4

LEMMA OldSound ==
  ASSUME CInv, Grows, Carries, NEW tf \in Timeframes, NEW u \in snapshots[tf]
  PROVE  /\ u.tf = tf /\ UpdateOf(u, now, total) /\ u.time \in Nat /\ u.time \in Minutes
         /\ NoneTrusted(u.time, tf) => Sound(tf, u)'
<1>1. u.tf = tf /\ UpdateOf(u, now, total)
  BY DEF CInv, Base, EnginesShape
<1>2. u.time \in Minutes
  BY <1>1 DEF UpdateOf
<1>3. u.time \in Nat
  BY <1>2, MinutesAreNat
<1>4. Sound(tf, u)
  BY DEF CInv, SnapsSound
<1>5. NoneTrusted(u.time, tf) => Sound(tf, u)'
  BY <1>3, <1>4, SoundStays DEF CInv
<1> QED
  BY <1>1, <1>2, <1>3, <1>5

LEMMA SnapsRemembered ==
  ASSUME CInv, Grows, Carries, NEW U, snapshots' = Remember(snapshots, U),
         \A u \in U : Sound(u.tf, u)',
         \A tf \in Timeframes : \A u \in snapshots[tf] :
           NoneTrusted(u.time, tf) \/ \E v \in U : v.tf = tf /\ v.time = u.time
  PROVE  SnapsSound'
<1> SUFFICES ASSUME NEW tf \in Timeframes, NEW u \in snapshots'[tf]
             PROVE  Sound(tf, u)'
  BY DEF SnapsSound
<1>1. (u \in U /\ u.tf = tf) \/ (u \in snapshots[tf] /\ ~(\E v \in U : v.tf = tf /\ v.time = u.time))
  BY Remembered
<1>2. CASE u \in U /\ u.tf = tf
  BY <1>2
<1>3. CASE u \in snapshots[tf] /\ ~(\E v \in U : v.tf = tf /\ v.time = u.time)
  BY <1>3, OldSound
<1> QED
  BY <1>1, <1>2, <1>3

(* Steps that leave what is trusted. *)
LEMMA NoneNewlyTrusted ==
  ASSUME authoritative' = authoritative
  PROVE  \A b, tf : NoneTrusted(b, tf)
  BY DEF NoneTrusted

LEMMA EnginesKept ==
  ASSUME CInv, Grows, Carries, authoritative' = authoritative, bars' = bars, snapshots' = snapshots
  PROVE  SnapsSound' /\ BarsExact'
<1>1. \A tf \in Timeframes : \A u \in snapshots'[tf] : Sound(tf, u)'
  BY OldSound, NoneNewlyTrusted
<1>2. ASSUME NEW tf \in Timeframes, NEW b, b = bars'[tf], b # NoBar
      PROVE  Exact(tf, b.time, b.count)'
  <2>1. PICK t, c : t = b.time /\ c = b.count
    OBVIOUS
  <2>2. Exact(tf, t, c)
    BY <1>2, <2>1 DEF CInv, BarsExact
  <2>3. Exact(tf, t, c)'
    BY <2>2, ExactStays, NoneNewlyTrusted
  <2> QED
    BY <2>1, <2>3
<1> QED
  BY <1>1, <1>2 DEF SnapsSound, BarsExact

LEMMA FoldedBar ==
  ASSUME NEW tf \in Timeframes, NEW time \in Minutes, NEW n \in Nat, NEW trades, NEW b,
         time <= n, trades[time] > 0, BarOf(b, tf, n, trades)
  PROVE  Fold(b, time, tf).time = Bucket(time, tf) \/ Fold(b, time, tf) = b
<1>1. time \in Nat /\ tf \in Nat \ {0}
  BY MinutesAreNat, Buckets
<1>2. b.time \in Int /\ Bucket(time, tf) \in Nat
  BY <1>1, BucketBelow, FieldsOfBar
<1>3. /\ Bucket(time, tf) > b.time => Fold(b, time, tf) = [time |-> Bucket(time, tf), count |-> 1]
      /\ Bucket(time, tf) = b.time =>
           Fold(b, time, tf) = [time |-> Bucket(time, tf), count |-> b.count + 1]
      /\ Bucket(time, tf) < b.time => Fold(b, time, tf) = b
  BY FoldsTrade
<1> PICK s : s = Bucket(time, tf)
  OBVIOUS
<1>4. s > b.time => Fold(b, time, tf).time = s
  BY <1>3
<1>5. s = b.time => Fold(b, time, tf).time = s
  BY <1>3
<1> QED
  BY <1>2, <1>3, <1>4, <1>5

LEMMA ClosedRuns ==
  ASSUME CInv, Base', LastSent', Grows, Carries, UNCHANGED bridge,
         NEW h, h.time \in Minutes, h.time \in Nat, h.time <= now, total[h.time] > 0, Taints(h),
         \A k \in Minutes : HandlersUpTo(k) => h.time <= k,
         RanEngines(h, TradeUpdates(bars, h.time), Evaluated(active', snapshots, flow))
  PROVE  SnapsSound' /\ BarsExact' /\ RowsGood'
<1> PICK t : t = h.time
  OBVIOUS
<1> PICK U : U = TradeUpdates(bars, t)
  OBVIOUS
<1> PICK r : r = Evaluated(active', snapshots, flow)
  OBVIOUS
<1>0. /\ t \in Minutes /\ t \in Nat /\ t <= now /\ total[t] > 0 /\ now \in Nat
      /\ now' = now /\ total' = total
      /\ RowsShape(rows) /\ \A tf \in Timeframes : BarOf(bars[tf], tf, now, total)
  BY BaseFacts DEF bridge, CInv, Base, EnginesShape
<1>1. /\ active' \in BOOLEAN /\ (active' => ~gap')
      /\ \A tf \in Timeframes : bars'[tf] = Fold(bars[tf], t, tf)
      /\ snapshots' = Remember(snapshots, U)
      /\ ~active' => rows' = rows
      /\ active' => \A tf \in Timeframes, m \in Minutes :
            Stored(rows'.bar[tf][m], r.bar[tf][m], U, tf, m)
      /\ authoritative' = authoritative
  BY DEF RanEngines
<1>2. \A u \in U : UpdateOf(u, now', total') /\ Sound(u.tf, u)'
  BY <1>1, SoundRuns
<1>3. SnapsSound'
  BY <1>1, <1>2, SnapsRemembered, NoneNewlyTrusted
<1>4. BarsExact'
  <2> SUFFICES ASSUME NEW tf \in Timeframes, NEW b1, b1 = bars'[tf], b1 # NoBar
               PROVE  Exact(tf, b1.time, b1.count)'
    BY DEF BarsExact
  <2>0. PICK b : b = bars[tf]
    OBVIOUS
  <2>1. /\ b1 = Fold(b, t, tf) /\ BarOf(b, tf, now, total)
        /\ t \notin authoritative' \/ t \in mixed'
    BY <1>0, <1>1, <2>0 DEF Taints
  <2>2. b1.time = Bucket(t, tf) \/ b1 = b
    BY <1>0, <2>1, FoldedBar
  <2>3. PICK s, c : s = b1.time /\ c = b1.count
    OBVIOUS
  <2>4. CASE s = Bucket(t, tf)
    <3>1. Exact(tf, s, c)'
      BY <1>0, <2>1, <2>4, TaintedExact
    <3> QED
      BY <2>3, <3>1
  <2>5. CASE b1 = b
    <3>1. Exact(tf, s, c)
      BY <2>0, <2>3, <2>5 DEF CInv, BarsExact
    <3>2. Exact(tf, s, c)'
      BY <1>1, <3>1, ExactStays, NoneNewlyTrusted
    <3> QED
      BY <2>3, <3>2
  <2> QED
    BY <2>2, <2>3, <2>4, <2>5
<1>5. PICK S : S = U \cup AllOf(snapshots)
  OBVIOUS
<1>6. SoundSet(S)'
  <2> SUFFICES ASSUME NEW u \in S
               PROVE  UpdateOf(u, now', total') /\ Sound(u.tf, u)'
    BY DEF SoundSet
  <2>1. CASE u \in U
    BY <1>2, <2>1
  <2>2. CASE u \in AllOf(snapshots)
    <3>1. PICK tf \in Timeframes : u \in snapshots[tf]
      BY <2>2 DEF AllOf
    <3>2. u.tf = tf /\ UpdateOf(u, now, total) /\ Sound(tf, u)'
      BY <1>1, <3>1, OldSound, NoneNewlyTrusted
    <3> QED
      BY <1>0, <3>2
  <2> QED
    BY <1>5, <2>1, <2>2
<1>7. RowsFrom(S)
  BY <1>0, <1>1, <1>5, RowsStoredFrom
<1>8. RowsGood'
  BY <1>6, <1>7, RowsNext
<1> QED
  BY <1>3, <1>4, <1>8

LEMMA ClosedRecorded ==
  ASSUME CInv, Base', LastSent', Grows, Carries, TradeRecorded \/ LateRecorded
  PROVE  SnapsSound' /\ BarsExact' /\ RowsGood'
<1>0. Base
  BY DEF CInv
<1>1. CASE TradeRecorded
  <2>1. PICK h : h = task
    OBVIOUS
  <2>2. h # Idle /\ UNCHANGED bridge
    BY <1>1, <2>1 DEF TradeRecorded
  <2>3. /\ h.time \in Minutes /\ h.time \in Nat /\ h.time <= now /\ total[h.time] > 0
        /\ RanEngines(h, TradeUpdates(bars, h.time), Evaluated(active', snapshots, flow))
    BY <1>0, <1>1, <2>1, BaseTradeRecorded
  <2>4. Taints(h) /\ \A k \in Minutes : HandlersUpTo(k) => h.time <= k
    BY <1>0, <2>1, <2>2 DEF Taints, HandlersUpTo, Base, Handlers
  <2> QED
    BY <2>2, <2>3, <2>4, ClosedRuns
<1>2. CASE LateRecorded
  <2>1. PICK h : h = late
    OBVIOUS
  <2>2. h # Idle /\ UNCHANGED bridge /\ mixed' = mixed \cup {h.time}
    BY <1>2, <2>1 DEF LateRecorded
  <2>3. /\ h.time \in Minutes /\ h.time \in Nat /\ h.time <= now /\ total[h.time] > 0
        /\ RanEngines(h, TradeUpdates(bars, h.time), Evaluated(active', snapshots, flow))
    BY <1>0, <1>2, <2>1, BaseLateRecorded
  <2>4. Taints(h) /\ \A k \in Minutes : HandlersUpTo(k) => h.time <= k
    BY <2>1, <2>2 DEF Taints, HandlersUpTo
  <2> QED
    BY <2>2, <2>3, <2>4, ClosedRuns
<1> QED
  BY <1>1, <1>2

LEMMA SentFields ==
  ASSUME NEW f \in Frame, NEW t \in Nat, NEW trades, f.time <= t, trades[f.time] > 0,
         NEW tf \in Timeframes
  PROVE  /\ UpdateOf(Sent(f, tf), t, trades)
         /\ Sent(f, tf).tf = tf /\ Sent(f, tf).time = Bucket(f.time, tf)
         /\ Sent(f, tf).closed = Ends(f, tf)
         /\ Sent(f, tf).count = Made(f, tf, rows.bar[1]).count
         /\ Sent(f, tf) \in BarUpdates(f)
<1>0. BarUpdates(f) = {Sent(f, s) : s \in Timeframes}
  BY SentUpdates
<1>1. /\ UpdateOf(Sent(f, tf), t, trades)
      /\ Sent(f, tf).tf = tf /\ Sent(f, tf).time = Bucket(f.time, tf)
      /\ Sent(f, tf).closed = Ends(f, tf)
      /\ Sent(f, tf).count = Made(f, tf, rows.bar[1]).count
  BY SentUpdates
<1>2. Sent(f, tf) \in {Sent(f, s) : s \in Timeframes}
  OBVIOUS
<1>3. Sent(f, tf) \in BarUpdates(f)
  BY <1>0, <1>2, Zenon
<1> QED
  BY <1>1, <1>3, Zenon

(* What a bar frame sends is sound: no due close of its bucket comes after *)
(* the bar that ends it.                                                   *)
LEMMA SentSound ==
  ASSUME CInv, Base', Grows, Carries, HandleBar, NEW f, f = queue[1],
         NEW tf \in Timeframes, NEW u, u = Sent(f, tf)
  PROVE  UpdateOf(u, now', total') /\ u.tf = tf /\ u.time = Bucket(f.time, tf) /\ Sound(tf, u)'
<1>1. /\ 1 \in 1 .. Len(queue) /\ f \in Frame
      /\ f.time \in Minutes /\ f.time \in Nat /\ f.time <= now /\ total[f.time] > 0
      /\ FrameInv(f, now, sequence, total, authoritative) /\ IsBar(f)
      /\ HandledBar(f, Evaluated(active', snapshots', flow'))
  BY BaseHandleBar DEF CInv
<1>2. /\ UNCHANGED bridge /\ known' = [known EXCEPT ![f.time] = f.count]
      /\ authoritative' = IF f.closed /\ ~f.partial
                          THEN authoritative \cup {f.time} ELSE authoritative
  BY <1>1 DEF HandledBar
<1>3. now' = now /\ total' = total /\ now \in Nat /\ Len(queue) \in Nat
  BY <1>2, BaseFacts DEF bridge, CInv
<1>4. PICK b, c, e : b = Bucket(f.time, tf) /\ c = Made(f, tf, rows.bar[1]).count /\ e = Ends(f, tf)
  OBVIOUS
<1>5. UpdateOf(u, now, total) /\ u.tf = tf /\ u.time = b /\ u.count = c /\ u.closed = e
  <2>1. /\ UpdateOf(Sent(f, tf), now, total)
        /\ Sent(f, tf).tf = tf /\ Sent(f, tf).time = Bucket(f.time, tf)
        /\ Sent(f, tf).closed = Ends(f, tf)
        /\ Sent(f, tf).count = Made(f, tf, rows.bar[1]).count
    BY <1>1, <1>3, SentFields
  <2> QED
    BY <1>4, <2>1
<1>6. Exact(tf, b, c)'
  <2>1. PICK g \in Frame : g = f
    BY <1>1
  <2>2. Exact(tf, Bucket(g.time, tf), c)'
    BY <1>1, <1>2, <1>4, <2>1, SentExact DEF CInv
  <2> QED
    BY <1>4, <2>1, <2>2
<1>7. b \in Minutes /\ b \in Nat
  <2>1. b \in Minutes
    BY <1>5 DEF UpdateOf
  <2> QED
    BY <2>1, MinutesAreNat
<1>8. ASSUME e
      PROVE  /\ b < Bucket(now, tf)
             /\ \A k \in Traded(b, tf)' : ~(Due(k)' /\ CloseComes(k)')
  <2>1. f.closed /\ Bucket(f.time + 1, tf) > Bucket(f.time, tf)
    BY <1>4, <1>8 DEF Ends
  <2>2. f.time < now
    BY <1>1, <2>1 DEF FrameInv
  <2>3. PICK n \in Nat : n = f.time + 1
    BY <1>1
  <2>4. tf \in Nat \ {0}
    BY Buckets
  <2>5. /\ Bucket(n, tf) \in Nat /\ Bucket(now, tf) \in Nat /\ Bucket(n, tf) <= Bucket(now, tf)
        /\ b < Bucket(n, tf)
    <3>1. n <= now
      BY <1>1, <1>3, <2>2, <2>3
    <3> QED
      BY <1>3, <1>4, <2>1, <2>3, <2>4, <3>1, BucketBelow, BucketGrows
  <2>6. b < Bucket(now, tf)
    BY <1>7, <2>5
  <2>7. ASSUME NEW k \in Traded(b, tf)', Due(k)', CloseComes(k)'
        PROVE  FALSE
    <3>1. k \in InBucket(b, tf)
      BY <2>7 DEF Traded
    <3>2. k \in Minutes /\ k \in Nat /\ k < n
      BY <1>7, <2>3, <2>5, <3>1, EarlierBucket
    <3>3. k < now
      BY <1>1, <1>3, <2>2, <2>3, <3>2
    <3>4. k # f.time
      <4>1. SUFFICES ASSUME k = f.time PROVE ~Due(k)'
        BY <2>7
      <4>2. CASE f.partial
        <5>1. First(total, k)
          BY <1>1, <4>1, <4>2 DEF FrameInv
        <5>2. First(total', k)
          BY <1>3, <5>1 DEF First
        <5> QED
          BY <5>2 DEF Due
      <4>3. CASE ~f.partial
        <5>1. k \in authoritative'
          BY <1>2, <2>1, <4>1, <4>3
        <5> QED
          BY <5>1 DEF Due
      <4> QED
        BY <4>2, <4>3
    <3>5. k < f.time
      BY <1>1, <2>3, <3>2, <3>4
    <3>6. ~Ended(queue[1], k)
      BY <3>4 DEF Ended
    <3>7. ~CloseInTime(k)
      <4> SUFFICES ASSUME NEW i \in 1 .. Len(queue), Ended(queue[i], k), NoneLaterBefore(i, k)
                   PROVE  FALSE
        BY DEF CloseInTime
      <4>1. 1 < i
        BY <1>3, <3>6
      <4>2. f.time <= k
        BY <1>1, <4>1 DEF NoneLaterBefore
      <4> QED
        BY <1>1, <3>2, <3>5, <4>2
    <3>8. ~CloseFirst(k)
      <4> SUFFICES ASSUME NEW i \in 1 .. Len(queue), Ended(queue[i], k), NoBarBefore(i)
                   PROVE  FALSE
        BY DEF CloseFirst
      <4>1. 1 < i
        BY <1>3, <3>6
      <4> QED
        BY <1>1, <4>1 DEF NoBarBefore
    <3>9. Due(k) /\ CloseComes(k)
      <4>1. CloseComes(k)
        <5>1. PICK d, add : d = 1 /\ add = <<>> /\ Comes(d, add)
          BY BaseHandleBar DEF CInv
        <5>2. \A j \in 1 .. Len(add) : FALSE
          BY <5>1
        <5> QED
          BY <2>7, <5>1, <5>2, CloseFrom
      <4>2. Due(k)
        BY <2>7, <3>2, <3>3, DueBefore
      <4> QED
        BY <4>1, <4>2
    <3> QED
      BY <3>2, <3>7, <3>8, <3>9 DEF CInv, InTime
  <2> QED
    BY <2>6, <2>7
<1>9. Sound(tf, u)'
  <2>1. Exact(tf, u.time, u.count)'
    BY <1>5, <1>6
  <2>2. u.closed => /\ u.time < Bucket(now', tf)
                    /\ \A k \in Traded(u.time, tf)' : Due(k)' /\ CloseComes(k)' => CloseFirst(k)'
    BY <1>3, <1>5, <1>8
  <2> QED
    BY <2>1, <2>2 DEF Sound
<1> QED
  BY <1>3, <1>4, <1>5, <1>9

LEMMA ClosedHandleBar ==
  ASSUME CInv, Base', LastSent', Grows, Carries, HandleBar
  PROVE  SnapsSound' /\ BarsExact' /\ RowsGood'
<1> PICK f : f = queue[1]
  OBVIOUS
<1> PICK U : U = BarUpdates(f)
  OBVIOUS
<1> PICK r : r = Evaluated(active', snapshots', flow')
  OBVIOUS
<1>1. /\ f \in Frame /\ f.time \in Minutes /\ f.time \in Nat /\ f.time <= now /\ total[f.time] > 0
      /\ HandledBar(f, r)
  BY BaseHandleBar DEF CInv
<1>2. /\ \A tf \in Timeframes : bars'[tf] = Reconcile(bars[tf], Sent(f, tf))
      /\ authoritative' \subseteq authoritative \cup {f.time}
      /\ snapshots' = Remember(snapshots, U)
      /\ active' \in BOOLEAN /\ (active' => ~gap')
      /\ ~active' => rows' = rows
      /\ active' => \A tf \in Timeframes, m \in Minutes :
            Stored(rows'.bar[tf][m], r.bar[tf][m], U, tf, m)
  BY <1>1 DEF HandledBar
<1>3. now \in Nat /\ RowsShape(rows) /\ \A tf \in Timeframes : BarOf(bars[tf], tf, now, total)
  BY BaseFacts DEF CInv, Base, EnginesShape
<1>4. ASSUME NEW tf \in Timeframes, NEW u, u = Sent(f, tf)
      PROVE  UpdateOf(u, now', total') /\ u.tf = tf /\ u.time = Bucket(f.time, tf) /\ Sound(tf, u)'
  BY <1>4, SentSound
<1>5. U = {Sent(f, tf) : tf \in Timeframes}
  BY <1>1, <1>3, SentUpdates
<1>6. \A u \in U : UpdateOf(u, now', total') /\ Sound(u.tf, u)'
  BY <1>4, <1>5
<1>7. ASSUME NEW tf \in Timeframes, NEW b, b # Bucket(f.time, tf)
      PROVE  NoneTrusted(b, tf)
  BY <1>2, <1>7 DEF NoneTrusted, InBucket
<1>8. SnapsSound'
  <2>1. ASSUME NEW tf \in Timeframes, NEW u \in snapshots[tf]
        PROVE  NoneTrusted(u.time, tf) \/ \E v \in U : v.tf = tf /\ v.time = u.time
    <3>1. PICK b : b = u.time
      OBVIOUS
    <3>2. PICK v : v = Sent(f, tf)
      OBVIOUS
    <3>3. v \in U /\ v.tf = tf /\ v.time = Bucket(f.time, tf)
      BY <1>4, <1>5, <3>2
    <3> QED
      BY <1>7, <3>1, <3>3
  <2> QED
    BY <1>2, <1>6, <2>1, SnapsRemembered
<1>9. BarsExact'
  <2> SUFFICES ASSUME NEW tf \in Timeframes, NEW b1, b1 = bars'[tf], b1 # NoBar
               PROVE  Exact(tf, b1.time, b1.count)'
    BY DEF BarsExact
  <2>0. PICK b : b = bars[tf]
    OBVIOUS
  <2>1. PICK u : u = Sent(f, tf)
    OBVIOUS
  <2>2. PICK s, c : s = b1.time /\ c = b1.count
    OBVIOUS
  <2>3. /\ u.tf = tf /\ u.time = Bucket(f.time, tf) /\ Sound(tf, u)'
        /\ UpdateOf(u, now, total)
    <3>1. UpdateOf(u, now, total)
      BY <1>1, <1>3, <2>1, SentFields
    <3> QED
      BY <1>4, <2>1, <3>1
  <2>4. \/ u.closed /\ b.time <= u.time /\ b1 = NoBar
        \/ ~u.closed /\ b.time <= u.time /\ b1 = [time |-> u.time, count |-> u.count]
        \/ b.time > u.time /\ b1 = b
    <3>1. b1 = Reconcile(b, u) /\ BarOf(b, tf, now, total)
      BY <1>2, <1>3, <2>0, <2>1
    <3> QED
      BY <2>3, <3>1, Reconciled
  <2>5. CASE b1 = [time |-> u.time, count |-> u.count]
    <3>1. s = u.time /\ c = u.count
      BY <2>2, <2>5
    <3>2. Exact(tf, u.time, u.count)'
      BY <2>3 DEF Sound
    <3> QED
      BY <2>2, <3>1, <3>2
  <2>6. CASE b.time > u.time /\ b1 = b
    <3>1. Exact(tf, s, c)
      BY <2>0, <2>2, <2>6 DEF CInv, BarsExact
    <3>2. s # Bucket(f.time, tf)
      <4>1. u.time \in Nat /\ b.time \in Int
        <5>1. u.time \in Minutes
          BY <2>3 DEF UpdateOf
        <5>2. BarOf(b, tf, now, total)
          BY <1>3, <2>0
        <5> QED
          BY <5>1, <5>2, MinutesAreNat, FieldsOfBar
      <4> QED
        BY <2>2, <2>3, <2>6, <4>1
    <3>3. Exact(tf, s, c)'
      BY <1>7, <3>1, <3>2, ExactStays
    <3> QED
      BY <2>2, <3>3
  <2> QED
    BY <2>4, <2>5, <2>6
<1>10. PICK snaps : snaps = snapshots'
  OBVIOUS
<1>11. PICK S : S = U \cup AllOf(snaps)
  OBVIOUS
<1>12. SoundSet(S)'
  <2> SUFFICES ASSUME NEW u \in S
               PROVE  UpdateOf(u, now', total') /\ Sound(u.tf, u)'
    BY DEF SoundSet
  <2>1. CASE u \in U
    BY <1>6, <2>1
  <2>2. CASE u \in AllOf(snaps)
    <3>1. PICK tf \in Timeframes : u \in snaps[tf]
      BY <2>2 DEF AllOf
    <3>2. u.tf = tf /\ UpdateOf(u, now', total')
      BY <1>10, <3>1 DEF Base, EnginesShape
    <3>3. Sound(tf, u)'
      BY <1>8, <1>10, <3>1 DEF SnapsSound
    <3> QED
      BY <3>2, <3>3
  <2> QED
    BY <1>11, <2>1, <2>2
<1>13. RowsFrom(S)
  BY <1>2, <1>3, <1>10, <1>11, RowsStoredFrom
<1>14. RowsGood'
  BY <1>12, <1>13, RowsNext
<1> QED
  BY <1>8, <1>9, <1>14

(* Steps that leave the engines. *)
LEMMA ClosedBeside ==
  ASSUME CInv, Base', LastSent', Grows, Carries, UNCHANGED engines,
         \/ UNCHANGED rows
         \/ Evaluate \/ FlushForming \/ NtTrade
  PROVE  SnapsSound' /\ BarsExact' /\ RowsGood'
<1>0. Base /\ RowsShape(rows) /\ SoundSet({})'
  BY DEF CInv, Base, EnginesShape, SoundSet
<1>1. SnapsSound' /\ BarsExact'
  BY EnginesKept DEF engines
<1>2. CASE UNCHANGED rows
  <2>1. RowsFrom({})
    BY <1>2 DEF RowsFrom, RowFrom
  <2> QED
    BY <1>0, <1>1, <2>1, RowsNext
<1>3. CASE FlushForming
  <2>1. RowsFrom({})
    BY <1>0, <1>3, BaseFlushForming DEF RowsFrom, RowFrom
  <2> QED
    BY <1>0, <1>1, <2>1, RowsNext
<1>4. CASE NtTrade
  <2>1. \A tf \in Timeframes, m \in Minutes :
          rows'.bar[tf][m] = rows.bar[tf][m] \/ rows'.bar[tf][m].by = "nt"
    BY <1>0, <1>4, BaseNtTrade
  <2>2. RowsFrom({})
    BY <2>1 DEF RowsFrom, RowFrom
  <2> QED
    BY <1>0, <1>1, <2>2, RowsNext
<1>5. CASE Evaluate
  <2>1. /\ active' \in BOOLEAN /\ (active' => ~gap') /\ UNCHANGED bridge
        /\ rows' = Evaluated(active', snapshots, flow)
    BY <1>0, <1>5 DEF Evaluate, Base, Handlers
  <2>2. ~active' => rows' = rows
    BY <2>1 DEF Evaluated
  <2>3. PICK r : r = Evaluated(active', snapshots, flow)
    OBVIOUS
  <2>4. \A tf \in Timeframes, m \in Minutes : Stored(rows'.bar[tf][m], r.bar[tf][m], {}, tf, m)
    BY <2>1, <2>3 DEF Stored
  <2>5. PICK S : S = {} \cup AllOf(snapshots)
    OBVIOUS
  <2>6. RowsFrom(S)
    BY <1>0, <2>1, <2>2, <2>3, <2>4, <2>5, RowsStoredFrom
  <2>7. SoundSet(S)'
    <3> SUFFICES ASSUME NEW u \in S
                 PROVE  UpdateOf(u, now', total') /\ Sound(u.tf, u)'
      BY DEF SoundSet
    <3>1. PICK tf \in Timeframes : u \in snapshots[tf]
      BY <2>5 DEF AllOf
    <3>2. u.tf = tf /\ UpdateOf(u, now, total) /\ Sound(tf, u)'
      BY <3>1, OldSound, NoneNewlyTrusted DEF engines
    <3> QED
      BY <2>1, <3>2 DEF bridge
  <2> QED
    BY <1>1, <2>6, <2>7, RowsNext
<1> QED
  BY <1>2, <1>3, <1>4, <1>5

LEMMA ClosedNext ==
  ASSUME CInv, [Next]_vars
  PROVE  CInv'
<1>1. Base' /\ LastSent' /\ Grows /\ Carries
  BY BaseNext, CarriesNext DEF CInv
<1>2. InTime'
  BY <1>1, InTimeNext DEF CInv
<1>3. CASE TradeRecorded \/ LateRecorded
  BY <1>1, <1>2, <1>3, ClosedRecorded DEF CInv
<1>4. CASE HandleBar
  BY <1>1, <1>2, <1>4, ClosedHandleBar DEF CInv
<1>5. CASE \/ OnTrade \/ OnTimestamp \/ DropStale \/ Connect \/ SendSnapshots \/ CutLine
           \/ ReceiveTrade \/ EndConnection \/ RecordFails \/ LateRecordFails
           \/ UNCHANGED vars
  <2>1. UNCHANGED engines /\ UNCHANGED rows
    BY <1>5 DEF OnTrade, OnTimestamp, DropStale, Connect, SendSnapshots, CutLine, ReceiveTrade,
                EndConnection, RecordFails, LateRecordFails, vars
  <2> QED
    BY <1>1, <1>2, <2>1, ClosedBeside DEF CInv
<1>6. CASE Evaluate \/ FlushForming \/ NtTrade
  <2>1. UNCHANGED engines
    BY <1>6 DEF Evaluate, FlushForming, NtTrade
  <2> QED
    BY <1>1, <1>2, <1>6, <2>1, ClosedBeside DEF CInv
<1> QED
  BY <1>3, <1>4, <1>5, <1>6 DEF Next

LEMMA ClosedInit ==
  ASSUME Init
  PROVE  CInv
<1>1. Base
  BY BaseInit
<1>2. /\ queue = <<>> /\ line = "never" /\ last = NoMinute
      /\ bars = [tf \in Timeframes |-> NoBar]
      /\ snapshots = [tf \in Timeframes |-> {}]
      /\ \A tf \in Timeframes, m \in Minutes : rows.bar[tf][m].by = "none"
  BY DEF Init
<1>3. LastSent
  BY <1>2 DEF LastSent
<1>4. InTime
  BY <1>2 DEF InTime, CloseComes
<1>5. SnapsSound /\ BarsExact
  BY <1>2 DEF SnapsSound, BarsExact
<1>6. RowsGood
  BY <1>2 DEF RowsGood, GoodRow
<1> QED
  BY <1>1, <1>3, <1>4, <1>5, <1>6 DEF CInv

LEMMA GoodIsComplete == CInv => ClosedBarsComplete
<1> SUFFICES ASSUME CInv, NEW tf \in Timeframes, NEW m \in Minutes, NEW row, row = rows.bar[tf][m],
                    row.by = "bookmap", row.closed, Traded(m, tf) \subseteq authoritative,
                    Unspoiled(m, tf)
             PROVE  row.count = Counted(m, tf)
  BY DEF ClosedBarsComplete, Unspoiled
<1>1. GoodRow(tf, m, row)
  BY DEF CInv, RowsGood
<1> QED
  BY <1>1 DEF GoodRow

(* A bar stored as closed is complete (on_bookmap_bar, reconcile_bar,      *)
(* _bookmap_rollup_updates): when the backend has the closed bars of all   *)
(* its minutes that traded, it counts each of their trades once, whatever  *)
(* was stale, cut, reconnected or switched before.  The cases left aside   *)
(* are those of ClosedBarsComplete.                                        *)
THEOREM ClosedBars == Spec => []ClosedBarsComplete
<1>1. Init => CInv
  BY ClosedInit
<1>2. CInv /\ [Next]_vars => CInv'
  BY ClosedNext
<1>3. CInv => ClosedBarsComplete
  BY GoodIsComplete
<1> QED
  BY <1>1, <1>2, <1>3, PTL DEF Spec

(* --------------------- who writes the derived rows ---------------------- *)

(* Program points at which a task is in the lock's queue, and the ones it  *)
(* reaches as its holder.                                                  *)
Inside == {"logging", "seeding", "writing"}
Queued == {"enter", "switch"} \cup Inside

Places == {"idle", "closed", "recording", "rebuild", "rebuildPartial"} \cup Queued

TaskState ==
  [at : Places, lag : Nat, target : Sources \cup {None, Stay},
   next : {"engines", "bar", "flush", "forming", "none", "end"},
   atOnce : BOOLEAN]

In(t, q) == \E i \in 1 .. Len(q) : q[i] = t
Once(q) == \A i, j \in 1 .. Len(q) : q[i] = q[j] => i = j

(* The queue of the lock holds exactly the tasks that wait for it or have  *)
(* it, and only its head is past the wait.                                 *)
Serialized ==
  /\ lock \in Seq(Tasks)
  /\ Once(lock)
  /\ \A t \in Tasks : In(t, lock) <=> tasks[t].at \in Queued
  /\ \A t \in Tasks : tasks[t].at \in Inside => Head(lock) = t

LockInv ==
  /\ tasks \in [Tasks -> TaskState]
  /\ activeFeed \in Sources \cup {None}
  /\ Serialized
  /\ \A t \in Tasks :
       /\ tasks[t].at = "writing" => activeFeed = SourceOf(t)
       /\ tasks[t].at = "switch" => tasks[t].target # Stay

-----------------------------------------------------------------------------

(* What joining the queue and leaving it at its head do. *)
LEMMA AppendQueue ==
  ASSUME NEW S, NEW q \in Seq(S), NEW t \in S, Once(q), ~In(t, q)
  PROVE  /\ Append(q, t) \in Seq(S) /\ Once(Append(q, t))
         /\ \A u : In(u, Append(q, t)) <=> In(u, q) \/ u = t
         /\ q # <<>> => Head(Append(q, t)) = Head(q)
<1> DEFINE r == Append(q, t)
<1>1. /\ r \in Seq(S) /\ Len(q) \in Nat /\ Len(r) = Len(q) + 1
      /\ \A i \in 1 .. Len(q) : r[i] = q[i]
      /\ r[Len(r)] = t
  BY AppendProperties, LenProperties
<1> HIDE DEF r
<1>2. Once(r)
  <2> SUFFICES ASSUME NEW i \in 1 .. Len(r), NEW j \in 1 .. Len(r), r[i] = r[j]
               PROVE  i = j
    BY DEF Once
  <2>1. i \in 1 .. Len(q) \/ i = Len(r)
    BY <1>1
  <2>2. j \in 1 .. Len(q) \/ j = Len(r)
    BY <1>1
  <2> QED
    BY <1>1, <2>1, <2>2 DEF Once, In
<1>3. ASSUME NEW u PROVE In(u, r) <=> In(u, q) \/ u = t
  <2>1. \A i \in 1 .. Len(r) : i \in 1 .. Len(q) \/ i = Len(r)
    BY <1>1
  <2>2. /\ 1 .. Len(q) \subseteq 1 .. Len(r)
        /\ Len(r) \in 1 .. Len(r)
    BY <1>1
  <2> QED
    BY <1>1, <2>1, <2>2 DEF In
<1>4. ASSUME q # <<>> PROVE Head(r) = Head(q)
  <2>1. Len(q) > 0 /\ Head(q) = q[1]
    BY <1>4, HeadTailProperties, EmptySeq
  <2>2. r # <<>> /\ 1 \in 1 .. Len(q)
    BY <1>1, <2>1, EmptySeq
  <2>3. Head(r) = r[1]
    BY <1>1, <2>2, HeadTailProperties
  <2> QED
    BY <1>1, <2>1, <2>2, <2>3
<1> QED
  BY <1>1, <1>2, <1>3, <1>4 DEF r

LEMMA TailQueue ==
  ASSUME NEW S, NEW q \in Seq(S), q # <<>>, Once(q)
  PROVE  /\ Tail(q) \in Seq(S) /\ Once(Tail(q))
         /\ In(Head(q), q) /\ Head(q) \in S
         /\ \A u : In(u, Tail(q)) <=> In(u, q) /\ u # Head(q)
<1> DEFINE r == Tail(q)
<1>1. /\ r \in Seq(S) /\ Head(q) \in S /\ Head(q) = q[1]
      /\ Len(q) \in Nat \ {0} /\ Len(r) = Len(q) - 1
      /\ \A i \in 1 .. Len(r) : r[i] = q[i + 1]
  BY HeadTailProperties, EmptySeq, LenProperties
<1> HIDE DEF r
<1>2. \A i \in 1 .. Len(r) : i + 1 \in 1 .. Len(q) /\ i + 1 # 1
  BY <1>1
<1>3. 1 \in 1 .. Len(q)
  BY <1>1
<1>4. Once(r)
  BY <1>1, <1>2 DEF Once
<1>5. In(Head(q), q)
  BY <1>1, <1>3 DEF In
<1>6. ASSUME NEW u PROVE In(u, r) <=> In(u, q) /\ u # Head(q)
  <2>1. ASSUME In(u, r) PROVE In(u, q) /\ u # Head(q)
    BY <1>1, <1>2, <1>3, <2>1 DEF In, Once
  <2>2. ASSUME In(u, q), u # Head(q) PROVE In(u, r)
    <3>1. PICK i \in 1 .. Len(q) : q[i] = u
      BY <2>2 DEF In
    <3>2. i - 1 \in 1 .. Len(r) /\ i - 1 + 1 = i
      BY <1>1, <2>2, <3>1
    <3> QED
      BY <1>1, <3>1, <3>2 DEF In
  <2> QED
    BY <2>1, <2>2
<1> QED
  BY <1>1, <1>4, <1>5, <1>6 DEF r

-----------------------------------------------------------------------------

(* What a task leaves behind: it is in r, and queues again or does not.    *)
Left(t, waiting) ==
  \E r \in TaskState :
    /\ tasks' = [tasks EXCEPT ![t] = r]
    /\ r.at = "switch" => r.target # Stay
    /\ \/ lock' = Append(waiting, t) /\ r.at \in {"enter", "switch"}
       \/ lock' = waiting /\ r.at \notin Queued

(* A task outside the queue, or the holder that gives the lock up. *)
Leaves(t, waiting) ==
  \/ waiting = lock /\ tasks[t].at \notin Queued
  \/ lock # <<>> /\ Head(lock) = t /\ waiting = Tail(lock)

LEMMA LeavingKeepsInvariant ==
  ASSUME LockInv, NEW t \in Tasks, NEW waiting, Leaves(t, waiting), Left(t, waiting),
         activeFeed' = activeFeed
  PROVE  LockInv'
<1>1. PICK r \in TaskState :
        /\ tasks' = [tasks EXCEPT ![t] = r]
        /\ r.at = "switch" => r.target # Stay
        /\ \/ lock' = Append(waiting, t) /\ r.at \in {"enter", "switch"}
           \/ lock' = waiting /\ r.at \notin Queued
  BY DEF Left
<1>2. /\ tasks' \in [Tasks -> TaskState]
      /\ tasks'[t] = r
      /\ \A u \in Tasks \ {t} : tasks'[u] = tasks[u]
  BY <1>1 DEF LockInv
<1>3. /\ waiting \in Seq(Tasks) /\ Once(waiting)
      /\ \A u \in Tasks : In(u, waiting) <=> u # t /\ In(u, lock)
  <2>1. CASE waiting = lock /\ tasks[t].at \notin Queued
    BY <2>1 DEF LockInv, Serialized
  <2>2. CASE lock # <<>> /\ Head(lock) = t /\ waiting = Tail(lock)
    BY <2>2, TailQueue DEF LockInv, Serialized
  <2> QED
    BY <2>1, <2>2 DEF Leaves
<1>4. /\ lock' \in Seq(Tasks) /\ Once(lock')
      /\ \A u \in Tasks \ {t} : In(u, lock') <=> In(u, lock)
      /\ In(t, lock') <=> r.at \in Queued
  <2>1. CASE lock' = Append(waiting, t) /\ r.at \in {"enter", "switch"}
    BY <1>3, <2>1, AppendQueue DEF Queued
  <2>2. CASE lock' = waiting /\ r.at \notin Queued
    BY <1>3, <2>2
  <2> QED
    BY <1>1, <2>1, <2>2
<1>5. r.at \notin Inside
  BY <1>1 DEF Inside, Queued
<1>6. ASSUME NEW u \in Tasks, tasks'[u].at \in Inside PROVE Head(lock') = u
  <2>1. u # t /\ tasks[u].at \in Inside
    BY <1>2, <1>5, <1>6
  <2>2. Head(lock) = u /\ In(u, lock)
    BY <2>1 DEF LockInv, Serialized, Queued
  <2>3. waiting = lock /\ lock # <<>>
    <3>1. lock # <<>>
      BY <2>2, LenProperties, EmptySeq DEF In, LockInv, Serialized
    <3> QED
      BY <2>1, <2>2, <3>1 DEF Leaves
  <2>4. ~In(t, waiting)
    BY <1>3
  <2> QED
    BY <1>1, <1>3, <2>2, <2>3, <2>4, AppendQueue
<1>7. ASSUME NEW u \in Tasks
      PROVE  /\ tasks'[u].at = "writing" => activeFeed' = SourceOf(u)
             /\ tasks'[u].at = "switch" => tasks'[u].target # Stay
  BY <1>1, <1>2, <1>5 DEF LockInv, Inside
<1> QED
  BY <1>2, <1>4, <1>6, <1>7 DEF LockInv, Serialized

(* The holder goes on under the lock. *)
LEMMA ReachKeepsInvariant ==
  ASSUME LockInv, NEW t \in Tasks, NEW at \in Inside, Reach(t, at),
         lock # <<>>, Head(lock) = t,
         activeFeed' \in Sources \cup {None},
         at = "writing" => activeFeed' = SourceOf(t)
  PROVE  LockInv'
<1>1. /\ tasks' = [tasks EXCEPT ![t] = [@ EXCEPT !.at = at, !.atOnce = FALSE]]
      /\ lock' = lock
  BY DEF Reach
<1>2. tasks[t] \in TaskState /\ at \in Places
  <2>1. tasks[t] \in TaskState
    BY DEF LockInv
  <2>2. at \in Places
    BY DEF Inside, Places, Queued
  <2> QED
    BY <2>1, <2>2
<1>3. /\ tasks' \in [Tasks -> TaskState]
      /\ tasks'[t].at = at
      /\ \A u \in Tasks \ {t} : tasks'[u] = tasks[u]
  BY <1>1, <1>2 DEF LockInv, TaskState
<1>4. In(t, lock)
  BY TailQueue DEF LockInv, Serialized
<1>5. ASSUME NEW u \in Tasks PROVE In(u, lock) <=> tasks'[u].at \in Queued
  BY <1>3, <1>4 DEF LockInv, Serialized, Queued
<1>6. ASSUME NEW u \in Tasks, tasks'[u].at \in Inside PROVE u = t
  BY <1>3, <1>6 DEF LockInv, Serialized
<1>7. ASSUME NEW u \in Tasks
      PROVE  /\ tasks'[u].at = "writing" => activeFeed' = SourceOf(u)
             /\ tasks'[u].at = "switch" => tasks'[u].target # Stay
  BY <1>3, <1>6 DEF LockInv, Inside
<1> QED
  BY <1>1, <1>3, <1>5, <1>6, <1>7 DEF LockInv, Serialized

-----------------------------------------------------------------------------

(* The ways a handler goes on all leave it in one of the two places. *)
LEMMA QueueLeaves ==
  ASSUME LockInv, NEW t \in Tasks, NEW waiting, NEW rest, Queue(t, "enter", rest, waiting),
         rest \in {"engines", "bar", "flush", "forming", "none", "end"}
  PROVE  Left(t, waiting)
<1> DEFINE r == [tasks[t] EXCEPT !.at = "enter", !.next = rest,
                                !.atOnce = (waiting = <<>>)]
<1>1. tasks[t] \in TaskState
  BY DEF LockInv
<1>2. r \in TaskState /\ r.at = "enter"
  <2>1. (waiting = <<>>) \in BOOLEAN /\ "enter" \in Places
    BY DEF Places, Queued
  <2> QED
    BY <1>1, <2>1 DEF TaskState
<1> QED
  BY <1>2 DEF Left, Queue

LEMMA RestLeaves ==
  ASSUME LockInv, NEW t \in Tasks, NEW waiting, NEW state \in {AtRest, Closed},
         Rest(t, state, waiting)
  PROVE  Left(t, waiting)
<1>1. AtRest \in TaskState /\ AtRest.at = "idle"
  BY DEF AtRest, TaskState, Places, Stay, None, Sources
<1>2. Closed \in TaskState /\ Closed.at = "closed"
  BY <1>1 DEF Closed, TaskState, Places
<1>3. state \in TaskState /\ state.at \notin Queued
  BY <1>1, <1>2 DEF Queued, Inside
<1> QED
  BY <1>3 DEF Left, Rest, Queued

LEMMA ContinueLeaves ==
  ASSUME LockInv, NEW t \in Tasks, NEW waiting, NEW feed, NEW rest,
         rest \in {"engines", "bar", "flush", "forming", "none", "end"},
         Continue(t, rest, feed, waiting)
  PROVE  Left(t, waiting)
<1>1. \/ \E x \in {"forming", "none"} : Queue(t, "enter", x, waiting)
      \/ \E state \in {AtRest, Closed} : Rest(t, state, waiting)
  BY DEF Continue
<1> QED
  BY <1>1, QueueLeaves, RestLeaves

LEMMA DecisionTarget ==
  ASSUME ArbitrationAssumption, activeFeed \in Sources \cup {None}, NEW n, NEW b, NEW lag
  PROVE  Decision(n, b, lag) \in Sources \cup {None, Stay}
<1>1. Preferred \in Sources /\ activeFeed \in {"nt", "bookmap", None}
  BY DEF ArbitrationAssumption, Sources
<1> QED
  BY <1>1 DEF Decision, Sources, None, Stay

LEMMA EvaluateLeaves ==
  ASSUME ArbitrationAssumption, LockInv, NEW t \in Tasks, NEW n, NEW b,
         NEW lag \in Nat, NEW waiting, NEW rest,
         rest \in {"engines", "bar", "flush", "forming", "none", "end"},
         EvaluateSourceSelection(t, n, b, lag, rest, waiting)
  PROVE  Left(t, waiting)
<1> DEFINE target == Decision(n, b, lag)
<1>1. target \in Sources \cup {None, Stay}
  BY DecisionTarget DEF LockInv
<1>2. CASE target = Stay
  BY <1>2, ContinueLeaves DEF EvaluateSourceSelection
<1>3. CASE target # Stay
  <2> DEFINE r == [at |-> "switch", lag |-> lag, target |-> target,
                   next |-> rest, atOnce |-> (waiting = <<>>)]
  <2>1. r \in TaskState /\ r.at = "switch" /\ r.target = target
    <3>1. (waiting = <<>>) \in BOOLEAN /\ "switch" \in Places
      BY DEF Places, Queued
    <3> QED
      BY <1>1, <3>1 DEF TaskState
  <2>2. tasks' = [tasks EXCEPT ![t] = r] /\ lock' = Append(waiting, t)
    BY <1>3 DEF EvaluateSourceSelection
  <2> QED
    BY <1>3, <2>1, <2>2 DEF Left
<1> QED
  BY <1>2, <1>3

LEMMA AwaitLeaves ==
  ASSUME LockInv, NEW t \in Tasks, NEW at \in {"recording", "rebuild", "rebuildPartial"},
         Await(t, at), UNCHANGED lock
  PROVE  Left(t, lock)
<1> DEFINE r == [AtRest EXCEPT !.at = at]
<1>1. r \in TaskState /\ r.at \notin Queued
  BY DEF AtRest, TaskState, Places, Queued, Inside, Stay, Sources, None
<1> QED
  BY <1>1 DEF Left, Await, Queued

-----------------------------------------------------------------------------

LEMMA TasksOfTheLoop == "ntTask" \in Tasks /\ "loop" \in Tasks /\ Connections \subseteq Tasks
  BY DEF Tasks

(* The end of a connection, from outside the queue or as its holder. *)
LEMMA EndLeaves ==
  ASSUME ArbitrationAssumption, LockInv, NEW c \in Connections, NEW waiting,
         EndBookmapConnection(c, waiting)
  PROVE  Left(c, waiting)
<1>1. c \in Tasks
  BY TasksOfTheLoop
<1>2. CASE generation = c
  <2>1. PICK b : EvaluateSourceSelection(c, nt, b, 0, "end", waiting)
    BY <1>2 DEF EndBookmapConnection
  <2> QED
    BY <1>1, <2>1, EvaluateLeaves
<1>3. CASE generation # c
  BY <1>1, <1>3, RestLeaves DEF EndBookmapConnection
<1> QED
  BY <1>2, <1>3

LEMMA InvInit == ArbitrationAssumption /\ ArbitrationInit => LockInv
<1> SUFFICES ASSUME ArbitrationAssumption, ArbitrationInit PROVE LockInv
  OBVIOUS
<1>1. AtRest \in TaskState /\ AtRest.at = "idle"
  BY DEF AtRest, TaskState, Places, Stay, None, Sources
<1>2. Closed \in TaskState /\ Closed.at = "closed"
  BY <1>1 DEF Closed, TaskState, Places
<1>3. /\ tasks \in [Tasks -> TaskState]
      /\ \A t \in Tasks : tasks[t].at \notin Queued
  BY <1>1, <1>2 DEF ArbitrationInit, Queued, Inside
<1>4. lock \in Seq(Tasks) /\ Once(lock) /\ \A t \in Tasks : ~In(t, lock)
  BY DEF ArbitrationInit, Once, In
<1>5. activeFeed \in Sources \cup {None}
  BY DEF ArbitrationInit, Sources
<1>6. \A t \in Tasks :
        tasks[t].at \notin Inside /\ tasks[t].at \notin {"writing", "switch"}
  BY <1>3 DEF Queued, Inside
<1> QED
  BY <1>3, <1>4, <1>5, <1>6 DEF LockInv, Serialized

(* One step per action: the handlers outside the queue, ... *)
LEMMA FrameStep ==
  ASSUME ArbitrationAssumption, LockInv, NEW c \in Connections, BookmapFrame(c)
  PROVE  LockInv'
<1>1. c \in Tasks
  BY TasksOfTheLoop
<1>2. /\ activeFeed' = activeFeed
      /\ tasks[c].at \notin Queued
      /\ Left(c, lock)
  <2>1. CASE OnBookmapHeartbeat(c)
    <3>1. PICK b : EvaluateSourceSelection(c, nt, b, 0, "none", lock)
      BY <2>1 DEF OnBookmapHeartbeat
    <3> QED
      BY <1>1, <2>1, <3>1, EvaluateLeaves
      DEF OnBookmapHeartbeat, Listens, Queued, Inside
  <2>2. CASE OnBookmapTrade(c)
    BY <1>1, <2>2, AwaitLeaves DEF OnBookmapTrade, Listens, Queued, Inside
  <2>3. CASE OnBookmapBar(c)
    <3>1. PICK partial \in BOOLEAN :
            \/ \E b : EvaluateSourceSelection(c, nt, b, 0, "none", lock)
            \/ \E b : EvaluateSourceSelection(c, nt, b, 0, "bar", lock)
            \/ /\ Await(c, IF partial THEN "rebuildPartial" ELSE "rebuild")
               /\ UNCHANGED lock
      BY <2>3, Zenon DEF OnBookmapBar
    <3>2. Left(c, lock)
      BY <1>1, <3>1, EvaluateLeaves, AwaitLeaves
    <3> QED
      BY <2>3, <3>2 DEF OnBookmapBar, Listens, Queued, Inside
  <2>4. CASE OnBookmapDisconnect(c)
    BY <2>4, EndLeaves DEF OnBookmapDisconnect, Queued, Inside
  <2>5. CASE OnBookmapConnect(c)
    <3>1. Rest(c, AtRest, lock)
      BY <2>5 DEF OnBookmapConnect, Rest
    <3> QED
      BY <1>1, <2>5, <3>1, RestLeaves DEF OnBookmapConnect, Queued, Inside
  <2> QED
    BY <2>1, <2>2, <2>3, <2>4, <2>5 DEF BookmapFrame
<1>3. Leaves(c, lock)
  BY <1>2 DEF Leaves
<1> QED
  BY <1>1, <1>2, <1>3, LeavingKeepsInvariant

LEMMA RecordedStep ==
  ASSUME ArbitrationAssumption, LockInv, NEW c \in Connections,
         BookmapTradeRecorded(c) \/ BookmapBarRebuilt(c)
  PROVE  LockInv'
<1>1. c \in Tasks
  BY TasksOfTheLoop
<1>2. tasks[c].lag \in Nat
  BY <1>1 DEF LockInv, TaskState
<1>3. /\ activeFeed' = activeFeed
      /\ tasks[c].at \notin Queued
      /\ Left(c, lock)
  <2>1. CASE BookmapTradeRecorded(c)
    <3>1. \/ Rest(c, AtRest, lock)
          \/ \E b : EvaluateSourceSelection(c, nt, b, tasks[c].lag, "engines", lock)
      BY <2>1 DEF BookmapTradeRecorded
    <3>2. Left(c, lock)
      BY <1>1, <1>2, <3>1, EvaluateLeaves, RestLeaves
    <3> QED
      BY <2>1, <3>2 DEF BookmapTradeRecorded, Queued, Inside
  <2>2. CASE BookmapBarRebuilt(c)
    <3>1. PICK b : EvaluateSourceSelection(c, nt, b, tasks[c].lag, "bar", lock)
      BY <2>2 DEF BookmapBarRebuilt
    <3>2. Left(c, lock)
      BY <1>1, <1>2, <3>1, EvaluateLeaves
    <3> QED
      BY <2>2, <3>2 DEF BookmapBarRebuilt, Queued, Inside
  <2> QED
    BY <2>1, <2>2
<1> QED
  BY <1>1, <1>3, LeavingKeepsInvariant DEF Leaves

LEMMA OtherTasksStep ==
  ASSUME ArbitrationAssumption, LockInv,
         OnNtTrade \/ OnNtHeartbeat \/ OnNtDisconnected \/ MaintenanceTick
  PROVE  LockInv'
<1>1. CASE OnNtTrade
  <2>1. Left("ntTask", lock)
    BY <1>1, TasksOfTheLoop, RestLeaves, QueueLeaves DEF OnNtTrade
  <2>2. Leaves("ntTask", lock) /\ activeFeed' = activeFeed
    BY <1>1 DEF OnNtTrade, Leaves, Queued, Inside
  <2> QED
    BY <2>1, <2>2, TasksOfTheLoop, LeavingKeepsInvariant
<1>2. CASE OnNtHeartbeat \/ OnNtDisconnected
  BY <1>2 DEF OnNtHeartbeat, OnNtDisconnected, LockInv, Serialized
<1>3. CASE MaintenanceTick
  <2>1. PICK n, b : EvaluateSourceSelection("loop", n, b, 0, "flush", lock)
    BY <1>3 DEF MaintenanceTick
  <2>2. Left("loop", lock)
    BY <2>1, TasksOfTheLoop, EvaluateLeaves
  <2>3. Leaves("loop", lock) /\ activeFeed' = activeFeed
    BY <1>3 DEF MaintenanceTick, Leaves, Queued, Inside
  <2> QED
    BY <2>2, <2>3, TasksOfTheLoop, LeavingKeepsInvariant
<1> QED
  BY <1>1, <1>2, <1>3

(* ... the holder of the lock, ... *)
LEMMA LockStep ==
  ASSUME ArbitrationAssumption, LockInv, NEW t \in Tasks,
         Enter(t) \/ SwitchFeed(t) \/ SwitchLogged(t) \/ Written(t) \/ WriteRaises(t)
  PROVE  LockInv'
<1> USE DEF Holds
<1>0. tasks[t].next \in {"engines", "bar", "flush", "forming", "none", "end"}
  BY DEF LockInv, TaskState
<1>1. ASSUME NEW feed, Continue(t, tasks[t].next, feed, Tail(lock)),
             lock # <<>>, Head(lock) = t, activeFeed' = activeFeed
      PROVE  LockInv'
  <2>1. Left(t, Tail(lock))
    BY <1>0, <1>1, ContinueLeaves
  <2> QED
    BY <1>1, <2>1, LeavingKeepsInvariant DEF Leaves
<1>2. CASE Enter(t)
  <2>1. CASE activeFeed = SourceOf(t)
    <3>1. Reach(t, "writing")
      BY <1>2, <2>1 DEF Enter
    <3> QED
      BY <1>2, <2>1, <3>1, ReachKeepsInvariant DEF Enter, Inside, LockInv
  <2>2. CASE activeFeed # SourceOf(t)
    BY <1>1, <1>2, <2>2 DEF Enter
  <2> QED
    BY <2>1, <2>2
<1>3. CASE SwitchFeed(t)
  <2>1. CASE activeFeed = tasks[t].target
    BY <1>1, <1>3, <2>1 DEF SwitchFeed
  <2>2. CASE activeFeed # tasks[t].target
    <3>1. activeFeed' = tasks[t].target /\ Reach(t, "logging")
      BY <1>3, <2>2 DEF SwitchFeed
    <3>2. activeFeed' \in Sources \cup {None}
      BY <1>3, <3>1 DEF SwitchFeed, LockInv, TaskState
    <3> QED
      BY <1>3, <3>1, <3>2, ReachKeepsInvariant DEF SwitchFeed, Inside
  <2> QED
    BY <2>1, <2>2
<1>4. CASE SwitchLogged(t)
  <2>1. CASE activeFeed = None
    BY <1>1, <1>4, <2>1 DEF SwitchLogged
  <2>2. CASE activeFeed # None
    <3>1. Reach(t, "seeding")
      BY <1>4, <2>2 DEF SwitchLogged
    <3> QED
      BY <1>4, <3>1, ReachKeepsInvariant DEF SwitchLogged, Inside, LockInv
  <2> QED
    BY <2>1, <2>2
<1>5. CASE Written(t)
  BY <1>1, <1>5 DEF Written
<1>6. CASE WriteRaises(t)
  <2>1. Left(t, Tail(lock))
    <3>1. CASE t \in Connections
      BY <1>6, <3>1, EndLeaves DEF WriteRaises
    <3>2. CASE t \notin Connections
      BY <1>6, <3>2, RestLeaves DEF WriteRaises
    <3> QED
      BY <3>1, <3>2
  <2> QED
    BY <1>6, <2>1, LeavingKeepsInvariant DEF WriteRaises, Leaves
<1> QED
  BY <1>2, <1>3, <1>4, <1>5, <1>6

(* ... and time. *)
LEMMA TickStep ==
  ASSUME LockInv, Tick
  PROVE  LockInv'
<1>1. tasks' = [t \in Tasks |->
                IF Busy(t) THEN [tasks[t] EXCEPT !.lag = @ + 1] ELSE tasks[t]]
  BY DEF Tick
<1>2. ASSUME NEW t \in Tasks
      PROVE  /\ tasks'[t] \in TaskState
             /\ tasks'[t].at = tasks[t].at /\ tasks'[t].target = tasks[t].target
  BY <1>1 DEF LockInv, TaskState
<1>3. tasks' \in [Tasks -> TaskState]
  BY <1>1, <1>2
<1>4. lock' = lock /\ activeFeed' = activeFeed
  BY DEF Tick
<1> QED
  BY <1>2, <1>3, <1>4 DEF LockInv, Serialized

LEMMA InvNext == ArbitrationAssumption /\ LockInv /\ [ArbitrationNext]_arbitrationVars => LockInv'
<1> SUFFICES ASSUME ArbitrationAssumption, LockInv, [ArbitrationNext]_arbitrationVars PROVE LockInv'
  OBVIOUS
<1>1. CASE AtOnce
  BY <1>1, LockStep DEF AtOnce
<1>2. CASE Yielded
  <2>1. CASE \E c \in Connections : BookmapFrame(c)
    BY <2>1, FrameStep
  <2>2. CASE \E t \in Tasks : Resume(t) \/ WriteRaises(t)
    BY <2>2, LockStep, RecordedStep DEF Resume
  <2>3. CASE OnNtTrade \/ OnNtHeartbeat \/ OnNtDisconnected \/ MaintenanceTick
    BY <2>3, OtherTasksStep
  <2>4. CASE Tick
    BY <2>4, TickStep
  <2> QED
    BY <1>2, <2>1, <2>2, <2>3, <2>4 DEF Yielded
<1>3. CASE UNCHANGED arbitrationVars
  BY <1>3 DEF arbitrationVars, LockInv, Serialized
<1> QED
  BY <1>1, <1>2, <1>3 DEF ArbitrationNext

(* The lock of the derived rows (_derived_source_lock): however handlers,  *)
(* the maintenance loop and feed switches interleave, one task is past the *)
(* wait, and while it writes rows the chart shows its source.              *)
THEOREM OneWriterOfItsSource ==
  ASSUME ArbitrationAssumption
  PROVE  ArbitrationSpec => []OnlyActiveSourceWrites
<1>1. ArbitrationInit => LockInv
  BY InvInit
<1>2. LockInv /\ [ArbitrationNext]_arbitrationVars => LockInv'
  BY InvNext
<1>3. LockInv => OnlyActiveSourceWrites
  <2> SUFFICES ASSUME LockInv, NEW t \in Tasks, tasks[t].at \in Inside
               PROVE  /\ \A other \in Tasks \ {t} : tasks[other].at \notin Inside
                      /\ tasks[t].at = "writing" => activeFeed = SourceOf(t)
    BY DEF OnlyActiveSourceWrites, Inside
  <2> QED
    BY DEF LockInv, Serialized
<1> QED
  BY <1>1, <1>2, <1>3, PTL DEF ArbitrationSpec
===============================================================================
