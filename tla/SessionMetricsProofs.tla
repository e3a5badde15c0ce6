------------------------- MODULE SessionMetricsProofs -------------------------
(***************************************************************************)
(* Theorems about SessionMetrics, for every capacity of the ring, every     *)
(* keyboard, interval and size.  The inductive invariant leaves the         *)
(* buffer's times untyped: only TypeOK needs that the estimate that tunes   *)
(* them, a sum over the ring, is a number.                                  *)
(***************************************************************************)
EXTENDS SessionMetrics, FoldLemmas

Byte == [kind : Kinds]

Sample == [id : Nat, rtt : Nat, of : 1..MaxSessions, at : 1..MaxSessions]

\* What is known of the type of a buffer.
IsBuffer(b) ==
    /\ DOMAIN b = {"data", "carry", "deadline", "interval", "passthrough",
                   "binary", "adaptive"}
    /\ b.data \in Seq(Byte) /\ b.carry \in Seq(Byte)

MetricsType ==
    metrics \in [samples : Seq(Nat), sent : Nat, flushes : Nat, saved : Nat,
                 hits : Nat, misses : Nat, depth : Nat]

LoopType ==
    /\ phase \in Phases
    /\ IsBuffer(buf)
    /\ chunk \in Seq(Byte)
    /\ (phase = "select" => chunk = << >>)
    /\ (phase = "write" => chunk # << >>)
    /\ session \in 1..MaxSessions
    /\ typed \in Nat /\ dropped \in Nat

FlushType ==
    /\ lastFlush \subseteq Flush
    /\ guesses \in Seq(Flush)
    /\ taken \in Seq(Sample)

\* A flush that may still be measured was not, and belongs to this session.
Measurable(f) ==
    f.session = session /\ \A i \in 1..Len(taken) : taken[i].id # f.id

\* The number of the last flush that began.
Begun == IF phase = "select" THEN metrics.flushes ELSE metrics.flushes + 1

OpenInv ==
    /\ \A f \in lastFlush : Measurable(f) /\ f.id <= metrics.flushes
    /\ \A i \in 1..Len(guesses) :
        /\ Measurable(guesses[i])
        /\ guesses[i].id <= Begun
        /\ \A j \in 1..Len(guesses) : i < j => guesses[i].id < guesses[j].id
    /\ \A i \in 1..Len(taken) : taken[i].id <= metrics.flushes

IInv ==
    /\ LoopType /\ MetricsType /\ FlushType
    /\ OpenInv
    /\ RingKeepsLatest /\ SamplesGenuine /\ BytesAccounted /\ IntervalTuned

-----------------------------------------------------------------------------
\* The operators of the buffer.

\* push adds one byte, and what is flushed after it is not empty.
LEMMA PushAddsOne ==
    ASSUME NEW b, IsBuffer(b), NEW k \in Byte
    PROVE  LET p == Push(b, k)
           IN  /\ IsBuffer(p)
               /\ Len(p.data) + Len(p.carry) = Len(b.data) + Len(b.carry) + 1
               /\ p.interval = b.interval /\ p.adaptive = b.adaptive
               /\ FlushAfterPush(p, k) => p.data # << >>
<1> USE DEF IsBuffer
<1> DEFINE joined == Append(b.carry, k)
<1>1. joined \in Seq(Byte) /\ Len(joined) = Len(b.carry) + 1 /\ joined[Len(joined)] = k
  OBVIOUS
<1>2. CASE Bypasses(b)
  <2>1. /\ Append(b.data, k) \in Seq(Byte)
        /\ Len(Append(b.data, k)) = Len(b.data) + 1
        /\ Append(b.data, k) # << >>
    OBVIOUS
  <2> QED
    BY <1>2, <2>1 DEF Push, PushRaw
<1>3. CASE ~Bypasses(b) /\ IsPartial(joined)
  <2>1. Push(b, k) = [b EXCEPT !.carry = joined]
    BY <1>3 DEF Push, PushCooked
  <2>2. ~IsImmediate(k)
    BY <1>1, <1>3 DEF IsPartial, IsImmediate, Leads
  <2>3. FlushAfterPush(Push(b, k), k) => Push(b, k).data # << >>
    BY <2>2 DEF FlushAfterPush, ShouldFlush
  <2> DEFINE p == [b EXCEPT !.carry = joined]
  <2>4. /\ IsBuffer(p) /\ p.data = b.data /\ p.carry = joined
        /\ p.interval = b.interval /\ p.adaptive = b.adaptive
    BY <1>1
  <2>5. Len(p.data) + Len(p.carry) = Len(b.data) + Len(b.carry) + 1
    <3>1. Len(b.data) \in Nat /\ Len(b.carry) \in Nat
      BY LenProperties
    <3> HIDE DEF joined, p
    <3> QED
      BY <1>1, <2>4, <3>1
  <2> HIDE DEF joined, p
  <2> QED
    BY <2>1, <2>3, <2>4, <2>5 DEF p
<1>4. CASE ~Bypasses(b) /\ ~IsPartial(joined)
  <2>1. Push(b, k) = [b EXCEPT !.data = b.data \o joined,
                               !.carry = << >>,
                               !.deadline = IF b.data = << >> /\ b.carry = << >>
                                            THEN b.interval ELSE @]
    BY <1>4 DEF Push, PushCooked
  <2>2. /\ b.data \o joined \in Seq(Byte)
        /\ Len(b.data \o joined) = Len(b.data) + Len(b.carry) + 1
    BY <1>1, ConcatProperties
  <2>3. b.data \o joined # << >> /\ << >> \in Seq(Byte) /\ Len(<< >>) = 0
    BY <2>2
  <2> HIDE DEF joined
  <2> QED
    BY <2>1, <2>2, <2>3
<1> QED
  BY <1>2, <1>3, <1>4

\* The other operators keep the bytes, but for take.
LEMMA OperatorsKeep ==
    ASSUME NEW b, IsBuffer(b)
    PROVE  /\ IsBuffer(Take(b)) /\ Take(b).data = << >> /\ Take(b).carry = b.carry
           /\ Take(b).interval = b.interval /\ Take(b).adaptive = b.adaptive
           /\ \A e : LET s == SetPassthrough(b, e)
                     IN  /\ IsBuffer(s) /\ s.data = b.data /\ s.carry = b.carry
                         /\ s.interval = b.interval /\ s.adaptive = b.adaptive
           /\ \A rtt : LET s == SetAdaptiveInterval(b, rtt)
                       IN  /\ IsBuffer(s) /\ s.data = b.data /\ s.carry = b.carry
                           /\ s.adaptive = b.adaptive
                           /\ s.interval = IF b.adaptive THEN AdaptiveInterval(rtt)
                                           ELSE b.interval
           /\ \A d : LET s == Age(b, d)
                     IN  /\ IsBuffer(s) /\ s.data = b.data /\ s.carry = b.carry
                         /\ s.interval = b.interval /\ s.adaptive = b.adaptive
<1> USE DEF IsBuffer
<1>1. << >> \in Seq(Byte)
  OBVIOUS
<1>2. /\ IsBuffer(Take(b)) /\ Take(b).data = << >> /\ Take(b).carry = b.carry
      /\ Take(b).interval = b.interval /\ Take(b).adaptive = b.adaptive
  BY <1>1 DEF Take
<1>3. ASSUME NEW e
      PROVE  LET s == SetPassthrough(b, e)
             IN  /\ IsBuffer(s) /\ s.data = b.data /\ s.carry = b.carry
                 /\ s.interval = b.interval /\ s.adaptive = b.adaptive
  BY DEF SetPassthrough
<1>4. ASSUME NEW rtt
      PROVE  LET s == SetAdaptiveInterval(b, rtt)
             IN  /\ IsBuffer(s) /\ s.data = b.data /\ s.carry = b.carry
                 /\ s.adaptive = b.adaptive
                 /\ s.interval = IF b.adaptive THEN AdaptiveInterval(rtt)
                                 ELSE b.interval
  BY DEF SetAdaptiveInterval
<1>5. ASSUME NEW d
      PROVE  LET s == Age(b, d)
             IN  /\ IsBuffer(s) /\ s.data = b.data /\ s.carry = b.carry
                 /\ s.interval = b.interval /\ s.adaptive = b.adaptive
  BY DEF Age
<1> QED
  BY <1>2, <1>3, <1>4, <1>5

-----------------------------------------------------------------------------
\* One round trip is recorded.

\* The ring stays the end of all round trips when one more is recorded.
LEMMA RingStep ==
    ASSUME NEW rtt \in Nat, NEW sample \in Sample, sample.rtt = rtt,
           metrics.samples \in Seq(Nat), taken \in Seq(Sample), RingKeepsLatest,
           metrics'.samples = Append(Evicted(metrics.samples), rtt),
           taken' = Append(taken, sample)
    PROVE  RingKeepsLatest' /\ metrics'.samples \in Seq(Nat)
<1> DEFINE ring == metrics.samples
<1>1. RttCapacity \in Nat /\ RttCapacity > 0
  BY CapacityAssumption
<1>2. /\ Len(taken') = Len(taken) + 1
      /\ taken'[Len(taken) + 1].rtt = rtt
      /\ \A i \in 1..Len(taken) : taken'[i] = taken[i]
  OBVIOUS
<1>3. /\ Evicted(ring) \in Seq(Nat)
      /\ Len(Evicted(ring)) = IF Len(ring) = RttCapacity THEN Len(ring) - 1
                                                        ELSE Len(ring)
      /\ \A i \in 1..Len(Evicted(ring)) :
            Evicted(ring)[i] = taken[Len(taken) - Len(Evicted(ring)) + i].rtt
  <2>1. CASE Len(ring) = RttCapacity
    <3>1. ring # << >>
      BY <1>1, <2>1, EmptySeq
    <3>2. /\ Tail(ring) \in Seq(Nat) /\ Len(Tail(ring)) = Len(ring) - 1
          /\ \A i \in 1..Len(Tail(ring)) : Tail(ring)[i] = ring[i+1]
      BY <3>1, HeadTailProperties
    <3>3. ASSUME NEW i \in 1..Len(Tail(ring))
          PROVE  Tail(ring)[i] = taken[Len(taken) - Len(Tail(ring)) + i].rtt
      <4> DEFINE n == Len(ring)  all == Len(taken)  rest == Len(Tail(ring))
      <4>1. n \in Nat /\ all \in Nat /\ rest = n - 1 /\ i \in 1..rest
        BY <3>2, LenProperties
      <4>2. i + 1 \in 1..n /\ all - n + (i + 1) = all - rest + i
        <5> HIDE DEF n, all, rest
        <5> QED
          BY <4>1
      <4>3. ring[i+1] = taken[Len(taken) - Len(ring) + (i + 1)].rtt
        BY <4>2 DEF RingKeepsLatest
      <4> QED
        BY <3>2, <4>2, <4>3
    <3> QED
      BY <2>1, <3>2, <3>3 DEF Evicted
  <2>2. CASE Len(ring) # RttCapacity
    BY <2>2 DEF Evicted, RingKeepsLatest
  <2> QED
    BY <2>1, <2>2
<1> DEFINE kept == Evicted(ring)
<1>4. /\ metrics'.samples \in Seq(Nat)
      /\ Len(metrics'.samples) = Len(kept) + 1
      /\ metrics'.samples[Len(kept) + 1] = rtt
      /\ \A i \in 1..Len(kept) : metrics'.samples[i] = kept[i]
  <2> HIDE DEF kept
  <2> QED
    BY <1>3 DEF kept
<1>5. Len(kept) \in Nat /\ Len(ring) \in Nat /\ Len(taken) \in Nat
  BY <1>3, LenProperties
<1>6. Len(ring) = IF Len(taken) < RttCapacity THEN Len(taken) ELSE RttCapacity
  BY DEF RingKeepsLatest
<1>7. Len(kept) + 1 = IF Len(taken) + 1 < RttCapacity THEN Len(taken) + 1
                                                    ELSE RttCapacity
  BY <1>1, <1>3, <1>5, <1>6
<1>8. ASSUME NEW i \in 1..Len(kept) + 1
      PROVE  metrics'.samples[i] = taken'[Len(taken') - (Len(kept) + 1) + i].rtt
  <2>1. CASE i = Len(kept) + 1
    BY <1>2, <1>4, <1>5, <2>1
  <2>2. CASE i \in 1..Len(kept)
    <3>1. /\ Len(taken) - Len(kept) + i \in 1..Len(taken)
          /\ Len(taken') - (Len(kept) + 1) + i = Len(taken) - Len(kept) + i
      BY <1>1, <1>2, <1>5, <1>7, <2>2
    <3> QED
      BY <1>2, <1>3, <1>4, <2>2, <3>1
  <2>3. \/ i = Len(kept) + 1
        \/ i \in 1..Len(kept)
    <3> HIDE DEF kept
    <3> QED
      BY <1>5
  <2> QED
    BY <2>1, <2>2, <2>3
<1>9. Len(taken') = Len(taken) + 1 /\ Len(metrics'.samples) = Len(kept) + 1
  BY <1>2, <1>4
<1> HIDE DEF kept
<1> QED
  BY <1>4, <1>7, <1>8, <1>9 DEF RingKeepsLatest

\* Measure records one flush, by whichever of the three ways, and tunes the
\* buffer.
LEMMA MeasureStep ==
    ASSUME IInv, phase = "select", NEW f \in Flush, Measurable(f),
           f.id <= metrics.flushes,
           NEW b, IsBuffer(b), b.data = buf.data, b.carry = buf.carry,
           b.interval = buf.interval, b.adaptive = buf.adaptive,
           NEW m \in {RecordRtt(metrics, f.age), RecordHit(metrics, f.age),
                      RecordMiss(metrics, f.age)},
           Measure(f, m, b), UNCHANGED <<phase, chunk, stream>>
    PROVE  /\ LoopType' /\ MetricsType'
           /\ RingKeepsLatest' /\ SamplesGenuine' /\ BytesAccounted' /\ IntervalTuned'
           /\ metrics'.flushes = metrics.flushes
           /\ taken' \in Seq(Sample) /\ Len(taken') = Len(taken) + 1
           /\ taken'[Len(taken) + 1].id = f.id
           /\ \A i \in 1..Len(taken) : taken'[i] = taken[i]
<1> DEFINE sample == [id |-> f.id, rtt |-> f.age, of |-> f.session, at |-> session]
<1> USE DEF IInv
<1>1. /\ metrics' = m
      /\ buf' = SetAdaptiveInterval(b, RttEstimate(m))
      /\ taken' = Append(taken, sample)
      /\ lastFlush' = {}
  BY DEF Measure
<1>2. sample \in Sample /\ sample.rtt = f.age /\ f.age \in Nat
  BY DEF Sample, Flush, LoopType
<1>3. /\ metrics'.samples = Append(Evicted(metrics.samples), f.age)
      /\ metrics'.sent = metrics.sent /\ metrics'.flushes = metrics.flushes
      /\ metrics'.saved = metrics.saved
  BY <1>1 DEF MetricsType, RecordRtt, RecordHit, RecordMiss
<1>4. RingKeepsLatest' /\ metrics'.samples \in Seq(Nat)
  <2> HIDE DEF sample
  <2> QED
    BY <1>1, <1>2, <1>3, RingStep DEF MetricsType, FlushType
<1>5. MetricsType'
  <2>1. m.samples \in Seq(Nat) /\ metrics.hits + 1 \in Nat /\ metrics.misses + 1 \in Nat
    BY <1>1, <1>4 DEF MetricsType
  <2>2. \E hits, misses \in Nat :
            m = [samples |-> m.samples, sent |-> metrics.sent,
                 flushes |-> metrics.flushes, saved |-> metrics.saved,
                 hits |-> hits, misses |-> misses, depth |-> metrics.depth]
    <3>1. CASE m = RecordRtt(metrics, f.age)
      BY <2>1, <3>1 DEF MetricsType, RecordRtt
    <3>2. CASE m = RecordHit(metrics, f.age)
      BY <2>1, <3>2 DEF MetricsType, RecordHit
    <3>3. CASE m = RecordMiss(metrics, f.age)
      BY <2>1, <3>3 DEF MetricsType, RecordMiss
    <3> QED
      BY <3>1, <3>2, <3>3
  <2>3. m \in [samples : Seq(Nat), sent : Nat, flushes : Nat, saved : Nat,
               hits : Nat, misses : Nat, depth : Nat]
    BY <2>1, <2>2 DEF MetricsType
  <2> QED
    BY <1>1, <2>3 DEF MetricsType
<1>6. /\ taken' \in Seq(Sample) /\ Len(taken') = Len(taken) + 1
      /\ taken'[Len(taken) + 1] = sample
      /\ \A i \in 1..Len(taken) : taken'[i] = taken[i]
  <2> HIDE DEF sample
  <2> QED
    BY <1>1, <1>2 DEF FlushType
<1>7. /\ IsBuffer(buf') /\ buf'.data = buf.data /\ buf'.carry = buf.carry
      /\ buf'.adaptive = b.adaptive
      /\ buf'.interval = IF b.adaptive THEN AdaptiveInterval(RttEstimate(metrics'))
                         ELSE buf.interval
  BY <1>1, OperatorsKeep
<1>8. LoopType'
  BY <1>7 DEF LoopType, stream
<1>9. BytesAccounted'
  BY <1>3, <1>7 DEF BytesAccounted, stream
<1>10. SamplesGenuine'
  <2>1. f.session = session /\ \A i \in 1..Len(taken) : taken[i].id # f.id
    BY DEF Measurable
  <2>2. \A i \in 1..Len(taken') : taken'[i].of = taken'[i].at
    BY <1>6, <2>1 DEF SamplesGenuine, FlushType
  <2>3. \A i, j \in 1..Len(taken') : taken'[i].id = taken'[j].id => i = j
    BY <1>6, <2>1 DEF SamplesGenuine, FlushType
  <2> QED
    BY <2>2, <2>3 DEF SamplesGenuine
<1>11. IntervalTuned'
  <2>1. taken' # << >>
    BY <1>6, EmptySeq, LenProperties DEF FlushType
  <2> QED
    BY <1>7, <2>1 DEF IntervalTuned
<1> QED
  BY <1>3, <1>4, <1>5, <1>6, <1>8, <1>9, <1>10, <1>11

-----------------------------------------------------------------------------
\* No round trip is recorded.

\* What is said of the measured round trips stays true while there is no more.
LEMMA NothingMeasured ==
    ASSUME IInv, UNCHANGED taken, metrics'.samples = metrics.samples,
           buf'.interval = buf.interval, buf'.adaptive = buf.adaptive
    PROVE  RingKeepsLatest' /\ SamplesGenuine' /\ IntervalTuned'
<1> USE DEF IInv
<1>1. RingKeepsLatest'
  BY DEF RingKeepsLatest
<1>2. SamplesGenuine'
  BY DEF SamplesGenuine
<1>3. RttEstimate(metrics') = RttEstimate(metrics)
  BY DEF RttEstimate
<1>4. IntervalTuned'
  BY <1>3 DEF IntervalTuned
<1> QED
  BY <1>1, <1>2, <1>4

\* A flush begins with at least one byte, and its guess is the newest.
LEMMA BeginFlushStep ==
    ASSUME IInv, phase = "select", MetricsType',
           metrics'.samples = metrics.samples, metrics'.sent = metrics.sent,
           metrics'.flushes = metrics.flushes, metrics'.saved = metrics.saved,
           NEW b, IsBuffer(b), b.data # << >>,
           b.interval = buf.interval, b.adaptive = buf.adaptive,
           typed' \in Nat,
           typed' + Len(buf.data) + Len(buf.carry)
               = typed + Len(b.data) + Len(b.carry),
           BeginFlush(b), UNCHANGED <<lastFlush, session, dropped, taken>>
    PROVE  IInv'
<1> USE DEF IInv
<1>1. /\ IsBuffer(buf') /\ buf'.data = << >> /\ buf'.carry = b.carry
      /\ buf'.interval = buf.interval /\ buf'.adaptive = buf.adaptive
      /\ chunk' = b.data /\ phase' = "write"
  BY OperatorsKeep DEF BeginFlush
<1>2. b.data \in Seq(Byte) /\ b.carry \in Seq(Byte)
  BY DEF IsBuffer
<1>3. LoopType'
  BY <1>1, <1>2 DEF LoopType, Phases
<1>4. BytesAccounted'
  <2>1. chunk = << >> /\ Len(chunk) = 0 /\ Len(buf'.data) = 0
    BY <1>1, EmptySeq DEF LoopType
  <2>2. /\ Len(b.data) \in Nat /\ Len(b.carry) \in Nat
        /\ Len(buf.data) \in Nat /\ Len(buf.carry) \in Nat
    BY <1>2, LenProperties DEF LoopType, IsBuffer
  <2>3. typed = metrics.sent + Len(buf.data) + Len(buf.carry) + dropped
    BY <2>1, <2>2 DEF BytesAccounted, MetricsType, LoopType
  <2>4. typed' = metrics.sent + Len(b.data) + Len(b.carry) + dropped
    <3> DEFINE n == Len(b.data)  c == Len(b.carry)  bn == Len(buf.data)
               bc == Len(buf.carry)
    <3>1. /\ typed \in Nat /\ typed' \in Nat /\ metrics.sent \in Nat /\ dropped \in Nat
          /\ n \in Nat /\ c \in Nat /\ bn \in Nat /\ bc \in Nat
      BY <2>2 DEF LoopType, MetricsType
    <3>2. typed' + bn + bc = typed + n + c /\ typed = metrics.sent + bn + bc + dropped
      BY <2>3
    <3>3. typed' = metrics.sent + n + c + dropped
      <4> HIDE DEF n, c, bn, bc
      <4> QED
        BY ONLY <3>1, <3>2
    <3> QED
      BY <3>3
  <2>5. typed' = metrics'.sent + Len(chunk') + Len(buf'.data) + Len(buf'.carry)
                 + dropped'
    <3>1. /\ metrics'.sent = metrics.sent /\ Len(chunk') = Len(b.data)
          /\ Len(buf'.data) = 0 /\ buf'.carry = b.carry /\ dropped' = dropped
      BY <1>1, <2>1
    <3>2. /\ metrics.sent \in Nat /\ Len(b.data) \in Nat /\ Len(b.carry) \in Nat
          /\ dropped \in Nat
      BY <2>2 DEF LoopType, MetricsType
    <3> QED
      BY <2>4, <3>1, <3>2
  <2> QED
    BY <2>5 DEF BytesAccounted
<1>5. FlushType' /\ OpenInv'
  <2> DEFINE flush == [id |-> metrics.flushes + 1, age |-> 0, session |-> session]
  <2>1. /\ metrics.flushes \in Nat /\ Begun = metrics.flushes
        /\ Begun' = metrics.flushes + 1
    BY <1>1 DEF Begun, MetricsType
  <2>2. flush \in Flush
    BY <2>1 DEF Flush, LoopType
  <2>3. /\ \A i \in 1..Len(taken) : taken[i] \in Sample
        /\ \A i \in 1..Len(guesses) : guesses[i] \in Flush
    BY ElementOfSeq DEF FlushType
  <2>4. /\ \A i \in 1..Len(taken) : taken[i].id \in Nat
        /\ \A i \in 1..Len(guesses) : guesses[i].id \in Nat
    BY <2>3 DEF Sample, Flush
  <2>5. flush.id = metrics.flushes + 1 /\ Measurable(flush)
    BY <2>1, <2>4 DEF OpenInv, Measurable
  <2>6. CASE guesses' = guesses
    <3>1. \A i \in 1..Len(guesses) : guesses[i].id <= Begun'
      BY <2>1, <2>4 DEF OpenInv
    <3>2. OpenInv'
      BY <2>6, <3>1 DEF OpenInv, Measurable
    <3> QED
      BY <2>6, <3>2 DEF FlushType
  <2>7. CASE guesses' = Append(guesses, flush)
    <3> HIDE DEF flush
    <3>1. /\ guesses' \in Seq(Flush) /\ Len(guesses') = Len(guesses) + 1
          /\ guesses'[Len(guesses) + 1] = flush
          /\ \A i \in 1..Len(guesses) : guesses'[i] = guesses[i]
      BY <2>2, <2>7 DEF FlushType
    <3>2. /\ Len(guesses) \in Nat
          /\ \A i : i \in 1..Len(guesses') <=>
                    i \in 1..Len(guesses) \/ i = Len(guesses) + 1
      BY <3>1, LenProperties DEF FlushType
    <3>3. \A i \in 1..Len(guesses') :
            Measurable(guesses'[i]) /\ guesses'[i].id <= Begun'
      <4>1. \A i \in 1..Len(guesses) :
                Measurable(guesses'[i]) /\ guesses'[i].id <= Begun'
        <5>1. \A i \in 1..Len(guesses) :
                  /\ Measurable(guesses[i]) /\ guesses[i].id <= metrics.flushes
          BY <2>1 DEF OpenInv
        <5>2. \A i \in 1..Len(guesses) : guesses[i].id <= Begun'
          BY <2>1, <2>4, <5>1
        <5> QED
          BY <3>1, <5>1, <5>2
      <4>2. Measurable(guesses'[Len(guesses) + 1])
            /\ guesses'[Len(guesses) + 1].id <= Begun'
        <5>1. flush.id <= Begun'
          BY <2>1, <2>5
        <5> QED
          BY <2>5, <3>1, <5>1
      <4> QED
        BY <3>2, <4>1, <4>2
    <3>4. ASSUME NEW i \in 1..Len(guesses'), NEW j \in 1..Len(guesses'), i < j
          PROVE  guesses'[i].id < guesses'[j].id
      <4>1. i \in 1..Len(guesses)
        BY <3>1, <3>2, <3>4
      <4>2. CASE j \in 1..Len(guesses)
        BY <3>1, <3>4, <4>1, <4>2 DEF OpenInv
      <4>3. CASE j = Len(guesses) + 1
        BY <2>1, <2>4, <2>5, <3>1, <4>1, <4>3 DEF OpenInv
      <4> QED
        BY <3>2, <4>2, <4>3
    <3>5. /\ \A f \in lastFlush' : Measurable(f) /\ f.id <= metrics'.flushes
          /\ \A i \in 1..Len(taken') : taken'[i].id <= metrics'.flushes
      BY DEF OpenInv
    <3>6. OpenInv'
      BY <3>3, <3>4, <3>5 DEF OpenInv, Measurable
    <3> QED
      BY <3>1, <3>6 DEF FlushType
  <2> QED
    BY <2>6, <2>7 DEF BeginFlush
<1>6. RingKeepsLatest' /\ SamplesGenuine' /\ IntervalTuned'
  BY <1>1, NothingMeasured
<1> QED
  BY <1>3, <1>4, <1>5, <1>6

\* The bytes are where they were and no flush begins or ends.
LEMMA QuietStep ==
    ASSUME IInv, LoopType', FlushType', MetricsType',
           UNCHANGED <<phase, chunk, session, taken>>,
           metrics'.samples = metrics.samples, metrics'.sent = metrics.sent,
           metrics'.flushes = metrics.flushes, metrics'.saved = metrics.saved,
           buf'.interval = buf.interval, buf'.adaptive = buf.adaptive,
           (typed' + Len(buf.data) + Len(buf.carry)) + dropped
               = (typed + Len(buf'.data) + Len(buf'.carry)) + dropped',
           \A f \in lastFlush' : \E g \in lastFlush : g.id = f.id /\ g.session = f.session,
           guesses' = << >> \/
              /\ Len(guesses') = Len(guesses)
              /\ \A i \in 1..Len(guesses) : /\ guesses'[i].id = guesses[i].id
                                            /\ guesses'[i].session = guesses[i].session
    PROVE  IInv'
<1> USE DEF IInv
<1>1. RingKeepsLatest' /\ SamplesGenuine' /\ IntervalTuned'
  BY NothingMeasured
<1>2. OpenInv'
  BY DEF OpenInv, Measurable, Begun
<1>3. BytesAccounted'
  <2> DEFINE n == Len(buf'.data)  c == Len(buf'.carry)  bn == Len(buf.data)
             bc == Len(buf.carry)  w == Len(chunk)  m == metrics.sent
             t == typed  u == typed'  d == dropped  e == dropped'
  <2>1. /\ t \in Nat /\ u \in Nat /\ m \in Nat /\ d \in Nat /\ e \in Nat
        /\ n \in Nat /\ c \in Nat /\ bn \in Nat /\ bc \in Nat /\ w \in Nat
    BY LenProperties DEF LoopType, IsBuffer, MetricsType
  <2>2. (u + bn + bc) + d = (t + n + c) + e /\ t = m + w + bn + bc + d
    BY DEF BytesAccounted
  <2>3. u = m + w + n + c + e
    <3> HIDE DEF n, c, bn, bc, w, m, t, u, d, e
    <3> QED
      BY ONLY <2>1, <2>2
  <2> QED
    BY <2>3 DEF BytesAccounted
<1> QED
  BY <1>1, <1>2, <1>3

LEMMA ReadKeyStep == ASSUME IInv, NEW kind \in Keys, ReadKey(kind) PROVE IInv'
<1> USE DEF IInv
<1> DEFINE k == [kind |-> kind]  b == Push(buf, k)
<1>1. k \in Byte /\ IsBuffer(buf) /\ phase = "select"
  BY KeysAssumption DEF LoopType, ReadKey, Byte
<1>2. /\ IsBuffer(b) /\ Len(b.data) + Len(b.carry) = Len(buf.data) + Len(buf.carry) + 1
      /\ b.interval = buf.interval /\ b.adaptive = buf.adaptive
      /\ FlushAfterPush(b, k) => b.data # << >>
  <2> HIDE DEF k
  <2> QED
    BY <1>1, PushAddsOne
<1>3. /\ Len(b.data) \in Nat /\ Len(b.carry) \in Nat
      /\ Len(buf.data) \in Nat /\ Len(buf.carry) \in Nat
  BY <1>1, <1>2, LenProperties DEF IsBuffer
<1>4. /\ typed' = typed + 1 /\ typed' \in Nat
      /\ metrics' = [metrics EXCEPT !.depth = Len(b.data)]
      /\ UNCHANGED <<lastFlush, session, dropped, taken>>
  BY DEF ReadKey, SetBufferDepth, LoopType
<1>5. MetricsType' /\ metrics'.samples = metrics.samples
      /\ metrics'.sent = metrics.sent /\ metrics'.flushes = metrics.flushes
      /\ metrics'.saved = metrics.saved
  <2> HIDE DEF b
  <2> QED
    BY <1>3, <1>4 DEF MetricsType
<1>6. typed' + Len(buf.data) + Len(buf.carry) = typed + Len(b.data) + Len(b.carry)
  <2> DEFINE n == Len(b.data)  c == Len(b.carry)  bn == Len(buf.data)
             bc == Len(buf.carry)
  <2>1. /\ typed \in Nat /\ n \in Nat /\ c \in Nat /\ bn \in Nat /\ bc \in Nat
        /\ typed' = typed + 1 /\ n + c = bn + bc + 1
    BY <1>2, <1>3, <1>4 DEF LoopType
  <2>2. typed' + bn + bc = typed + n + c
    <3> HIDE DEF n, c, bn, bc
    <3> QED
      BY ONLY <2>1
  <2> QED
    BY <2>2
<1>7. CASE FlushAfterPush(b, k)
  <2>1. BeginFlush(b)
    BY <1>7 DEF ReadKey
  <2> HIDE DEF b, k
  <2> QED
    BY <1>1, <1>2, <1>4, <1>5, <1>6, <1>7, <2>1, BeginFlushStep
<1>8. CASE ~FlushAfterPush(b, k)
  <2>1. buf' = b /\ UNCHANGED <<phase, chunk, guesses>>
    BY <1>8 DEF ReadKey
  <2> HIDE DEF b, k
  <2>2. LoopType' /\ FlushType'
    BY <1>2, <1>4, <2>1 DEF LoopType, FlushType
  <2>3. (typed' + Len(buf.data) + Len(buf.carry)) + dropped
            = (typed + Len(buf'.data) + Len(buf'.carry)) + dropped'
    BY <1>4, <1>6, <2>1
  <2> QED
    BY <1>2, <1>4, <1>5, <2>1, <2>2, <2>3, QuietStep
<1> QED
  BY <1>7, <1>8

LEMMA FlushDeadlineStep == ASSUME IInv, FlushDeadline PROVE IInv'
<1> USE DEF IInv
<1>1. /\ phase = "select" /\ buf.data # << >> /\ BeginFlush(buf)
      /\ UNCHANGED <<metrics, lastFlush, session, typed, dropped, taken>>
  BY DEF FlushDeadline, stream
<1>2. IsBuffer(buf) /\ MetricsType' /\ typed' \in Nat
  BY <1>1 DEF LoopType, MetricsType
<1> QED
  BY <1>1, <1>2, BeginFlushStep

LEMMA WrittenStep == ASSUME IInv, Written PROVE IInv'
<1> USE DEF IInv
<1>1. /\ phase = "write" /\ phase' = "select" /\ chunk' = << >>
      /\ UNCHANGED <<buf, guesses, session, typed, dropped, taken>>
      /\ lastFlush' = {[id |-> metrics.flushes + 1, age |-> 0, session |-> session]}
      /\ metrics' = RecordFlush(metrics, Len(chunk))
  BY DEF Written, stream
<1>2. chunk \in Seq(Byte) /\ Len(chunk) \in Nat /\ Len(chunk) # 0
  BY <1>1, EmptySeq, LenProperties DEF LoopType
<1>3. /\ metrics'.samples = metrics.samples
      /\ metrics'.sent = metrics.sent + Len(chunk)
      /\ metrics'.flushes = metrics.flushes + 1
      /\ metrics'.saved = metrics.saved + Len(chunk) - 1
      /\ MetricsType'
  <2>1. metrics' = [metrics EXCEPT !.sent = metrics.sent + Len(chunk),
                                   !.flushes = metrics.flushes + 1,
                                   !.saved = metrics.saved + Len(chunk) - 1,
                                   !.depth = 0]
    <3>1. CASE Len(chunk) > 1
      BY <1>1, <3>1 DEF RecordFlush, MetricsType
    <3>2. CASE Len(chunk) = 1
      <4>1. metrics.saved + Len(chunk) - 1 = metrics.saved
        BY <3>2 DEF MetricsType
      <4> QED
        BY <1>1, <3>2, <4>1 DEF RecordFlush
    <3>3. Len(chunk) > 1 \/ Len(chunk) = 1
      BY <1>2
    <3> QED
      BY <3>1, <3>2, <3>3
  <2>2. metrics.sent + Len(chunk) \in Nat /\ metrics.flushes + 1 \in Nat
        /\ metrics.saved + Len(chunk) - 1 \in Nat
    BY <1>2 DEF MetricsType
  <2> QED
    BY <2>1, <2>2 DEF MetricsType
<1>4. LoopType'
  BY <1>1 DEF LoopType, Phases
<1>5. BytesAccounted'
  <2>1. Len(chunk') = 0
    BY <1>1
  <2>2. /\ typed = metrics.sent + Len(chunk) + Len(buf.data) + Len(buf.carry) + dropped
        /\ metrics.saved = metrics.sent - metrics.flushes
    BY DEF BytesAccounted
  <2>3. /\ Len(buf.data) \in Nat /\ Len(buf.carry) \in Nat /\ dropped \in Nat
        /\ metrics.sent \in Nat /\ metrics.saved \in Nat /\ metrics.flushes \in Nat
    BY LenProperties DEF LoopType, IsBuffer, MetricsType
  <2>4. /\ typed' = metrics'.sent + 0 + Len(buf'.data) + Len(buf'.carry) + dropped'
        /\ metrics'.saved = metrics'.sent - metrics'.flushes
    <3> DEFINE w == Len(chunk)
    <3>1. typed' = typed /\ dropped' = dropped /\ buf' = buf
      BY <1>1
    <3>2. /\ metrics'.sent = metrics.sent + w /\ metrics'.saved = metrics.saved + w - 1
          /\ metrics'.flushes = metrics.flushes + 1 /\ w \in Nat
          /\ typed = metrics.sent + w + Len(buf.data) + Len(buf.carry) + dropped
          /\ metrics.saved = metrics.sent - metrics.flushes
      BY <1>1, <1>2, <1>3, <2>2
    <3>3. typed = metrics'.sent + 0 + Len(buf.data) + Len(buf.carry) + dropped
      <4> HIDE DEF w
      <4> QED
        BY ONLY <2>3, <3>2
    <3>4. metrics'.saved = metrics'.sent - metrics'.flushes
      <4> HIDE DEF w
      <4> QED
        BY ONLY <2>3, <3>2, SMTT(60)
    <3> QED
      BY <3>1, <3>3, <3>4
  <2> QED
    BY <2>1, <2>4 DEF BytesAccounted
<1>6. FlushType'
  BY <1>1, <1>3 DEF FlushType, Flush, MetricsType, LoopType
<1>7. OpenInv'
  <2>1. \A i \in 1..Len(taken) : taken[i].id \in Nat
    <3>1. \A i \in 1..Len(taken) : taken[i] \in Sample
      BY ElementOfSeq DEF FlushType
    <3> QED
      BY <3>1 DEF Sample
  <2>2. Begun = metrics.flushes + 1 /\ Begun' = metrics.flushes + 1
    BY <1>1, <1>3 DEF Begun
  <2>3. \A f \in lastFlush' : /\ f.session = session /\ f.id = metrics.flushes + 1
                              /\ \A i \in 1..Len(taken) : taken[i].id # f.id
    BY <1>1, <2>1 DEF OpenInv, MetricsType
  <2>4. /\ session' = session /\ taken' = taken /\ metrics.flushes \in Nat
        /\ metrics'.flushes = metrics.flushes + 1
    BY <1>1, <1>3 DEF MetricsType
  <2>5. /\ \A f \in lastFlush' : f.session = session' /\ f.id <= metrics'.flushes
        /\ \A f \in lastFlush' : \A i \in 1..Len(taken') : taken'[i].id # f.id
    BY <2>3, <2>4
  <2>6. \A i \in 1..Len(taken') : taken'[i].id <= metrics'.flushes
    <3>1. \A i \in 1..Len(taken) : taken[i].id <= metrics.flushes
      BY DEF OpenInv
    <3> QED
      BY <2>1, <2>4, <3>1
  <2>7. \A i \in 1..Len(guesses') :
            /\ guesses'[i].session = session' /\ guesses'[i].id <= Begun'
            /\ \A n \in 1..Len(taken') : taken'[n].id # guesses'[i].id
            /\ \A j \in 1..Len(guesses') : i < j => guesses'[i].id < guesses'[j].id
    BY <1>1, <2>2 DEF OpenInv, Measurable
  <2> QED
    BY <2>5, <2>6, <2>7 DEF OpenInv, Measurable
<1>8. RingKeepsLatest' /\ SamplesGenuine' /\ IntervalTuned'
  BY <1>1, <1>3, NothingMeasured
<1> QED
  BY <1>3, <1>4, <1>5, <1>6, <1>7, <1>8

\* The output measures last_flush_at, if there is one and nothing was guessed.
LEMMA NotGuessedStep ==
    ASSUME IInv, phase = "select", NEW b, IsBuffer(b), b.data = buf.data,
           b.carry = buf.carry, b.interval = buf.interval, b.adaptive = buf.adaptive,
           NotGuessed(b), UNCHANGED <<phase, chunk, stream>>
    PROVE  IInv'
<1> USE DEF IInv
<1>1. CASE \E flush \in lastFlush : Measure(flush, RecordRtt(metrics, flush.age), b)
  <2>1. PICK f \in lastFlush : Measure(f, RecordRtt(metrics, f.age), b)
    BY <1>1
  <2>2. f \in Flush /\ Measurable(f) /\ f.id <= metrics.flushes
    BY DEF FlushType, OpenInv
  <2>3. /\ LoopType' /\ MetricsType'
        /\ RingKeepsLatest' /\ SamplesGenuine' /\ BytesAccounted' /\ IntervalTuned'
        /\ metrics'.flushes = metrics.flushes
        /\ taken' \in Seq(Sample) /\ Len(taken') = Len(taken) + 1
        /\ taken'[Len(taken) + 1].id = f.id
        /\ \A i \in 1..Len(taken) : taken'[i] = taken[i]
    BY <2>1, <2>2, MeasureStep
  <2>4. lastFlush' = {} /\ guesses' = << >>
    BY <2>1 DEF Measure, NotGuessed
  <2>5. \A i \in 1..Len(taken') : taken'[i].id <= metrics'.flushes
    <3>1. Len(taken) \in Nat
      BY LenProperties DEF FlushType
    <3>2. \A i \in 1..Len(taken') : i \in 1..Len(taken) \/ i = Len(taken) + 1
      BY <2>3, <3>1
    <3> QED
      BY <2>2, <2>3, <3>2 DEF OpenInv
  <2>6. OpenInv' /\ FlushType'
    BY <2>3, <2>4, <2>5 DEF OpenInv, FlushType
  <2> QED
    BY <2>3, <2>6
<1>2. CASE lastFlush = {} /\ buf' = b /\ UNCHANGED <<metrics, lastFlush, taken>>
  <2>1. guesses' = << >> /\ UNCHANGED <<phase, chunk, session, typed, dropped>>
    BY DEF NotGuessed, stream
  <2>2. LoopType' /\ FlushType' /\ MetricsType'
    BY <1>2, <2>1 DEF LoopType, FlushType, MetricsType
  <2> QED
    BY <1>2, <2>1, <2>2, QuietStep
<1> QED
  BY <1>1, <1>2 DEF NotGuessed

\* The output reconciles the oldest guess.
LEMMA ReconciledStep ==
    ASSUME IInv, phase = "select", guesses # << >>,
           NEW b, IsBuffer(b), b.data = buf.data,
           b.carry = buf.carry, b.interval = buf.interval, b.adaptive = buf.adaptive,
           Reconciled(guesses, b), UNCHANGED <<phase, chunk, stream>>
    PROVE  IInv'
<1> USE DEF IInv
<1> DEFINE f == Head(guesses)
<1>1. /\ f = guesses[1] /\ Len(guesses) \in Nat /\ 1 \in 1..Len(guesses)
      /\ guesses' = Tail(guesses) /\ guesses' \in Seq(Flush)
      /\ Len(guesses') = Len(guesses) - 1
      /\ \A i \in 1..Len(guesses') : guesses'[i] = guesses[i+1]
  <2>1. Len(guesses) \in Nat /\ Len(guesses) # 0
    BY EmptySeq, LenProperties DEF FlushType
  <2> QED
    BY <2>1, HeadTailProperties DEF FlushType, Reconciled
<1>2. f \in Flush /\ Measurable(f) /\ f.id <= metrics.flushes
  <2>1. f \in Flush
    BY <1>1, ElementOfSeq DEF FlushType
  <2> QED
    BY <1>1, <2>1 DEF OpenInv, Begun
<1>3. /\ LoopType' /\ MetricsType'
      /\ RingKeepsLatest' /\ SamplesGenuine' /\ BytesAccounted' /\ IntervalTuned'
      /\ metrics'.flushes = metrics.flushes
      /\ taken' \in Seq(Sample) /\ Len(taken') = Len(taken) + 1
      /\ taken'[Len(taken) + 1].id = f.id
      /\ \A i \in 1..Len(taken) : taken'[i] = taken[i]
      /\ lastFlush' = {}
  <2>1. PICK m \in {RecordHit(metrics, f.age), RecordMiss(metrics, f.age)} :
            Measure(f, m, b)
    BY DEF Reconciled
  <2>2. lastFlush' = {}
    BY <2>1 DEF Measure
  <2> HIDE DEF f
  <2> QED
    BY <1>2, <2>1, <2>2, MeasureStep
<1>4. Len(taken) \in Nat /\ \A i \in 1..Len(taken') : i \in 1..Len(taken) \/ i = Len(taken) + 1
  <2>1. Len(taken) \in Nat
    BY LenProperties DEF FlushType
  <2> QED
    BY <1>3, <2>1
<1>5. \A i \in 1..Len(taken') : taken'[i].id <= metrics'.flushes
  BY <1>2, <1>3, <1>4 DEF OpenInv
<1>6. Begun' = Begun /\ session' = session
  BY <1>3 DEF Begun, stream
<1>7. ASSUME NEW i \in 1..Len(guesses')
      PROVE  /\ guesses'[i].session = session' /\ guesses'[i].id <= Begun'
             /\ \A n \in 1..Len(taken') : taken'[n].id # guesses'[i].id
             /\ \A j \in 1..Len(guesses') : i < j => guesses'[i].id < guesses'[j].id
  <2>1. /\ i + 1 \in 1..Len(guesses) /\ 1 < i + 1 /\ guesses'[i] = guesses[i+1]
        /\ \A j \in 1..Len(guesses') : i < j => i + 1 < j + 1 /\ j + 1 \in 1..Len(guesses)
    BY <1>1
  <2>2. guesses'[i].session = session' /\ guesses'[i].id <= Begun'
    BY <1>6, <2>1 DEF OpenInv, Measurable
  <2>3. guesses[1].id < guesses[i+1].id /\ guesses[1].id \in Nat
    BY <1>1, <1>2, <2>1 DEF OpenInv, Flush
  <2>4. \A n \in 1..Len(taken') : taken'[n].id # guesses'[i].id
    <3>1. \A n \in 1..Len(taken) : taken[n].id # guesses[i+1].id
      BY <2>1 DEF OpenInv, Measurable
    <3>2. taken'[Len(taken) + 1].id # guesses[i+1].id
      BY <1>1, <1>3, <2>3
    <3> QED
      BY <1>3, <1>4, <2>1, <3>1, <3>2
  <2>5. \A j \in 1..Len(guesses') : i < j => guesses'[i].id < guesses'[j].id
    BY <1>1, <2>1 DEF OpenInv
  <2> QED
    BY <2>2, <2>4, <2>5
<1>8. OpenInv' /\ FlushType'
  BY <1>1, <1>3, <1>5, <1>7 DEF OpenInv, Measurable, FlushType
<1> QED
  BY <1>3, <1>8

LEMMA ReadPtyStep ==
    ASSUME IInv, NEW switch \in {"none", "enter", "exit"}, ReadPty(switch)
    PROVE  IInv'
<1> USE DEF IInv
<1> DEFINE left == IF switch = "enter" THEN << >> ELSE guesses
           b == CASE switch = "enter" -> SetPassthrough(buf, TRUE)
                  [] switch = "exit"  -> SetPassthrough(buf, FALSE)
                  [] OTHER            -> buf
<1>1. IsBuffer(buf) /\ phase = "select"
  BY DEF LoopType, ReadPty
<1>2. /\ IsBuffer(b) /\ b.data = buf.data /\ b.carry = buf.carry
      /\ b.interval = buf.interval /\ b.adaptive = buf.adaptive
  <2>1. b = SetPassthrough(buf, TRUE) \/ b = SetPassthrough(buf, FALSE) \/ b = buf
    OBVIOUS
  <2> HIDE DEF b
  <2>2. \A e : LET s == SetPassthrough(buf, e)
               IN  /\ IsBuffer(s) /\ s.data = buf.data /\ s.carry = buf.carry
                   /\ s.interval = buf.interval /\ s.adaptive = buf.adaptive
    BY <1>1, OperatorsKeep
  <2> QED
    BY <1>1, <2>1, <2>2
<1>3. UNCHANGED <<phase, chunk, stream>>
  BY DEF ReadPty
<1>4. CASE left = << >>
  <2>1. NotGuessed(b)
    BY <1>4 DEF ReadPty
  <2> HIDE DEF b
  <2> QED
    BY <1>1, <1>2, <1>3, <2>1, NotGuessedStep
<1>5. CASE left # << >>
  <2>1. left = guesses /\ guesses # << >>
    BY <1>5
  <2>2. Reconciled(guesses, b)
    BY <1>5, <2>1 DEF ReadPty
  <2> HIDE DEF b
  <2> QED
    BY <1>1, <1>2, <1>3, <2>1, <2>2, ReconciledStep
<1> QED
  BY <1>4, <1>5

LEMMA ReconnectStep == ASSUME IInv, Reconnect PROVE IInv'
<1> USE DEF IInv
<1>1. IsBuffer(buf) /\ phase = "select"
  BY DEF LoopType, Reconnect
<1>2. /\ IsBuffer(buf') /\ buf'.data = << >> /\ buf'.carry = buf.carry
      /\ buf'.interval = buf.interval /\ buf'.adaptive = buf.adaptive
  BY <1>1, OperatorsKeep DEF Reconnect
<1>3. /\ session' \in 1..MaxSessions /\ dropped' = dropped + Len(buf.data)
      /\ lastFlush' = {} /\ guesses' = << >>
      /\ UNCHANGED <<phase, chunk, metrics, typed, taken>>
  BY BoundAssumption DEF Reconnect, LoopType
<1>4. Len(buf.data) \in Nat /\ Len(buf.carry) \in Nat /\ Len(buf'.data) = 0
  BY <1>1, <1>2, LenProperties DEF IsBuffer
<1>5. LoopType' /\ MetricsType' /\ FlushType'
  BY <1>2, <1>3, <1>4 DEF LoopType, MetricsType, FlushType
<1>6. OpenInv'
  BY <1>3 DEF OpenInv, Measurable
<1>7. BytesAccounted'
  <2> DEFINE n == Len(buf.data)  c == Len(buf.carry)  w == Len(chunk)
             m == metrics.sent  t == typed  d == dropped  e == dropped'
  <2>1. /\ n \in Nat /\ c \in Nat /\ w \in Nat /\ m \in Nat /\ t \in Nat /\ d \in Nat
        /\ e = d + n /\ t = m + w + n + c + d
    BY <1>3, <1>4, LenProperties DEF LoopType, MetricsType, BytesAccounted
  <2>2. t = m + w + 0 + c + e
    <3> HIDE DEF n, c, w, m, t, d, e
    <3> QED
      BY ONLY <2>1
  <2> QED
    BY <1>2, <1>3, <1>4, <2>2 DEF BytesAccounted
<1>8. RingKeepsLatest' /\ SamplesGenuine' /\ IntervalTuned'
  BY <1>2, <1>3, NothingMeasured
<1> QED
  BY <1>5, <1>6, <1>7, <1>8

LEMMA ElapseStep == ASSUME IInv, NEW d \in Delays, Elapse(d) PROVE IInv'
<1> USE DEF IInv
<1>1. \A f \in Flush : LET g == [f EXCEPT !.age = Older(@, d, MaxRtt)]
                       IN  g \in Flush /\ g.id = f.id /\ g.session = f.session
  BY TimeAssumption DEF Flush, Older
<1>2. IsBuffer(buf)
  BY DEF LoopType
<1>3. /\ IsBuffer(buf') /\ buf'.data = buf.data /\ buf'.carry = buf.carry
      /\ buf'.interval = buf.interval /\ buf'.adaptive = buf.adaptive
  BY <1>2, OperatorsKeep DEF Elapse
<1>4. UNCHANGED <<phase, chunk, metrics, typed, dropped, session, taken>>
  BY DEF Elapse, stream
<1>5. LoopType' /\ MetricsType'
  BY <1>3, <1>4 DEF LoopType, MetricsType
<1>6. /\ lastFlush' \subseteq Flush
      /\ \A f \in lastFlush' : \E g \in lastFlush : g.id = f.id /\ g.session = f.session
  <2> SUFFICES ASSUME NEW h \in lastFlush'
               PROVE  h \in Flush
                      /\ \E g \in lastFlush : g.id = h.id /\ g.session = h.session
    OBVIOUS
  <2>1. PICK f \in lastFlush : h = [f EXCEPT !.age = Older(@, d, MaxRtt)]
    BY DEF Elapse
  <2>2. f \in Flush
    BY DEF FlushType
  <2> QED
    BY <1>1, <2>1, <2>2
<1>7. /\ guesses' \in Seq(Flush) /\ Len(guesses') = Len(guesses)
      /\ \A i \in 1..Len(guesses) : /\ guesses'[i].id = guesses[i].id
                                    /\ guesses'[i].session = guesses[i].session
  <2> DEFINE n == Len(guesses)
             older == [i \in 1..n |-> [guesses[i] EXCEPT !.age = Older(@, d, MaxRtt)]]
  <2>1. n \in Nat /\ \A i \in 1..n : guesses[i] \in Flush
    BY ElementOfSeq, LenProperties DEF FlushType
  <2>2. \A i \in 1..n : older[i] \in Flush /\ older[i].id = guesses[i].id
                        /\ older[i].session = guesses[i].session
    BY <1>1, <2>1
  <2>3. older \in [1..n -> Flush]
    BY <2>2
  <2>4. older \in Seq(Flush) /\ Len(older) = n
    <3> HIDE DEF older, n
    <3> QED
      BY <2>1, <2>3, SeqDef
  <2>5. guesses' = older
    BY DEF Elapse
  <2> QED
    BY <2>2, <2>4, <2>5
<1>8. FlushType'
  BY <1>4, <1>6, <1>7 DEF FlushType
<1> QED
  BY <1>3, <1>4, <1>5, <1>6, <1>7, <1>8, QuietStep

-----------------------------------------------------------------------------

\* The invariant holds in every behaviour.
LEMMA Invariant == Spec => []IInv
<1>1. Init => IInv
  <2> SUFFICES ASSUME Init PROVE IInv
    OBVIOUS
  <2>1. /\ phase = "select" /\ chunk = << >> /\ metrics = NewMetrics /\ lastFlush = {}
        /\ guesses = << >> /\ session = 1 /\ typed = 0 /\ dropped = 0 /\ taken = << >>
    BY DEF Init
  <2>2. IsBuffer(buf) /\ buf.data = << >> /\ buf.carry = << >>
        /\ buf.interval = FlushInterval
    BY DEF Init, NewBuffer, IsBuffer
  <2>3. LoopType /\ MetricsType /\ FlushType
    BY <2>1, <2>2, BoundAssumption DEF LoopType, MetricsType, FlushType, NewMetrics, Phases
  <2>4. OpenInv /\ SamplesGenuine
    BY <2>1 DEF OpenInv, SamplesGenuine
  <2>5. RingKeepsLatest /\ BytesAccounted /\ IntervalTuned
    BY <2>1, <2>2, CapacityAssumption
       DEF RingKeepsLatest, BytesAccounted, IntervalTuned, NewMetrics
  <2> QED
    BY <2>3, <2>4, <2>5 DEF IInv
<1>2. IInv /\ [Next]_vars => IInv'
  <2> SUFFICES ASSUME IInv, [Next]_vars PROVE IInv'
    OBVIOUS
  <2>1. ASSUME NEW kind \in Keys, ReadKey(kind) PROVE IInv'
    BY <2>1, ReadKeyStep
  <2>2. CASE FlushDeadline
    BY <2>2, FlushDeadlineStep
  <2>3. CASE Written
    BY <2>3, WrittenStep
  <2>4. CASE WriteFails
    <3>1. /\ phase = "write" /\ phase' = "ended"
          /\ UNCHANGED <<buf, chunk, metrics, lastFlush, guesses, typed, dropped,
                         session, taken>>
      BY <2>4 DEF WriteFails, stream
    <3>2. LoopType' /\ MetricsType' /\ FlushType' /\ Begun' = Begun
      BY <3>1 DEF IInv, LoopType, MetricsType, FlushType, Begun, Phases
    <3>3. OpenInv' /\ BytesAccounted'
      BY <3>1, <3>2 DEF IInv, OpenInv, Measurable, BytesAccounted
    <3>4. RingKeepsLatest' /\ SamplesGenuine' /\ IntervalTuned'
      BY <3>1, NothingMeasured
    <3> QED
      BY <3>2, <3>3, <3>4 DEF IInv
  <2>5. ASSUME NEW switch \in {"none", "enter", "exit"}, ReadPty(switch) PROVE IInv'
    BY <2>5, ReadPtyStep
  <2>6. CASE Reconnect
    BY <2>6, ReconnectStep
  <2>7. ASSUME RenderStats \/ UNCHANGED vars PROVE IInv'
    <3>1. UNCHANGED <<phase, buf, chunk, metrics, lastFlush, guesses, typed, dropped,
                      session, taken>>
      BY <2>7 DEF RenderStats, stream, vars
    <3>2. LoopType' /\ MetricsType' /\ FlushType'
      BY <3>1 DEF IInv, LoopType, MetricsType, FlushType
    <3> QED
      BY <3>1, <3>2, QuietStep DEF IInv
  <2>8. ASSUME NEW d \in Delays, Elapse(d) PROVE IInv'
    BY <2>8, ElapseStep
  <2> QED
    BY <2>1, <2>2, <2>3, <2>4, <2>5, <2>6, <2>7, <2>8 DEF Next
<1> QED
  BY <1>1, <1>2, PTL DEF Spec

\* The ring holds the latest round trips, of whatever capacity it is
\* (metrics.rs, record_rtt, record_hit and record_miss).
THEOREM RingIsTheEnd == Spec => []RingKeepsLatest
<1>1. IInv => RingKeepsLatest
  BY DEF IInv
<1> QED
  BY <1>1, Invariant, PTL

\* No flush is measured twice or by another session's output, however the
\* predictor and last_flush_at take turns (proxy.rs, run and reconnect).
THEOREM NoFlushMeasuredTwice == Spec => []SamplesGenuine
<1>1. IInv => SamplesGenuine
  BY DEF IInv
<1> QED
  BY <1>1, Invariant, PTL

\* The counters account for every byte typed, and for every write saved
\* (metrics.rs, record_flush).
THEOREM CountersAddUp == Spec => []BytesAccounted
<1>1. IInv => BytesAccounted
  BY DEF IInv
<1> QED
  BY <1>1, Invariant, PTL

\* The interval always fits the estimate that the metrics give (proxy.rs,
\* the three calls of set_adaptive_interval).
THEOREM TunedToTheEstimate == Spec => []IntervalTuned
<1>1. IInv => IntervalTuned
  BY DEF IInv
<1> QED
  BY <1>1, Invariant, PTL

-----------------------------------------------------------------------------
\* The estimate.

\* The function the sum of the ring is defined by, and the sum of k samples.
Sums(ring) ==
    CHOOSE f : f = [I \in SUBSET (DOMAIN ring) |->
                      IF I = {} THEN 0 ELSE f[I \ {Max(I)}] + ring[Max(I)]]

SumOf(ring, k) == Sums(ring)[1..k]

\* The sum of the ring goes over its samples one after the other.
LEMMA SumUnfolds ==
    ASSUME NEW ring \in Seq(Nat)
    PROVE  /\ FoldLeft(LAMBDA sum, rtt : sum + rtt, 0, ring) = SumOf(ring, Len(ring))
           /\ SumOf(ring, 0) = 0
           /\ \A k \in Nat : k + 1 <= Len(ring) =>
                SumOf(ring, k + 1) = SumOf(ring, k) + ring[k + 1]
<1> DEFINE n == Len(ring)
           step == [i \in 1..n |-> [v \in Nat |-> v + ring[i]]]
           F == Sums(ring)
<1>1. n \in Nat /\ DOMAIN ring = 1..n /\ \A i \in 1..n : ring[i] \in Nat
  BY LenProperties, ElementOfSeq
<1>2. step \in [1..n -> [Nat -> Nat]]
  BY <1>1
<1>3. PICK f : IsFold(f, Nat, 0, n, step)
  <2> HIDE DEF n, step
  <2> QED
    BY <1>1, <1>2, FoldExists
<1>4. /\ f \in [SUBSET (1..n) -> Nat]
      /\ \A I \in SUBSET (1..n) :
            f[I] = IF I = {} THEN 0 ELSE step[Max(I)][f[I \ {Max(I)}]]
  BY <1>3 DEF IsFold
<1>5. ASSUME NEW I \in SUBSET (1..n)
      PROVE  f[I] = IF I = {} THEN 0 ELSE f[I \ {Max(I)}] + ring[Max(I)]
  <2>1. CASE I = {}
    BY <1>4, <2>1
  <2>2. CASE I # {}
    <3>1. Max(I) \in 1..n
      <4>1. \E x \in I : \A y \in I : x >= y
        BY <1>1, <2>2, MaxExists
      <4> QED
        BY <4>1 DEF Max
    <3>2. f[I \ {Max(I)}] \in Nat
      BY <1>4
    <3> QED
      BY <1>4, <2>2, <3>1, <3>2
  <2> QED
    BY <2>1, <2>2
<1>6. f = [I \in SUBSET (DOMAIN ring) |->
             IF I = {} THEN 0 ELSE f[I \ {Max(I)}] + ring[Max(I)]]
  <2> HIDE DEF step, n
  <2> QED
    BY <1>1, <1>4, <1>5
<1>7. F = [I \in SUBSET (DOMAIN ring) |->
             IF I = {} THEN 0 ELSE F[I \ {Max(I)}] + ring[Max(I)]]
  BY <1>6 DEF Sums
<1>8. FoldLeft(LAMBDA sum, rtt : sum + rtt, 0, ring) = F[DOMAIN ring]
  BY DEF Sums, FoldLeft, MapThenFoldSet
<1> HIDE DEF F, step
<1>9. F[1..0] = 0
  <2>1. 1..0 = {} /\ 1..0 \in SUBSET (DOMAIN ring)
    OBVIOUS
  <2> QED
    BY <1>7, <2>1
<1>10. ASSUME NEW k \in Nat, k + 1 <= n
       PROVE  F[1..(k + 1)] = F[1..k] + ring[k + 1]
  <2>1. 1..(k + 1) \in SUBSET (DOMAIN ring)
    BY <1>1, <1>10
  <2>2. Max(1..(k + 1)) = k + 1 /\ (1..(k + 1)) \ {k + 1} = 1..k /\ 1..(k + 1) # {}
    BY NextPrefix
  <2> QED
    BY <1>7, <2>1, <2>2
<1> QED
  BY <1>1, <1>8, <1>9, <1>10 DEF SumOf, F

\* rtt_estimate is a number: a sum of numbers, divided by how many there are.
LEMMA EstimateType ==
    ASSUME NEW m, m.samples \in Seq(Nat)
    PROVE  RttEstimate(m) \in Nat
<1> DEFINE ring == m.samples
           n == Len(ring)
           T == {k \in Nat : k <= n => SumOf(ring, k) \in Nat}
<1>1. n \in Nat /\ \A i \in 1..n : ring[i] \in Nat
  BY LenProperties, ElementOfSeq
<1>2. FoldLeft(LAMBDA sum, rtt : sum + rtt, 0, ring) = SumOf(ring, n)
  BY SumUnfolds
<1>9. SumOf(ring, 0) = 0
  BY SumUnfolds
<1>10. \A k \in Nat : k + 1 <= n => SumOf(ring, k + 1) = SumOf(ring, k) + ring[k + 1]
  BY SumUnfolds
<1> HIDE DEF n, ring
<1>3. 0 \in T
  BY <1>9
<1>4. ASSUME NEW k \in Nat, k \in T PROVE k + 1 \in T
  <2> SUFFICES ASSUME k + 1 <= n PROVE SumOf(ring, k + 1) \in Nat
    OBVIOUS
  <2>1. SumOf(ring, k) \in Nat /\ ring[k + 1] \in Nat
    BY <1>1, <1>4
  <2> QED
    BY <1>10, <2>1
<1>5. n \in T
  <2> HIDE DEF T
  <2> QED
    BY <1>1, <1>3, <1>4, SetInduction
<1>6. SumOf(ring, n) \in Nat
  BY <1>1, <1>5
<1>7. CASE ring = << >>
  BY <1>7 DEF RttEstimate, ring
<1>8. CASE ring # << >>
  <2>1. n # 0
    BY <1>8, EmptySeq DEF n, ring
  <2>2. RttEstimate(m) = SumOf(ring, n) \div n
    BY <1>2, <1>8 DEF RttEstimate, n, ring
  <2>3. \A s \in Nat : s \div n \in Nat
    BY <1>1, <2>1
  <2> QED
    BY <1>6, <2>2, <2>3
<1> QED
  BY <1>7, <1>8

\* What TypeOK says beyond the invariant.
RestInv ==
    /\ buf.deadline \in Nat
    /\ \A f, g \in lastFlush : f = g
    /\ sinceTurn \in 0..StatsPeriod
    /\ typed <= MaxTyped /\ reads \in 0..MaxReads

\* The interval is a number, whether it is the configured one or a tuned one.
LEMMA IntervalType == ASSUME IInv PROVE buf.interval \in Nat
<1>1. metrics.samples \in Seq(Nat)
  BY DEF IInv, MetricsType
<1>2. AdaptiveInterval(RttEstimate(metrics)) \in Nat
  <2>1. RttEstimate(metrics) \in Nat
    BY <1>1, EstimateType
  <2>2. \A rtt \in Nat : AdaptiveInterval(rtt) \in Nat
    BY DEF AdaptiveInterval
  <2> QED
    BY <2>1, <2>2
<1> QED
  BY <1>2, FlushIntervalAssumption DEF IInv, IntervalTuned

\* push arms the timer with the interval or leaves it alone.
LEMMA PushDeadline ==
    ASSUME NEW b, IsBuffer(b), b.deadline \in Nat, b.interval \in Nat, NEW k
    PROVE  Push(b, k).deadline \in Nat
  BY DEF Push, PushRaw, PushCooked, IsBuffer

\* Every variable keeps its type: the estimate and the interval tuned with it
\* are numbers whatever the ring holds, and no timer runs below zero.
THEOREM MetricsTypeCorrect == Spec => []TypeOK
<1>1. Init => RestInv
  <2> SUFFICES ASSUME Init PROVE RestInv
    OBVIOUS
  <2>1. buf.deadline = Hour /\ lastFlush = {} /\ sinceTurn = 0 /\ typed = 0 /\ reads = 0
    BY DEF Init, NewBuffer
  <2> QED
    BY <2>1, HourAssumption, TimeAssumption, BoundAssumption DEF RestInv
<1>2. IInv /\ RestInv /\ [Next]_vars => RestInv'
  <2> SUFFICES ASSUME IInv, RestInv, [Next]_vars PROVE RestInv'
    OBVIOUS
  <2>0. /\ IsBuffer(buf) /\ buf.deadline \in Nat /\ buf.interval \in Nat
        /\ Hour \in Nat /\ 0 \in 0..StatsPeriod /\ typed \in Nat
    BY IntervalType, HourAssumption, TimeAssumption DEF IInv, LoopType, RestInv
  <2>1. ASSUME NEW kind \in Keys, ReadKey(kind) PROVE RestInv'
    <3> DEFINE k == [kind |-> kind]
               b == Push(buf, k)
    <3>1. k \in Byte
      BY KeysAssumption DEF Byte
    <3>2. IsBuffer(b) /\ b.deadline \in Nat
      BY <2>0, <3>1, PushAddsOne, PushDeadline
    <3>3. buf' = Take(b) \/ buf' = b
      BY <2>1 DEF ReadKey, BeginFlush
    <3> HIDE DEF b
    <3>4. buf'.deadline \in Nat
      BY <2>0, <3>2, <3>3 DEF Take, IsBuffer
    <3>5. typed' = typed + 1 /\ typed < MaxTyped /\ sinceTurn' = 0
          /\ lastFlush' = lastFlush /\ reads' = reads
      BY <2>1 DEF ReadKey
    <3> QED
      BY <2>0, <3>4, <3>5, BoundAssumption DEF RestInv
  <2>2. CASE FlushDeadline
    <3>1. buf'.deadline \in Nat
      BY <2>0, <2>2 DEF FlushDeadline, BeginFlush, Take, IsBuffer
    <3> QED
      BY <2>2, <3>1 DEF FlushDeadline, stream, RestInv
  <2>3. CASE Written
    BY <2>0, <2>3 DEF Written, stream, RestInv
  <2>4. CASE WriteFails
    BY <2>4 DEF WriteFails, stream, RestInv
  <2>5. ASSUME NEW switch \in {"none", "enter", "exit"}, ReadPty(switch) PROVE RestInv'
    <3> DEFINE left == IF switch = "enter" THEN << >> ELSE guesses
               b == CASE switch = "enter" -> SetPassthrough(buf, TRUE)
                      [] switch = "exit"  -> SetPassthrough(buf, FALSE)
                      [] OTHER            -> buf
    <3>1. IsBuffer(b) /\ b.deadline \in Nat
      BY <2>0 DEF SetPassthrough, IsBuffer
    <3>2. NotGuessed(b) \/ Reconciled(left, b)
      BY <2>5 DEF ReadPty
    <3> HIDE DEF b, left
    <3>3. \/ \E rtt : buf' = SetAdaptiveInterval(b, rtt) /\ lastFlush' = {}
          \/ buf' = b /\ lastFlush' = lastFlush
      BY <3>2 DEF NotGuessed, Reconciled, Measure
    <3>4. buf'.deadline \in Nat
      BY <3>1, <3>3 DEF SetAdaptiveInterval, IsBuffer
    <3>5. \A f, g \in lastFlush' : f = g
      BY <3>3 DEF RestInv
    <3>6. sinceTurn' = 0 /\ typed' = typed /\ reads < MaxReads /\ reads' = reads + 1
      BY <2>5 DEF ReadPty, stream
    <3>7. reads' \in 0..MaxReads
      BY <3>6, BoundAssumption DEF RestInv
    <3> QED
      BY <2>0, <3>4, <3>5, <3>6, <3>7 DEF RestInv
  <2>6. CASE Reconnect
    <3>1. buf'.deadline \in Nat
      BY <2>0, <2>6 DEF Reconnect, Take, IsBuffer
    <3> QED
      BY <2>0, <2>6, <3>1 DEF Reconnect, RestInv
  <2>7. CASE RenderStats
    BY <2>0, <2>7 DEF RenderStats, stream, RestInv
  <2>8. ASSUME NEW d \in Delays, Elapse(d) PROVE RestInv'
    <3>1. d \in Nat /\ StatsPeriod \in Nat
      BY TimeAssumption
    <3>2. buf'.deadline \in Nat
      <4>1. Later(buf.deadline, d) \in Nat
        BY <2>0, <3>1 DEF Later
      <4> QED
        BY <2>0, <2>8, <4>1 DEF Elapse, Age, IsBuffer
    <3>3. \A f, g \in lastFlush' : f = g
      BY <2>8 DEF Elapse, RestInv
    <3>4. sinceTurn' \in 0..StatsPeriod
      BY <2>8, <3>1 DEF Elapse, Older, RestInv
    <3>5. typed' = typed /\ reads' = reads
      BY <2>8 DEF Elapse, stream
    <3> QED
      BY <3>2, <3>3, <3>4, <3>5 DEF RestInv
  <2>9. CASE UNCHANGED vars
    BY <2>9 DEF vars, RestInv
  <2> QED
    BY <2>1, <2>2, <2>3, <2>4, <2>5, <2>6, <2>7, <2>8, <2>9 DEF Next
<1>3. IInv /\ RestInv => TypeOK
  <2> SUFFICES ASSUME IInv, RestInv PROVE TypeOK
    OBVIOUS
  <2>1. DOMAIN buf = DOMAIN NewBuffer(FALSE, FALSE)
    BY DEF IInv, LoopType, IsBuffer, NewBuffer
  <2>2. chunk \in Seq([kind : Kinds]) /\ phase \in Phases /\ session \in 1..MaxSessions
    BY DEF IInv, LoopType, Byte
  <2>3. typed \in 0..MaxTyped /\ dropped \in 0..typed
    <3> DEFINE a == metrics.sent
               c == Len(chunk)
               d == Len(buf.data)
               e == Len(buf.carry)
    <3>1. a \in Nat /\ c \in Nat /\ d \in Nat /\ e \in Nat
      BY LenProperties DEF IInv, LoopType, MetricsType, IsBuffer
    <3>2. typed \in Nat /\ dropped \in Nat /\ typed = a + c + d + e + dropped
      BY DEF IInv, LoopType, BytesAccounted
    <3>3. typed <= MaxTyped /\ MaxTyped \in Nat
      BY BoundAssumption DEF RestInv
    <3> HIDE DEF a, c, d, e
    <3> QED
      BY <3>1, <3>2, <3>3
  <2>4. buf.deadline \in Nat /\ buf.interval \in Nat
    BY IntervalType DEF RestInv
  <2>5. /\ lastFlush \subseteq Flush /\ guesses \in Seq(Flush)
        /\ taken \in Seq([id : Nat, rtt : Nat, of : 1..MaxSessions,
                          at : 1..MaxSessions])
    BY DEF IInv, FlushType, Sample
  <2>6. metrics \in [samples : Seq(Nat), sent : Nat, flushes : Nat, saved : Nat,
                     hits : Nat, misses : Nat, depth : Nat]
    BY DEF IInv, MetricsType
  <2>7. /\ \A f, g \in lastFlush : f = g
        /\ sinceTurn \in 0..StatsPeriod /\ reads \in 0..MaxReads
    BY DEF RestInv
  <2> QED
    BY <2>1, <2>2, <2>3, <2>4, <2>5, <2>6, <2>7 DEF TypeOK
<1> QED
  BY <1>1, <1>2, <1>3, Invariant, PTL DEF Spec
=============================================================================
