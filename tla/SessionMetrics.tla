---------------------------- MODULE SessionMetrics ----------------------------
(***************************************************************************)
(* SessionMetrics (src/metrics.rs) and the places of the event loop        *)
(* (src/proxy.rs) that feed it: the flushes of the real buffer, the round  *)
(* trips measured from them, by the predictor or from last_flush_at, the   *)
(* interval tuned by them, and the statistics bar that shows them.         *)
(*                                                                         *)
(* A flush has the number record_flush will count it as.  Whether a flush  *)
(* is predicted and whether a guess is confirmed is left open here;        *)
(* EchoPrediction says when.  Ages are how long ago an Instant was, up to  *)
(* MaxRtt.  An operator with an underscore in its name is wrong on purpose. *)
(***************************************************************************)
EXTENDS BufferOps, SequencesExt

CONSTANTS
    RttCapacity,  \* SessionMetrics::new's rtt_capacity
    StatsPeriod,  \* the 250 ms of the statistics branch
    Keys,         \* the kinds of byte the keyboard sends
    Delays,       \* the steps in which time passes, in milliseconds
    MaxRtt,       \* bound: round trips are measured up to this long
    MaxTyped,     \* bound: bytes typed in a behaviour
    MaxReads,     \* bound: reads of the PTY in a behaviour
    MaxSessions   \* bound: ssh children in a behaviour

\* With a capacity of 0 the ring would never find itself full.
ASSUME CapacityAssumption == RttCapacity \in Nat \ {0}
ASSUME KeysAssumption == Keys \subseteq Kinds
ASSUME TimeAssumption ==
    StatsPeriod \in Nat /\ MaxRtt \in Nat /\ Delays \subseteq Nat
ASSUME BoundAssumption ==
    MaxTyped \in Nat /\ MaxReads \in Nat /\ MaxSessions \in Nat \ {0}

VARIABLES
    phase,      \* where run() is
    buf,        \* the InputBuffer
    chunk,      \* what is being written to the PTY master
    metrics,    \* the SessionMetrics
    lastFlush,  \* last_flush_at: no flush, or one
    guesses,    \* EchoPredictor.pending: the flushes guessed and not reconciled
    sinceTurn,  \* time since this turn of the select! began, up to StatsPeriod
    bar,        \* what the statistics bar was drawn from
    session,    \* the number of the current ssh child
    typed,      \* bytes typed
    dropped,    \* bytes dropped by reconnects
    reads,      \* reads of the PTY
    taken       \* history: every round trip recorded, and of which flush

stream == <<typed, dropped, session>>
vars == <<phase, buf, chunk, metrics, lastFlush, guesses, sinceTurn, bar,
          session, typed, dropped, reads, taken>>

Phases == {"select", "write", "ended"}

Flush == [id : Nat, age : Nat, session : 1..MaxSessions]

-----------------------------------------------------------------------------
\* src/metrics.rs

NewMetrics ==
    [samples |-> << >>, sent |-> 0, flushes |-> 0, saved |-> 0,
     hits |-> 0, misses |-> 0, depth |-> 0]

\* The ring without its oldest sample, if it is full.
Evicted(samples) == IF Len(samples) = RttCapacity THEN Tail(samples) ELSE samples

RecordRtt_Full(m, rtt) ==
    [m EXCEPT !.samples = IF Len(@) = RttCapacity THEN @ ELSE Append(@, rtt)]

RecordRtt(m, rtt) == [m EXCEPT !.samples = Append(Evicted(@), rtt)]

RecordHit(m, rtt) ==
    [m EXCEPT !.samples = Append(Evicted(@), rtt), !.hits = @ + 1]

RecordMiss(m, rtt) ==
    [m EXCEPT !.samples = Append(Evicted(@), rtt), !.misses = @ + 1]

RecordFlush_NoneSaved(m, batch) ==
    [m EXCEPT !.sent = @ + batch, !.flushes = @ + 1,
              !.saved = @ + batch, !.depth = 0]

RecordFlush(m, batch) ==
    [m EXCEPT !.sent = @ + batch, !.flushes = @ + 1,
              !.saved = IF batch > 1 THEN @ + batch - 1 ELSE @, !.depth = 0]

SetBufferDepth(m, depth) == [m EXCEPT !.depth = depth]

\* In milliseconds, rounded down.
RttEstimate(m) ==
    IF m.samples = << >> THEN 0
    ELSE FoldLeft(LAMBDA sum, rtt : sum + rtt, 0, m.samples) \div Len(m.samples)

\* render_stats_bar: what the user is told.
Shown(m) == [rtt |-> RttEstimate(m), saved |-> m.saved, flushes |-> m.flushes,
             hits |-> m.hits, reconciled |-> m.hits + m.misses]

-----------------------------------------------------------------------------
\* The event loop.

Init ==
    /\ phase = "select"
    /\ \E noBuffer, adaptive \in BOOLEAN : buf = NewBuffer(noBuffer, adaptive)
    /\ chunk = << >>
    /\ metrics = NewMetrics
    /\ lastFlush = {} /\ guesses = << >>
    /\ sinceTurn = 0 /\ bar = Shown(NewMetrics)
    /\ session = 1
    /\ typed = 0 /\ dropped = 0 /\ reads = 0
    /\ taken = << >>

\* take(), and the start of the write.  The flush is predicted before it is
\* written, if at all: never in passthrough mode.
BeginFlush(b) ==
    /\ buf' = Take(b)
    /\ chunk' = b.data
    /\ phase' = "write"
    /\ \/ UNCHANGED guesses
       \/ /\ ~b.passthrough
          /\ guesses' = Append(guesses, [id |-> metrics.flushes + 1, age |-> 0,
                                         session |-> session])

\* stdin.read(), if !buffer_full.
ReadKey(kind) ==
    LET k == [kind |-> kind]
        b == Push(buf, k)
    IN  /\ phase = "select"
        /\ typed < MaxTyped
        /\ ~IsFull(buf)
        /\ typed' = typed + 1
        /\ metrics' = SetBufferDepth(metrics, Len(b.data))
        /\ IF FlushAfterPush(b, k)
           THEN BeginFlush(b)
           ELSE buf' = b /\ UNCHANGED <<phase, chunk, guesses>>
        /\ sinceTurn' = 0
        /\ UNCHANGED <<lastFlush, bar, session, dropped, reads, taken>>

\* sleep_until(deadline), if buffer_nonempty.
FlushDeadline ==
    /\ phase = "select"
    /\ buf.data # << >>
    /\ buf.deadline = 0
    /\ BeginFlush(buf)
    /\ UNCHANGED <<metrics, lastFlush, sinceTurn, bar, stream, reads, taken>>

\* The write is done: record_flush, and the round trip begins.
Written ==
    /\ phase = "write"
    /\ phase' = "select"
    /\ chunk' = << >>
    /\ metrics' = RecordFlush(metrics, Len(chunk))
    /\ lastFlush' = {[id |-> metrics.flushes + 1, age |-> 0, session |-> session]}
    /\ sinceTurn' = 0
    /\ UNCHANGED <<buf, guesses, bar, stream, reads, taken>>

\* The write fails, and run() with it.
WriteFails ==
    /\ phase = "write"
    /\ phase' = "ended"
    /\ UNCHANGED <<buf, chunk, metrics, lastFlush, guesses, sinceTurn, bar, stream,
                   reads, taken>>

\* A round trip of this flush goes into the ring by way of m, the new metrics,
\* and b, the buffer, is tuned.
Measure(flush, m, b) ==
    /\ metrics' = m
    /\ buf' = SetAdaptiveInterval(b, RttEstimate(m))
    /\ taken' = Append(taken, [id |-> flush.id, rtt |-> flush.age,
                               of |-> flush.session, at |-> session])
    /\ lastFlush' = {}

Reconciled_KeepsLast(left, b) ==
    /\ \E record \in {RecordHit(metrics, Head(left).age),
                      RecordMiss(metrics, Head(left).age)} :
        /\ metrics' = record
        /\ buf' = SetAdaptiveInterval(b, RttEstimate(record))
        /\ taken' = Append(taken, [id |-> Head(left).id, rtt |-> Head(left).age,
                                   of |-> Head(left).session, at |-> session])
    /\ guesses' = Tail(left)
    /\ UNCHANGED lastFlush

Reconciled_MissUntuned(left, b) ==
    /\ \/ Measure(Head(left), RecordHit(metrics, Head(left).age), b)
       \/ /\ metrics' = RecordMiss(metrics, Head(left).age)
          /\ buf' = b
          /\ taken' = Append(taken, [id |-> Head(left).id, rtt |-> Head(left).age,
                                     of |-> Head(left).session, at |-> session])
          /\ lastFlush' = {}
    /\ guesses' = Tail(left)

\* Confirmed or Mispredicted: the oldest guess gives the round trip.
Reconciled(left, b) ==
    /\ \/ Measure(Head(left), RecordHit(metrics, Head(left).age), b)
       \/ Measure(Head(left), RecordMiss(metrics, Head(left).age), b)
    /\ guesses' = Tail(left)

\* Passthrough: last_flush_at.take() does, if there is one.
NotGuessed(b) ==
    /\ guesses' = << >>
    /\ \/ \E flush \in lastFlush :
            Measure(flush, RecordRtt(metrics, flush.age), b)
       \/ /\ lastFlush = {}
          /\ buf' = b
          /\ UNCHANGED <<metrics, lastFlush, taken>>

\* The PTY is readable.  The output may switch the modes first: entering the
\* alternate screen drops the guesses.
ReadPty(switch) ==
    LET left == IF switch = "enter" THEN << >> ELSE guesses
        b == CASE switch = "enter" -> SetPassthrough(buf, TRUE)
               [] switch = "exit"  -> SetPassthrough(buf, FALSE)
               [] OTHER            -> buf
    IN  /\ phase = "select"
        /\ reads < MaxReads
        /\ reads' = reads + 1
        /\ IF left = << >> THEN NotGuessed(b) ELSE Reconciled(left, b)
        /\ sinceTurn' = 0
        /\ UNCHANGED <<phase, chunk, bar, stream>>

Reconnect_KeepsLast ==
    /\ phase = "select"
    /\ session < MaxSessions
    /\ session' = session + 1
    /\ dropped' = dropped + Len(buf.data)
    /\ buf' = Take(buf)
    /\ guesses' = << >>
    /\ sinceTurn' = 0
    /\ UNCHANGED <<phase, chunk, metrics, lastFlush, bar, typed, reads, taken>>

\* reconnect(), from the end of one session to the next.  The depth that the
\* metrics keep is not told.
Reconnect ==
    /\ phase = "select"
    /\ session < MaxSessions
    /\ session' = session + 1
    /\ dropped' = dropped + Len(buf.data)
    /\ buf' = Take(buf)
    /\ lastFlush' = {}
    /\ guesses' = << >>
    /\ sinceTurn' = 0
    /\ UNCHANGED <<phase, chunk, metrics, bar, typed, reads, taken>>

RenderStats_WhenWaiting ==
    /\ phase = "select"
    /\ buf.data # << >>
    /\ sinceTurn = StatsPeriod
    /\ bar' = Shown(metrics)
    /\ sinceTurn' = 0
    /\ UNCHANGED <<phase, buf, chunk, metrics, lastFlush, guesses, stream, reads,
                   taken>>

\* sleep(250 ms), if show_stats: begun anew in every turn of the loop.
RenderStats ==
    /\ phase = "select"
    /\ sinceTurn = StatsPeriod
    /\ bar' = Shown(metrics)
    /\ sinceTurn' = 0
    /\ UNCHANGED <<phase, buf, chunk, metrics, lastFlush, guesses, stream, reads,
                   taken>>

\* An age d milliseconds later.
Older(age, d, limit) == IF age + d < limit THEN age + d ELSE limit

\* d milliseconds go by.
Elapse(d) ==
    /\ phase # "ended"
    /\ buf' = Age(buf, d)
    /\ lastFlush' = {[f EXCEPT !.age = Older(@, d, MaxRtt)] : f \in lastFlush}
    /\ guesses' = [i \in 1..Len(guesses) |->
                       [guesses[i] EXCEPT !.age = Older(@, d, MaxRtt)]]
    /\ sinceTurn' = Older(sinceTurn, d, StatsPeriod)
    /\ UNCHANGED <<phase, chunk, metrics, bar, stream, reads, taken>>

Next ==
    \/ \E kind \in Keys : ReadKey(kind)
    \/ FlushDeadline
    \/ Written
    \/ WriteFails
    \/ \E switch \in {"none", "enter", "exit"} : ReadPty(switch)
    \/ Reconnect
    \/ RenderStats
    \/ \E d \in Delays : Elapse(d)

Spec == Init /\ [][Next]_vars

\* The clock goes on, a write ends, and select! polls its ready branches in
\* random order.
Fairness ==
    /\ \A d \in Delays : WF_vars(Elapse(d))
    /\ WF_vars(Written \/ WriteFails)
    /\ WF_vars(FlushDeadline)
    /\ SF_vars(RenderStats)

FairSpec == Spec /\ Fairness

-----------------------------------------------------------------------------

\* Every variable keeps its type.
TypeOK ==
    /\ phase \in Phases
    /\ DOMAIN buf = DOMAIN NewBuffer(FALSE, FALSE)
    /\ buf.deadline \in Nat /\ buf.interval \in Nat
    /\ chunk \in Seq([kind : Kinds])
    /\ metrics \in [samples : Seq(Nat), sent : Nat, flushes : Nat, saved : Nat,
                    hits : Nat, misses : Nat, depth : Nat]
    /\ lastFlush \subseteq Flush /\ guesses \in Seq(Flush)
    /\ \A f, g \in lastFlush : f = g
    /\ sinceTurn \in 0..StatsPeriod
    /\ session \in 1..MaxSessions /\ typed \in 0..MaxTyped /\ dropped \in 0..typed
    /\ reads \in 0..MaxReads
    /\ taken \in Seq([id : Nat, rtt : Nat, of : 1..MaxSessions,
                      at : 1..MaxSessions])

\* "Evicts the oldest when at capacity" (metrics.rs, written out three times):
\* whatever mixture of guessed and other round trips came, the ring holds the
\* last of all that were ever measured, as many as it has room for.
RingKeepsLatest ==
    LET ring == metrics.samples
    IN  /\ Len(ring) = IF Len(taken) < RttCapacity THEN Len(taken) ELSE RttCapacity
        /\ \A i \in 1..Len(ring) :
            ring[i] = taken[Len(taken) - Len(ring) + i].rtt

\* A round trip is that of one flush: no flush is measured twice, though both
\* the predictor and last_flush_at remember it, and none is measured by the
\* output of a later session (proxy.rs, run and reconnect).
SamplesGenuine ==
    \A i \in 1..Len(taken) :
        /\ taken[i].of = taken[i].at
        /\ \A j \in 1..Len(taken) : taken[i].id = taken[j].id => i = j

\* The counters account for every byte typed: sent, being written, batched,
\* carried or dropped by a reconnect; and each flush but for its first byte
\* saved a write: "total_bytes_sent - total_flushes" (PHASE2.md), which no empty
\* flush may spoil.
BytesAccounted ==
    /\ typed = metrics.sent + Len(chunk) + Len(buf.data) + Len(buf.carry) + dropped
    /\ metrics.saved = metrics.sent - metrics.flushes

\* The interval is the configured one or, as soon as there is a round trip and
\* with --adaptive, the one for the present estimate: no path that records a
\* round trip forgets to tune the buffer, and no reconnect undoes it.
IntervalTuned ==
    buf.interval = IF buf.adaptive /\ taken # << >>
                   THEN AdaptiveInterval(RttEstimate(metrics))
                   ELSE FlushInterval

\* Once keys and output pause, the bar shows the present numbers, though every
\* turn of the loop starts its timer anew (proxy.rs, statistics branch).
BarCatchesUp == []<>(bar = Shown(metrics) \/ phase = "ended")

=============================================================================
