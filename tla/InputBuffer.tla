----------------------------- MODULE InputBuffer -----------------------------
(***************************************************************************)
(* The keystroke buffer (src/buffer.rs) driven the way the proxy drives it  *)
(* (src/proxy.rs): one byte of stdin at a time, the flush timer, the        *)
(* take() of a reconnect, the mode switches and the interval tuning.        *)
(*                                                                          *)
(* sent, lost and owed are history and environment: what left the buffer    *)
(* for the PTY, what reconnects dropped, and how many continuation bytes    *)
(* the keyboard still has to deliver of the character it began.  due is the *)
(* promise of the module's own comment, "batches keystrokes for up to       *)
(* flush_interval": the time the batch in data may still wait.              *)
(***************************************************************************)
EXTENDS BufferOps

CONSTANTS
    Adaptive,    \* config.buffer.adaptive
    StartRaw,    \* config.buffer.passthrough
    Keys,        \* the kinds of byte the keyboard sends
    MaxTyped,    \* bound: bytes typed in a behaviour
    MaxLost,     \* bound: bytes dropped by reconnects in a behaviour
    Rtts,        \* the RTT estimates handed to set_adaptive_interval
    Delays,      \* the steps in which time passes, in milliseconds
    Utf8Only,    \* the keyboard sends only well-formed UTF-8
    Switching    \* when modes may change: "never", "between_chars", "any_time"

ASSUME FlagAssumption == Adaptive \in BOOLEAN /\ StartRaw \in BOOLEAN /\ Utf8Only \in BOOLEAN
ASSUME KeysAssumption == Keys \subseteq Kinds
ASSUME BoundAssumption == MaxTyped \in Nat /\ MaxLost \in Nat
ASSUME TimeAssumption == Rtts \subseteq Nat /\ Delays \subseteq Nat
ASSUME SwitchingAssumption == Switching \in {"never", "between_chars", "any_time"}

VARIABLES
    buf,    \* the InputBuffer
    typed,  \* how many bytes have been read from stdin
    sent,   \* the bytes written to the PTY master, in order
    lost,   \* the bytes dropped by reconnects
    owed,   \* continuation bytes the keyboard still has to deliver
    due     \* milliseconds the batch in buf.data may still be held

vars == <<buf, typed, sent, lost, owed, due>>

\* The nth byte of the keyboard, of the given kind.
Byte == [kind : Kinds, nth : Nat]

Buffer == [data : Seq(Byte), carry : Seq(Byte), deadline : Nat, interval : Nat,
           passthrough : BOOLEAN, binary : BOOLEAN, adaptive : BOOLEAN]

-----------------------------------------------------------------------------

Init ==
    /\ buf = NewBuffer(StartRaw, Adaptive)
    /\ typed = 0
    /\ sent = << >>
    /\ lost = << >>
    /\ owed = 0
    /\ due = 0

\* The keyboard may send this kind of byte next.
MayType(kind) ==
    /\ kind \in Keys
    /\ Utf8Only => kind # "bad" /\ (kind = "cont" <=> owed > 0)

\* What the keyboard owes after a byte of this kind.
OwedAfter(kind) ==
    IF ~Utf8Only THEN 0
    ELSE IF kind = "cont" THEN owed - 1 ELSE Width(kind) - 1

\* The batch leaves the buffer: take() and the write to the PTY master.
Flush(b) ==
    /\ buf' = Take(b)
    /\ sent' = sent \o b.data

\* The stdin branch of the event loop: push_and_maybe_flush, then take() and
\* the write when it says so.  The branch is disabled while the buffer is full.
ReadKey(kind) ==
    LET k == [kind |-> kind, nth |-> typed + 1]
        b == Push(buf, k)
    IN  /\ typed < MaxTyped
        /\ ~IsFull(buf)
        /\ MayType(kind)
        /\ typed' = typed + 1
        /\ owed' = OwedAfter(kind)
        /\ due' = IF buf.data = << >> THEN buf.interval ELSE due
        /\ IF FlushAfterPush(b, k)
           THEN Flush(b)
           ELSE buf' = b /\ UNCHANGED sent
        /\ UNCHANGED lost

FlushDeadline_WholeCharsOnly ==
    /\ buf.data # << >>
    /\ buf.carry = << >>
    /\ buf.deadline = 0
    /\ Flush(buf)
    /\ UNCHANGED <<typed, lost, owed, due>>

\* The timer branch: enabled while the buffer holds a batch.
FlushDeadline ==
    /\ buf.data # << >>
    /\ buf.deadline = 0
    /\ Flush(buf)
    /\ UNCHANGED <<typed, lost, owed, due>>

\* reconnect() drops the batch.
Discard ==
    /\ Len(lost) + Len(buf.data) <= MaxLost
    /\ buf' = Take(buf)
    /\ lost' = lost \o buf.data
    /\ UNCHANGED <<typed, sent, owed, due>>

\* The modes may change now.
MaySwitch ==
    \/ Switching = "any_time"
    \/ Switching = "between_chars" /\ buf.carry = << >> /\ owed = 0

\* Output of the remote side switched the alternate screen on or off.
SwitchPassthrough ==
    /\ MaySwitch
    /\ buf' = SetPassthrough(buf, ~buf.passthrough)
    /\ UNCHANGED <<typed, sent, lost, owed, due>>

SwitchBinaryMode ==
    /\ MaySwitch
    /\ buf' = SetBinaryMode(buf, ~buf.binary)
    /\ UNCHANGED <<typed, sent, lost, owed, due>>

\* A round trip was measured.
Tune(rtt) ==
    /\ buf' = SetAdaptiveInterval(buf, rtt)
    /\ UNCHANGED <<typed, sent, lost, owed, due>>

Elapse(d) ==
    /\ buf' = Age(buf, d)
    /\ due' = Later(due, d)
    /\ UNCHANGED <<typed, sent, lost, owed>>

Next ==
    \/ \E kind \in Keys : ReadKey(kind)
    \/ FlushDeadline
    \/ Discard
    \/ SwitchPassthrough
    \/ SwitchBinaryMode
    \/ \E rtt \in Rtts : Tune(rtt)
    \/ \E d \in Delays : Elapse(d)

Spec == Init /\ [][Next]_vars

\* The clock does not stop, and a select! polls its ready branches in random
\* order, so a timer that stays expired is served.
Fairness == /\ \A d \in Delays : WF_vars(Elapse(d))
            /\ WF_vars(FlushDeadline)

FairSpec == Spec /\ Fairness

-----------------------------------------------------------------------------

\* Bytes, times and counters stay within their types.
TypeOK ==
    /\ buf \in Buffer
    /\ typed \in Nat
    /\ sent \in Seq(Byte)
    /\ lost \in Seq(Byte)
    /\ owed \in 0..3
    /\ due \in Nat

\* "Never included in data": what is carried is always the beginning of one
\* character, whatever bytes, switches and reconnects came before
\* (buffer.rs, utf8_carry), so push never has to re-split it.
CarryIsPartialChar == buf.carry = << >> \/ IsPartial(buf.carry)

\* A batch that could be flushed for its size never waits: between two
\* events the buffer is below max_size, so the backpressure guard of the
\* stdin branch (proxy.rs, is_full) never stops the keyboard.
BelowMaxSize == buf.data = << >> \/ Len(buf.data) < MaxSize

\* A batch is never larger than max_size, but for the rest of the one
\* character that crossed it: at most three bytes (buffer.rs, push extends
\* data by a whole carry before should_flush looks at the length).
BatchBound == [][Len(sent') <= Len(sent) + MaxSize + 3]_vars

\* The timer that will flush a batch expires no later than flush_interval
\* after the batch began, if the batch began with a one-byte character.
AsciiHeldOnTime ==
    buf.data # << >> /\ buf.data[1].kind \notin Leads => buf.deadline <= due

\* "Batches keystrokes for up to flush_interval" (buffer.rs), for any batch.
HeldOnTime == buf.data # << >> => buf.deadline <= due

\* Every byte read from stdin is in exactly one place: written, dropped,
\* batched or carried.
Accounted ==
    LET places == sent \o lost \o buf.data \o buf.carry
    IN  /\ Len(places) = typed
        /\ {places[i].nth : i \in 1..Len(places)} = 1..typed

\* The bytes s were typed in this order.
Ascending(s) == \A i, j \in 1..Len(s) : i < j => s[i].nth < s[j].nth

\* "Does not reorder bytes" (docs/02-ssh-buffering.md): what was written, then
\* what is batched, then what is carried is in the order it was typed.
InOrder == Ascending(sent \o buf.data \o buf.carry)

\* The bytes s stop in the middle of a character, typed as it stands.
EndsInsideChar(s) ==
    \E n \in 1..3 :
        /\ n <= Len(s)
        /\ IsPartial(SubSeq(s, Len(s) - n + 1, Len(s)))
        /\ s[Len(s)].nth = s[Len(s) - n + 1].nth + n - 1

\* "Buffering must not split multi-byte UTF-8 sequences across flush
\* boundaries" (docs/02-ssh-buffering.md): a write made in cooked mode leaves
\* the remote side with whole characters only.
WholeChars ==
    [][sent' # sent /\ ~Bypasses(buf) => ~EndsInsideChar(sent')]_vars

\* A batch does not stay in the buffer for ever, even one no timer was armed
\* for.
BatchDrains == buf.data # << >> ~> buf.data = << >>

\* The buffer is a FIFO channel from the keyboard to the PTY.
Channel == INSTANCE KeyChannel WITH pending <- buf.data \o buf.carry,
                                    Byte <- [kind : Keys, nth : 1..MaxTyped]
ChannelSpec == Channel!Spec

=============================================================================
