------------------------------ MODULE BufferOps ------------------------------
(***************************************************************************)
(* The InputBuffer of src/buffer.rs as pure operators on a record.         *)
(*                                                                         *)
(* A byte is a record with at least a field kind: what from_utf8 and       *)
(* is_immediate tell apart.  Modules that use these operators add fields   *)
(* of their own (which byte it is, which session it was typed in).         *)
(*                                                                         *)
(* Time is relative: deadline is the number of milliseconds left until the *)
(* Instant the code keeps, 0 when that Instant has been reached.           *)
(***************************************************************************)
EXTENDS Integers, Sequences

CONSTANTS
    FlushInterval,  \* InputBuffer::new's flush_interval, in milliseconds
    MaxSize,        \* InputBuffer::new's max_size
    Hour            \* the 3600 s that new() and take() put the deadline away

ASSUME FlushIntervalAssumption == FlushInterval \in Nat
ASSUME MaxSizeAssumption == MaxSize \in Nat
ASSUME HourAssumption == Hour \in Nat

-----------------------------------------------------------------------------

\* What a byte is to this code: an ordinary one-byte character, a command
\* boundary, the first byte of a character of 2, 3 or 4 bytes, a continuation
\* byte, or a byte that is valid nowhere (0xFF, or a continuation byte out of
\* the range its lead allows, such as the second byte of E0 80).
Leads == {"lead2", "lead3", "lead4"}
Kinds == {"text", "immediate", "cont", "bad"} \cup Leads

Width(kind) == CASE kind = "lead2" -> 2
                 [] kind = "lead3" -> 3
                 [] kind = "lead4" -> 4
                 [] OTHER          -> 1

\* The bytes s are the beginning of one character: from_utf8 fails on them
\* with valid_up_to = 0 and error_len = None.
IsPartial(s) ==
    /\ s # << >>
    /\ s[1].kind \in Leads
    /\ Len(s) < Width(s[1].kind)
    /\ \A i \in 2..Len(s) : s[i].kind = "cont"

-----------------------------------------------------------------------------

NewBuffer(passthrough, adaptive) ==
    [data |-> << >>, carry |-> << >>, deadline |-> Hour,
     interval |-> FlushInterval, passthrough |-> passthrough,
     binary |-> FALSE, adaptive |-> adaptive]

IsImmediate(k) == k.kind = "immediate"

Bypasses(b) == b.passthrough \/ b.binary

\* Wrong on purpose, as is every operator with an underscore in its name: the
\* variants that a run must be able to tell from the program.
PushRaw_Unarmed(b, k) == [b EXCEPT !.data = Append(b.data, k)]

\* Passthrough or binary mode: the byte goes straight to data.
PushRaw(b, k) ==
    [b EXCEPT !.data = Append(b.data, k),
              !.deadline = IF b.data = << >> THEN b.interval ELSE @]

\* Cooked mode: the byte joins the carry; the carry moves to data as soon as
\* it is a whole character, or can never become one.
PushCooked(b, k) ==
    LET joined == Append(b.carry, k)
    IN  IF IsPartial(joined)
        THEN [b EXCEPT !.carry = joined]
        ELSE [b EXCEPT !.data = b.data \o joined,
                       !.carry = << >>,
                       !.deadline = IF b.data = << >> /\ b.carry = << >>
                                    THEN b.interval ELSE @]

Push_Unchecked(b, k) == PushRaw(b, k)

Push_CountsOnly(b, k) ==
    LET joined == Append(b.carry, k)
    IN  IF Bypasses(b) THEN PushRaw(b, k)
        ELSE IF Len(joined) < Width(joined[1].kind)
        THEN [b EXCEPT !.carry = joined]
        ELSE [b EXCEPT !.data = b.data \o joined, !.carry = << >>]

Push_CarryFirst(b, k) ==
    LET p == PushCooked(b, k)
    IN  IF Bypasses(b) THEN PushRaw(b, k)
        ELSE IF p.carry # << >> THEN p
        ELSE [p EXCEPT !.data = Append(b.carry, k) \o b.data]

Push(b, k) == IF Bypasses(b) THEN PushRaw(b, k) ELSE PushCooked(b, k)

IsFull_OneLate(b) == Len(b.data) > MaxSize

IsFull(b) == Len(b.data) >= MaxSize

ShouldFlush_IgnoresSize(b) ==
    b.data # << >> /\ (b.passthrough \/ b.deadline = 0)

ShouldFlush(b) ==
    /\ b.data # << >>
    /\ b.passthrough \/ IsFull(b) \/ b.deadline = 0

\* The answer of push_and_maybe_flush, given the buffer after its push.
FlushAfterPush(b, k) == IsImmediate(k) \/ ShouldFlush(b)

Take_KeepsBatch(b) == [b EXCEPT !.deadline = Hour]

Take_LosesCarry(b) ==
    [b EXCEPT !.data = << >>, !.carry = << >>, !.deadline = Hour]

\* The buffer that take() leaves; the batch it returns is b.data.
Take(b) == [b EXCEPT !.data = << >>, !.deadline = Hour]

SetPassthrough(b, enabled) == [b EXCEPT !.passthrough = enabled]

SetBinaryMode(b, enabled) == [b EXCEPT !.binary = enabled]

\* calculate_adaptive_interval, in milliseconds.
AdaptiveInterval(rtt) ==
    CASE rtt < 50  -> IF rtt \div 2 < 5 THEN 5 ELSE rtt \div 2
      [] rtt > 200 -> IF (rtt * 3) \div 10 > 100 THEN 100 ELSE (rtt * 3) \div 10
      [] OTHER     -> 20

SetAdaptiveInterval(b, rtt) ==
    [b EXCEPT !.interval = IF b.adaptive THEN AdaptiveInterval(rtt) ELSE @]

\* What is left of a time after d milliseconds.
Later(left, d) == IF left > d THEN left - d ELSE 0

Age_Unclamped(b, d) == [b EXCEPT !.deadline = @ - d]

\* d milliseconds go by.
Age(b, d) == [b EXCEPT !.deadline = Later(@, d)]

=============================================================================
