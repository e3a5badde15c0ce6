-------------------------- MODULE InputBufferProofs --------------------------
(***************************************************************************)
(* Theorems about InputBuffer, for every flush interval, size, keyboard,   *)
(* bound and switching discipline.                                         *)
(***************************************************************************)
EXTENDS InputBuffer, SequenceTheorems, TLAPS

USE DEF Leads, Kinds

-----------------------------------------------------------------------------
\* The operators of the buffer.

\* A character has one to four bytes.
LEMMA WidthType == ASSUME NEW kind \in Kinds PROVE Width(kind) \in 1..4
  BY DEF Width

\* push maps buffers to buffers.
LEMMA PushType ==
  ASSUME NEW b \in Buffer, NEW k \in Byte
  PROVE  Push(b, k) \in Buffer
<1> USE DEF Buffer
<1>1. PushRaw(b, k) \in Buffer
  <2>1. Append(b.data, k) \in Seq(Byte)
    OBVIOUS
  <2> HIDE DEF Byte
  <2> QED BY <2>1 DEF PushRaw
<1>2. PushCooked(b, k) \in Buffer
  <2> DEFINE joined == Append(b.carry, k)
  <2>1. joined \in Seq(Byte)
    OBVIOUS
  <2>2. b.data \o joined \in Seq(Byte)
    BY <2>1
  <2>3. << >> \in Seq(Byte)
    OBVIOUS
  <2>4. PushCooked(b, k) =
          IF IsPartial(joined)
          THEN [b EXCEPT !.carry = joined]
          ELSE [b EXCEPT !.data = b.data \o joined,
                         !.carry = << >>,
                         !.deadline = IF b.data = << >> /\ b.carry = << >>
                                      THEN b.interval ELSE @]
    BY DEF PushCooked
  <2> HIDE DEF joined
  <2> QED BY <2>1, <2>2, <2>3, <2>4
<1> QED BY <1>1, <1>2 DEF Push

\* take, the switches, the tuning and the clock map buffers to buffers.
LEMMA OperatorTypes ==
  ASSUME NEW b \in Buffer
  PROVE  /\ Take(b) \in Buffer
         /\ \A e \in BOOLEAN : SetPassthrough(b, e) \in Buffer
         /\ \A e \in BOOLEAN : SetBinaryMode(b, e) \in Buffer
         /\ \A rtt \in Nat : SetAdaptiveInterval(b, rtt) \in Buffer
         /\ \A d \in Nat : Age(b, d) \in Buffer
<1>1. Take(b) \in Buffer
  <2>1. << >> \in Seq(Byte)
    OBVIOUS
  <2> QED BY <2>1, HourAssumption DEF Take, Buffer
<1>2. \A e \in BOOLEAN : SetPassthrough(b, e) \in Buffer
  BY DEF SetPassthrough, Buffer
<1>3. \A e \in BOOLEAN : SetBinaryMode(b, e) \in Buffer
  BY DEF SetBinaryMode, Buffer
<1>4. \A rtt \in Nat : SetAdaptiveInterval(b, rtt) \in Buffer
  <2>1. \A rtt \in Nat : AdaptiveInterval(rtt) \in Nat
    BY DEF AdaptiveInterval
  <2> QED BY <2>1 DEF SetAdaptiveInterval, Buffer
<1>5. \A d \in Nat : Age(b, d) \in Buffer
  <2>1. \A d \in Nat : Later(b.deadline, d) \in Nat
    BY DEF Later, Buffer
  <2> QED BY <2>1 DEF Age, Buffer
<1> QED BY <1>1, <1>2, <1>3, <1>4, <1>5

\* The tuned interval stays between 5 and 100 milliseconds, whatever RTT was
\* measured (calculate_adaptive_interval's MIN and MAX).
THEOREM AdaptiveIntervalBounds ==
  \A rtt \in Nat : AdaptiveInterval(rtt) \in 5..100
  BY DEF AdaptiveInterval

-----------------------------------------------------------------------------
\* Type correctness.

\* Every reachable state is well typed: in particular no reachable history of
\* pushes, takes and switches lets the keyboard's debt of continuation bytes
\* leave 0..3 or a timer go below zero.
THEOREM TypeCorrect == Spec => []TypeOK
<1>1. Init => TypeOK
  BY FlushIntervalAssumption, HourAssumption, FlagAssumption
     DEF Init, TypeOK, NewBuffer, Buffer
<1>2. TypeOK /\ [Next]_vars => TypeOK'
  <2> SUFFICES ASSUME TypeOK, [Next]_vars PROVE TypeOK'
    OBVIOUS
  <2> USE DEF TypeOK
  <2>1. buf.data \in Seq(Byte) /\ buf.interval \in Nat
    BY DEF Buffer
  <2>2. ASSUME NEW kind \in Keys, ReadKey(kind) PROVE TypeOK'
    <3> DEFINE k == [kind |-> kind, nth |-> typed + 1]
               b == Push(buf, k)
    <3>1. kind \in Kinds
      BY KeysAssumption
    <3>2. k \in Byte
      BY <3>1 DEF Byte
    <3>3. b \in Buffer
      BY <3>2, PushType
    <3>4. b.data \in Seq(Byte) /\ Take(b) \in Buffer
      BY <3>3, OperatorTypes DEF Buffer
    <3>5. buf' \in Buffer /\ sent' \in Seq(Byte)
      <4>1. \/ buf' = Take(b) /\ sent' = sent \o b.data
            \/ buf' = b /\ sent' = sent
        BY <2>2 DEF ReadKey, Flush
      <4>2. sent \o b.data \in Seq(Byte)
        BY <3>4
      <4> HIDE DEF b
      <4> QED BY <3>3, <3>4, <4>1, <4>2
    <3>6. owed' \in 0..3
      BY <2>2, <3>1, WidthType DEF ReadKey, MayType, OwedAfter
    <3> QED BY <2>1, <2>2, <3>5, <3>6 DEF ReadKey
  <2>3. CASE FlushDeadline
    BY <2>1, <2>3, OperatorTypes DEF FlushDeadline, Flush
  <2>4. CASE Discard
    BY <2>1, <2>4, OperatorTypes DEF Discard
  <2>5. CASE SwitchPassthrough
    BY <2>5, OperatorTypes DEF SwitchPassthrough, Buffer
  <2>6. CASE SwitchBinaryMode
    BY <2>6, OperatorTypes DEF SwitchBinaryMode, Buffer
  <2>7. ASSUME NEW rtt \in Rtts, Tune(rtt) PROVE TypeOK'
    BY <2>7, OperatorTypes, TimeAssumption DEF Tune
  <2>8. ASSUME NEW d \in Delays, Elapse(d) PROVE TypeOK'
    <3>1. d \in Nat
      BY TimeAssumption
    <3>2. buf' \in Buffer
      BY <2>8, <3>1, OperatorTypes DEF Elapse
    <3> QED BY <2>8, <3>1, <3>2 DEF Elapse, Later
  <2>9. CASE UNCHANGED vars
    BY <2>9 DEF vars
  <2> QED BY <2>2, <2>3, <2>4, <2>5, <2>6, <2>7, <2>8, <2>9 DEF Next
<1> QED BY <1>1, <1>2, PTL DEF Spec

-----------------------------------------------------------------------------
\* What is carried, how large the batch is, and when its timer expires.

CarryInv(b) == b.carry = << >> \/ IsPartial(b.carry)

\* push carries a beginning of one character or nothing.
LEMMA PushCarry ==
  ASSUME NEW b \in Buffer, NEW k \in Byte, CarryInv(b)
  PROVE  CarryInv(Push(b, k))
  BY DEF Push, PushRaw, PushCooked, CarryInv, Buffer

\* A concatenation begins as its first part does.
LEMMA ConcatHead ==
  ASSUME NEW S, NEW s \in Seq(S), NEW t \in Seq(S), s # << >>
  PROVE  s \o t # << >> /\ (s \o t)[1] = s[1]
<1>1. Len(s) \in Nat /\ Len(t) \in Nat /\ Len(s) >= 1
  BY EmptySeq, LenProperties
<1>2. Len(s \o t) = Len(s) + Len(t) /\ (s \o t)[1] = s[1]
  BY <1>1, ConcatProperties
<1> QED BY <1>1, <1>2

\* push never changes the beginning of a batch or its timer; a batch it
\* begins has its timer armed, unless it begins with a multi-byte character
\* whose first bytes were carried before.
LEMMA PushTimer ==
  ASSUME NEW b \in Buffer, NEW k \in Byte, CarryInv(b)
  PROVE  LET p == Push(b, k)
         IN  /\ b.data # << >> => /\ p.data # << >>
                                  /\ p.data[1] = b.data[1]
                                  /\ p.deadline = b.deadline
             /\ b.data = << >> => \/ p.data = << >>
                                  \/ p.deadline = b.interval
                                  \/ p.data[1].kind \in Leads
<1>0. /\ b.data \in Seq(Byte) /\ b.carry \in Seq(Byte)
  BY DEF Buffer
<1> DEFINE joined == Append(b.carry, k)
           p == Push(b, k)
<1>1. CASE Bypasses(b)
  <2>1. p.data = Append(b.data, k) /\
        p.deadline = IF b.data = << >> THEN b.interval ELSE b.deadline
    BY <1>1 DEF Push, PushRaw, Buffer
  <2>2. b.data # << >> => Append(b.data, k)[1] = b.data[1] /\ Append(b.data, k) # << >>
    BY <1>0
  <2> QED BY <2>1, <2>2
<1>2. CASE ~Bypasses(b) /\ IsPartial(joined)
  <2>1. p.data = b.data /\ p.deadline = b.deadline
    BY <1>2 DEF Push, PushCooked, Buffer
  <2> QED BY <2>1
<1>3. CASE ~Bypasses(b) /\ ~IsPartial(joined)
  <2>1. /\ p.data = b.data \o joined
        /\ p.deadline = IF b.data = << >> /\ b.carry = << >>
                        THEN b.interval ELSE b.deadline
    BY <1>3 DEF Push, PushCooked, Buffer
  <2>2. joined \in Seq(Byte) /\ Len(joined) = Len(b.carry) + 1
    BY <1>0
  <2>3. b.data # << >> => (b.data \o joined)[1] = b.data[1] /\ b.data \o joined # << >>
    BY <1>0, <2>2, ConcatHead
  <2>4. b.data = << >> => b.data \o joined = joined
    BY <1>0, <2>2, ConcatEmptySeq
  <2>5. b.carry # << >> => joined[1] = b.carry[1] /\ b.carry[1].kind \in Leads
    BY <1>0 DEF CarryInv, IsPartial
  <2> QED BY <2>1, <2>3, <2>4, <2>5
<1> QED BY <1>1, <1>2, <1>3

\* The three parts that need each other: which bytes were carried decides
\* whether the timer is armed, and a batch that was not flushed is short.
BufferInv == CarryIsPartialChar /\ BelowMaxSize /\ AsciiHeldOnTime

\* An operation that leaves data, carry and the timer of the batch alone.
LEMMA BufferInvStable ==
  ASSUME BufferInv, buf'.data = buf.data, buf'.carry = buf.carry,
         buf'.deadline = buf.deadline, due' = due
  PROVE  BufferInv'
  BY DEF BufferInv, CarryIsPartialChar, BelowMaxSize, AsciiHeldOnTime

\* An operation that empties data and leaves the carry alone.
LEMMA BufferInvTake ==
  ASSUME BufferInv, buf'.data = << >>, buf'.carry = buf.carry
  PROVE  BufferInv'
  BY DEF BufferInv, CarryIsPartialChar, BelowMaxSize, AsciiHeldOnTime

\* The three parts hold together after any history of keys, flushes,
\* reconnects, mode switches and tuning.
LEMMA BufferInvariant == Spec => []BufferInv
<1>1. Init => BufferInv
  BY DEF Init, NewBuffer, BufferInv, CarryIsPartialChar, BelowMaxSize, AsciiHeldOnTime
<1>2. TypeOK /\ BufferInv /\ [Next]_vars => BufferInv'
  <2> SUFFICES ASSUME TypeOK, BufferInv, [Next]_vars PROVE BufferInv'
    OBVIOUS
  <2>0. buf \in Buffer /\ due \in Nat
    BY DEF TypeOK
  <2>1. ASSUME NEW kind \in Keys, ReadKey(kind) PROVE BufferInv'
    <3> DEFINE k == [kind |-> kind, nth |-> typed + 1]
               b == Push(buf, k)
    <3>1. k \in Byte
      BY KeysAssumption DEF Byte, TypeOK
    <3>2. CarryInv(buf)
      BY DEF BufferInv, CarryIsPartialChar, CarryInv
    <3>3. b \in Buffer /\ CarryInv(b)
      BY <2>0, <3>1, <3>2, PushType, PushCarry
    <3>4. CASE FlushAfterPush(b, k)
      <4>1. buf' = Take(b)
        BY <2>1, <3>4 DEF ReadKey, Flush
      <4>2. buf'.data = << >> /\ buf'.carry = b.carry
        BY <3>3, <4>1 DEF Take, Buffer
      <4> QED BY <3>3, <4>2
            DEF BufferInv, CarryIsPartialChar, BelowMaxSize, AsciiHeldOnTime, CarryInv
    <3>5. CASE ~FlushAfterPush(b, k)
      <4>1. buf' = b /\ due' = IF buf.data = << >> THEN buf.interval ELSE due
        BY <2>1, <3>5 DEF ReadKey
      <4>2. CarryIsPartialChar'
        BY <3>3, <4>1 DEF CarryIsPartialChar, CarryInv
      <4>3. BelowMaxSize'
        <5>1. b.data = << >> \/ ~(Len(b.data) >= MaxSize)
          BY <3>5 DEF FlushAfterPush, ShouldFlush, IsFull
        <5>2. Len(b.data) \in Nat
          BY <3>3 DEF Buffer
        <5> QED BY <4>1, <5>1, <5>2, MaxSizeAssumption DEF BelowMaxSize
      <4>4. AsciiHeldOnTime'
        <5>1. CASE buf.data # << >>
          <6>1. b.data # << >> /\ b.data[1] = buf.data[1] /\ b.deadline = buf.deadline
            BY <2>0, <3>1, <3>2, <5>1, PushTimer
          <6> HIDE DEF b
          <6> QED BY <4>1, <5>1, <6>1 DEF AsciiHeldOnTime, BufferInv
        <5>2. CASE buf.data = << >>
          <6>1. b.data = << >> \/ b.deadline = buf.interval \/ b.data[1].kind \in Leads
            BY <2>0, <3>1, <3>2, <5>2, PushTimer
          <6>2. buf.interval \in Nat
            BY <2>0 DEF Buffer
          <6> HIDE DEF b
          <6> QED BY <4>1, <5>2, <6>1, <6>2 DEF AsciiHeldOnTime
        <5> QED BY <5>1, <5>2
      <4> QED BY <4>2, <4>3, <4>4 DEF BufferInv
    <3> QED BY <3>4, <3>5
  <2>2. CASE FlushDeadline
    BY <2>0, <2>2, BufferInvTake DEF FlushDeadline, Flush, Take, Buffer
  <2>3. CASE Discard
    BY <2>0, <2>3, BufferInvTake DEF Discard, Take, Buffer
  <2>4. CASE SwitchPassthrough
    BY <2>0, <2>4, BufferInvStable DEF SwitchPassthrough, SetPassthrough, Buffer
  <2>5. CASE SwitchBinaryMode
    BY <2>0, <2>5, BufferInvStable DEF SwitchBinaryMode, SetBinaryMode, Buffer
  <2>6. ASSUME NEW rtt \in Rtts, Tune(rtt) PROVE BufferInv'
    BY <2>0, <2>6, BufferInvStable DEF Tune, SetAdaptiveInterval, Buffer
  <2>7. ASSUME NEW d \in Delays, Elapse(d) PROVE BufferInv'
    <3>1. /\ buf'.data = buf.data /\ buf'.carry = buf.carry
          /\ buf'.deadline = Later(buf.deadline, d) /\ due' = Later(due, d)
      BY <2>0, <2>7 DEF Elapse, Age, Buffer
    <3>2. d \in Nat /\ buf.deadline \in Nat
      BY <2>0, TimeAssumption DEF Buffer
    <3>3. buf.deadline <= due => buf'.deadline <= due'
      BY <2>0, <3>1, <3>2 DEF Later
    <3> QED BY <3>1, <3>3
          DEF BufferInv, CarryIsPartialChar, BelowMaxSize, AsciiHeldOnTime
  <2>8. CASE UNCHANGED vars
    BY <2>8, BufferInvStable DEF vars
  <2> QED BY <2>1, <2>2, <2>3, <2>4, <2>5, <2>6, <2>7, <2>8 DEF Next
<1> QED BY <1>1, <1>2, TypeCorrect, PTL DEF Spec

\* push never carries more than the beginning of one character, so it never
\* has to split utf8_carry again.
THEOREM CarryCorrect == Spec => []CarryIsPartialChar
<1>1. BufferInv => CarryIsPartialChar
  BY DEF BufferInv
<1> QED BY <1>1, BufferInvariant, PTL

\* Between two turns of the event loop a waiting batch is shorter than
\* max_size, so is_full never closes the keyboard.
THEOREM SizeCorrect == Spec => []BelowMaxSize
<1>1. BufferInv => BelowMaxSize
  BY DEF BufferInv
<1> QED BY <1>1, BufferInvariant, PTL

\* A batch that begins with a one-byte character is flushed no later than
\* flush_interval after it began, whatever joins it.
THEOREM DeadlineCorrect == Spec => []AsciiHeldOnTime
<1>1. BufferInv => AsciiHeldOnTime
  BY DEF BufferInv
<1> QED BY <1>1, BufferInvariant, PTL

-----------------------------------------------------------------------------
\* Order.  All of it rests on one fact: nothing bypasses a carried byte.

\* The bytes a buffer holds, oldest first.
Held(b) == b.data \o b.carry

\* Unless the modes change at any moment, no byte is carried while bytes go
\* straight to data.
NothingBypassed == Bypasses(buf) => buf.carry = << >>

\* Appending to the second of two sequences appends to the whole.
LEMMA AppendOverConcat ==
  ASSUME NEW S, NEW s \in Seq(S), NEW t \in Seq(S), NEW e \in S
  PROVE  s \o Append(t, e) = Append(s \o t, e)
<1>1. /\ Len(s) \in Nat /\ Len(t) \in Nat
      /\ Append(t, e) \in Seq(S) /\ Len(Append(t, e)) = Len(t) + 1
      /\ \A i \in 1..Len(t) : Append(t, e)[i] = t[i]
      /\ Append(t, e)[Len(t) + 1] = e
  BY LenProperties
<1>2. /\ s \o t \in Seq(S) /\ Len(s \o t) = Len(s) + Len(t)
      /\ \A i \in 1..Len(s) + Len(t) :
            (s \o t)[i] = IF i <= Len(s) THEN s[i] ELSE t[i - Len(s)]
  BY ConcatProperties
<1> DEFINE a == Append(t, e)
           l == s \o a
           c == s \o t
           r == Append(c, e)
<1>3. a \in Seq(S) /\ Len(a) = Len(t) + 1
  BY <1>1
<1>4. /\ l \in Seq(S) /\ Len(l) = Len(s) + Len(a)
      /\ \A i \in 1..Len(s) + Len(a) :
            l[i] = IF i <= Len(s) THEN s[i] ELSE a[i - Len(s)]
  <2> HIDE DEF a
  <2> QED BY <1>3, ConcatProperties
<1>5. /\ r \in Seq(S) /\ Len(r) = Len(c) + 1
      /\ \A i \in 1..Len(c) : r[i] = c[i]
      /\ r[Len(c) + 1] = e
  <2>1. c \in Seq(S)
    BY <1>2
  <2> HIDE DEF c
  <2> QED BY <2>1, LenProperties
<1>6. /\ Len(a) = Len(t) + 1
      /\ \A i \in 1..Len(t) : a[i] = t[i]
      /\ a[Len(t) + 1] = e
      /\ Len(c) = Len(s) + Len(t)
      /\ \A i \in 1..Len(s) + Len(t) : c[i] = IF i <= Len(s) THEN s[i] ELSE t[i - Len(s)]
  BY <1>1, <1>2
<1>7. Len(l) = Len(r) /\ \A i \in 1..Len(l) : l[i] = r[i]
  <2> HIDE DEF a, l, c, r
  <2>1. Len(l) = Len(s) + Len(t) + 1 /\ Len(r) = Len(l)
    BY <1>1, <1>4, <1>5, <1>6
  <2>2. ASSUME NEW i \in 1..Len(l) PROVE l[i] = r[i]
    <3>1. i \in Int /\ i >= 1 /\ i <= Len(s) + Len(t) + 1
      BY <1>1, <2>1
    <3>2. l[i] = IF i <= Len(s) THEN s[i] ELSE a[i - Len(s)]
      BY <1>1, <1>4, <1>6, <3>1
    <3>3. CASE i <= Len(s) + Len(t)
      <4>1. r[i] = c[i] /\ c[i] = IF i <= Len(s) THEN s[i] ELSE t[i - Len(s)]
        BY <1>1, <1>5, <1>6, <3>1, <3>3
      <4>2. i > Len(s) => i - Len(s) \in 1..Len(t)
        BY <1>1, <3>1, <3>3
      <4> QED BY <1>6, <3>1, <3>2, <4>1, <4>2
    <3>4. CASE i = Len(s) + Len(t) + 1
      <4>1. i - Len(s) = Len(t) + 1 /\ ~(i <= Len(s)) /\ i = Len(c) + 1
        BY <1>1, <1>6, <3>4
      <4> QED BY <1>5, <1>6, <3>2, <4>1
    <3> QED BY <1>1, <3>1, <3>3, <3>4
  <2> QED BY <2>1, <2>2
<1> HIDE DEF a, l, c, r
<1>8. l = r
  BY <1>4, <1>5, <1>7, SeqEqual
<1> QED BY <1>8 DEF a, l, c, r

\* push adds the byte after all the bytes the buffer holds.
LEMMA PushAppends ==
  ASSUME NEW b \in Buffer, NEW k \in Byte, Bypasses(b) => b.carry = << >>
  PROVE  Held(Push(b, k)) = Append(Held(b), k)
<1>0. b.data \in Seq(Byte) /\ b.carry \in Seq(Byte)
  BY DEF Buffer
<1>a. \A s, t \in Seq(Byte) : s \o Append(t, k) = Append(s \o t, k)
  BY AppendOverConcat
<1>b. b.data \o Append(b.carry, k) = Append(b.data \o b.carry, k)
  BY <1>0, <1>a
<1> DEFINE p == Push(b, k)
<1>1. CASE Bypasses(b)
  <2>1. p.data = Append(b.data, k) /\ p.carry = << >> /\ b.carry = << >>
    BY <1>1 DEF Push, PushRaw, Buffer
  <2>2. Append(b.data, k) \in Seq(Byte)
    BY <1>0
  <2> HIDE DEF p
  <2>3. p.data \o p.carry = Append(b.data, k)
    BY <2>1, <2>2, ConcatEmptySeq
  <2>4. b.data \o b.carry = b.data
    BY <1>0, <2>1, ConcatEmptySeq
  <2> QED BY <2>3, <2>4 DEF Held, p
<1>2. CASE ~Bypasses(b) /\ IsPartial(Append(b.carry, k))
  <2>1. p.data = b.data /\ p.carry = Append(b.carry, k)
    BY <1>2 DEF Push, PushCooked, Buffer
  <2> QED BY <2>1, <1>b DEF Held
<1>3. CASE ~Bypasses(b) /\ ~IsPartial(Append(b.carry, k))
  <2>1. p.data = b.data \o Append(b.carry, k) /\ p.carry = << >>
    BY <1>3 DEF Push, PushCooked, Buffer
  <2>2. b.data \o Append(b.carry, k) = Append(b.data \o b.carry, k)
    BY <1>b
  <2>3. b.data \o b.carry \in Seq(Byte)
    BY <1>0, ConcatProperties
  <2>4. Append(b.data \o b.carry, k) \in Seq(Byte)
    BY <2>3
  <2> HIDE DEF p
  <2>5. p.data \o p.carry = p.data
    BY <2>1, <2>2, <2>4, ConcatEmptySeq
  <2> QED BY <2>1, <2>2, <2>5 DEF Held, p
<1> QED BY <1>1, <1>2, <1>3

\* What is held splits where data ends.
LEMMA HeldSplits ==
  ASSUME NEW b \in Buffer
  PROVE  /\ Held(b) \in Seq(Byte)
         /\ Len(b.data) \in 0..Len(Held(b))
         /\ SubSeq(Held(b), 1, Len(b.data)) = b.data
         /\ SubSeq(Held(b), Len(b.data) + 1, Len(Held(b))) = b.carry
<1> DEFINE d == b.data
           c == b.carry
<1>1. d \in Seq(Byte) /\ c \in Seq(Byte)
  BY DEF Buffer
<1> HIDE DEF d, c
<1>2. Len(d) \in Nat /\ Len(c) \in Nat
  BY <1>1, LenProperties
<1>3. d \o c \in Seq(Byte) /\ Len(d \o c) = Len(d) + Len(c)
  BY <1>1, ConcatProperties
<1>4. SubSeq(d \o c, 1, Len(d)) = d
  <2>1. \A i \in 1..Len(d) : (d \o c)[i] = d[i]
    BY <1>1, <1>2, ConcatProperties
  <2>2. \A i \in 1..Len(d) : (d \o c)[i] \in Byte
    BY <1>1, <2>1, ElementOfSeq
  <2>3. /\ SubSeq(d \o c, 1, Len(d)) \in Seq(Byte)
        /\ Len(SubSeq(d \o c, 1, Len(d))) = Len(d)
        /\ \A i \in 1..Len(d) : SubSeq(d \o c, 1, Len(d))[i] = d[i]
    <3>1. SubSeq(d \o c, 1, Len(d)) \in Seq(Byte)
      BY <1>2, <2>2, SubSeqProperties
    <3> QED BY <1>2, <1>3, <2>1, <3>1
  <2> QED BY <1>1, <2>3, SeqEqual
<1>5. SubSeq(d \o c, Len(d) + 1, Len(d \o c)) = c
  <2> DEFINE t == SubSeq(d \o c, Len(d) + 1, Len(d \o c))
  <2>1. \A i \in 1..Len(c) : (d \o c)[Len(d) + i] = c[i]
    BY <1>1, <1>2, ConcatProperties
  <2>2. \A i \in Len(d)+1..Len(d \o c) : (d \o c)[i] \in Byte
    BY <1>2, <1>3, ElementOfSeq
  <2>3. /\ t \in Seq(Byte)
        /\ Len(t) = Len(c)
        /\ \A i \in 1..Len(c) : t[i] = c[i]
    <3>1. t \in Seq(Byte)
      BY <1>2, <1>3, <2>2, SubSeqProperties
    <3> QED BY <1>2, <1>3, <2>1, <3>1
  <2> HIDE DEF t
  <2>4. t = c
    BY <1>1, <2>3, SeqEqual
  <2> QED BY <2>4 DEF t
<1>6. Len(d) \in 0..Len(d \o c)
  BY <1>2, <1>3
<1> QED BY <1>3, <1>4, <1>5, <1>6 DEF Held, d, c

\* Bytes never bypass a carried byte, if the modes change only while nothing
\* is carried.
LEMMA ModesInv ==
  ASSUME Switching # "any_time"
  PROVE  Spec => []NothingBypassed
<1>1. Init => NothingBypassed
  BY DEF Init, NewBuffer, NothingBypassed
<1>2. TypeOK /\ NothingBypassed /\ [Next]_vars => NothingBypassed'
  <2> SUFFICES ASSUME TypeOK, NothingBypassed, [Next]_vars
               PROVE  NothingBypassed'
    OBVIOUS
  <2>0. buf \in Buffer
    BY DEF TypeOK
  <2> USE DEF NothingBypassed, Bypasses, Buffer
  <2>1. ASSUME NEW kind \in Keys, ReadKey(kind) PROVE NothingBypassed'
    <3> DEFINE k == [kind |-> kind, nth |-> typed + 1]
               b == Push(buf, k)
    <3>1. b.passthrough = buf.passthrough /\ b.binary = buf.binary
      BY <2>0 DEF Push, PushRaw, PushCooked
    <3>2. Bypasses(buf) => b.carry = buf.carry
      BY <2>0 DEF Push, PushRaw
    <3>3. k \in Byte
      BY KeysAssumption DEF Byte, TypeOK
    <3>4. b \in Buffer
      BY <2>0, <3>3, PushType
    <3>5. buf' = b \/ buf' = Take(b)
      BY <2>1 DEF ReadKey, Flush
    <3>6. /\ buf'.passthrough = b.passthrough /\ buf'.binary = b.binary
          /\ buf'.carry = b.carry
      <4> HIDE DEF b
      <4> QED BY <3>4, <3>5 DEF Take
    <3> HIDE DEF b
    <3> QED BY <3>1, <3>2, <3>6
  <2>2. CASE FlushDeadline
    BY <2>0, <2>2 DEF FlushDeadline, Flush, Take
  <2>3. CASE Discard
    BY <2>0, <2>3 DEF Discard, Take
  <2>4. CASE SwitchPassthrough \/ SwitchBinaryMode
    <3>1. Switching = "between_chars" /\ buf.carry = << >>
      BY <2>4 DEF SwitchPassthrough, SwitchBinaryMode, MaySwitch
    <3>2. buf'.carry = buf.carry
      BY <2>0, <2>4 DEF SwitchPassthrough, SwitchBinaryMode, SetPassthrough, SetBinaryMode
    <3> QED BY <3>1, <3>2
  <2>5. ASSUME NEW rtt \in Rtts, Tune(rtt) PROVE NothingBypassed'
    BY <2>0, <2>5 DEF Tune, SetAdaptiveInterval
  <2>6. ASSUME NEW d \in Delays, Elapse(d) PROVE NothingBypassed'
    BY <2>0, <2>6 DEF Elapse, Age
  <2>7. CASE UNCHANGED vars
    BY <2>7 DEF vars
  <2> QED BY <2>1, <2>2, <2>3, <2>4, <2>5, <2>6, <2>7 DEF Next
<1> QED BY <1>1, <1>2, TypeCorrect, PTL DEF Spec

\* If the modes change only while no character is unfinished, the buffer is a
\* FIFO channel: no byte is invented, repeated or overtaken, whatever the
\* timers and reconnects do.
THEOREM ImplementsChannel ==
  ASSUME Switching # "any_time"
  PROVE  Spec => ChannelSpec
<1>1. Init => Channel!Init
  <2> SUFFICES ASSUME Init PROVE Channel!Init
    OBVIOUS
  <2>1. buf.data = << >> /\ buf.carry = << >> /\ sent = << >>
    BY DEF Init, NewBuffer
  <2>2. buf.data \o buf.carry = << >>
    BY <2>1, EmptySeq, ConcatEmptySeq
  <2> QED BY <2>1, <2>2 DEF Channel!Init
<1>2. TypeOK /\ TypeOK' /\ NothingBypassed /\ [Next]_vars
        => [Channel!Next]_(Channel!cvars)
  <2> SUFFICES ASSUME TypeOK, TypeOK', NothingBypassed, [Next]_vars
               PROVE  Channel!Next \/ (Held(buf)' = Held(buf) /\ sent' = sent)
    BY DEF Channel!cvars, Held
  <2>0. buf \in Buffer /\ buf.data \in Seq(Byte) /\ Held(buf) \in Seq(Byte)
    BY HeldSplits DEF TypeOK, Buffer
  <2>t. ASSUME NEW b \in Buffer PROVE Held(Take(b)) = b.carry
    <3>1. Take(b).data = << >> /\ Take(b).carry = b.carry /\ b.carry \in Seq(Byte)
      BY DEF Take, Buffer
    <3> QED BY <3>1, ConcatEmptySeq DEF Held
  <2>1. ASSUME NEW kind \in Keys, ReadKey(kind) PROVE Channel!Next
    <3> DEFINE k == [kind |-> kind, nth |-> typed + 1]
               b == Push(buf, k)
               p == Append(Held(buf), k)
    <3>1. k \in Byte /\ k \in [kind : Keys, nth : 1..MaxTyped]
      BY <2>1, KeysAssumption, BoundAssumption DEF Byte, TypeOK, ReadKey
    <3>2. b \in Buffer /\ Held(b) = p
      BY <2>0, <3>1, PushType, PushAppends DEF NothingBypassed
    <3>3. \/ buf' = b /\ sent' = sent
          \/ buf' = Take(b) /\ sent' = sent \o b.data
      BY <2>1 DEF ReadKey, Flush
    <3>4. \E n \in 0..Len(p) : /\ sent' = sent \o SubSeq(p, 1, n)
                               /\ Held(buf)' = SubSeq(p, n + 1, Len(p))
      <4> HIDE DEF b, p
      <4>0. p \in Seq(Byte) /\ Len(p) \in Nat /\ sent \in Seq(Byte)
        BY <3>2, HeldSplits, LenProperties DEF TypeOK
      <4>1. CASE buf' = b /\ sent' = sent
        <5>1. SubSeq(p, 1, 0) = << >> /\ SubSeq(p, 1, Len(p)) = p
          BY <4>0, SubSeqEmpty, SubSeqFull
        <5>2. sent \o << >> = sent
          BY <4>0, ConcatEmptySeq
        <5>3. Held(buf)' = p
          BY <3>2, <4>1 DEF Held
        <5> QED BY <4>0, <4>1, <5>1, <5>2, <5>3
      <4>2. CASE buf' = Take(b) /\ sent' = sent \o b.data
        <5>1. /\ Len(b.data) \in 0..Len(p)
              /\ SubSeq(p, 1, Len(b.data)) = b.data
              /\ SubSeq(p, Len(b.data) + 1, Len(p)) = b.carry
          BY <3>2, HeldSplits
        <5>2. Held(buf)' = b.carry
          BY <3>2, <4>2, <2>t DEF Held
        <5> QED BY <4>2, <5>1, <5>2
      <4> QED BY <3>3, <4>1, <4>2
    <3> HIDE DEF k, b
    <3> QED BY <3>1, <3>4 DEF Channel!Next, Channel!Type, Channel!HandOver, Held
  <2>2. ASSUME buf' = Take(buf), buf.data # << >>
        PROVE  /\ Len(buf.data) \in 1..Len(Held(buf))
               /\ SubSeq(Held(buf), 1, Len(buf.data)) = buf.data
               /\ Held(buf)' = SubSeq(Held(buf), Len(buf.data) + 1, Len(Held(buf)))
    <3>1. /\ Len(buf.data) \in 0..Len(Held(buf))
          /\ SubSeq(Held(buf), 1, Len(buf.data)) = buf.data
          /\ SubSeq(Held(buf), Len(buf.data) + 1, Len(Held(buf))) = buf.carry
      BY <2>0, HeldSplits
    <3>2. Held(buf)' = buf.carry
      BY <2>0, <2>2, <2>t DEF Held
    <3>3. Len(buf.data) # 0
      BY <2>0, <2>2, EmptySeq
    <3>4. Len(Held(buf)) \in Nat
      BY <2>0, LenProperties
    <3>5. Len(buf.data) \in 1..Len(Held(buf))
      BY <3>1, <3>3, <3>4
    <3> QED BY <3>1, <3>2, <3>5
  <2>3. CASE FlushDeadline
    <3>1. buf' = Take(buf) /\ buf.data # << >> /\ sent' = sent \o buf.data
      BY <2>3 DEF FlushDeadline, Flush
    <3>2. Channel!Flush
      BY <2>2, <3>1 DEF Channel!Flush, Channel!HandOver, Held
    <3> QED BY <3>2 DEF Channel!Next
  <2>4. CASE Discard
    <3>1. buf' = Take(buf) /\ sent' = sent
      BY <2>4 DEF Discard
    <3>2. CASE buf.data # << >>
      <4>1. Channel!Forget
        BY <2>2, <3>1, <3>2 DEF Channel!Forget, Held
      <4> QED BY <4>1 DEF Channel!Next
    <3>3. CASE buf.data = << >>
      <4>1. Held(buf)' = buf.carry
        BY <2>0, <2>t, <3>1 DEF Held
      <4>2. Held(buf) = buf.carry
        BY <2>0, <3>3, ConcatEmptySeq DEF Held, Buffer
      <4> QED BY <3>1, <4>1, <4>2
    <3> QED BY <3>2, <3>3
  <2>5. ASSUME buf'.data = buf.data, buf'.carry = buf.carry, sent' = sent
        PROVE  Held(buf)' = Held(buf) /\ sent' = sent
    BY <2>5 DEF Held
  <2>6. CASE SwitchPassthrough
    BY <2>0, <2>5, <2>6 DEF SwitchPassthrough, SetPassthrough, Buffer
  <2>7. CASE SwitchBinaryMode
    BY <2>0, <2>5, <2>7 DEF SwitchBinaryMode, SetBinaryMode, Buffer
  <2>8. CASE \E rtt \in Rtts : Tune(rtt)
    BY <2>0, <2>5, <2>8 DEF Tune, SetAdaptiveInterval, Buffer
  <2>9. CASE \E d \in Delays : Elapse(d)
    BY <2>0, <2>5, <2>9 DEF Elapse, Age, Buffer
  <2>10. CASE UNCHANGED vars
    BY <2>5, <2>10 DEF vars
  <2> QED BY <2>1, <2>3, <2>4, <2>6, <2>7, <2>8, <2>9, <2>10 DEF Next
<1>3. Spec => []NothingBypassed
  BY ModesInv
<1> QED BY <1>1, <1>2, <1>3, TypeCorrect, PTL DEF Spec, ChannelSpec, Channel!Spec

-----------------------------------------------------------------------------
\* Size and order.

\* push adds at most four bytes to data.
LEMMA PushGrowth ==
  ASSUME NEW b \in Buffer, NEW k \in Byte, CarryInv(b)
  PROVE  Len(Push(b, k).data) <= Len(b.data) + 4
<1>0. /\ b.data \in Seq(Byte) /\ b.carry \in Seq(Byte)
      /\ Len(b.data) \in Nat /\ Len(b.carry) \in Nat
  BY LenProperties DEF Buffer
<1>1. Len(b.carry) <= 3
  <2>1. CASE b.carry = << >>
    BY <2>1, EmptySeq
  <2>2. CASE b.carry # << >> /\ IsPartial(b.carry)
    <3>1. b.carry[1].kind \in Kinds /\ Len(b.carry) < Width(b.carry[1].kind)
      BY <1>0, <2>2 DEF IsPartial
    <3> QED BY <1>0, <3>1, WidthType
  <2> QED BY <2>1, <2>2 DEF CarryInv
<1>2. CASE Bypasses(b)
  <2>1. Push(b, k).data = Append(b.data, k)
    BY <1>2 DEF Push, PushRaw, Buffer
  <2> QED BY <1>0, <2>1
<1>3. CASE ~Bypasses(b) /\ IsPartial(Append(b.carry, k))
  BY <1>0, <1>3 DEF Push, PushCooked, Buffer
<1>4. CASE ~Bypasses(b) /\ ~IsPartial(Append(b.carry, k))
  <2> DEFINE joined == Append(b.carry, k)
  <2>1. Push(b, k).data = b.data \o joined
    BY <1>4 DEF Push, PushCooked, Buffer
  <2>2. joined \in Seq(Byte) /\ Len(joined) = Len(b.carry) + 1
    BY <1>0
  <2>3. \A s, t \in Seq(Byte) : Len(s \o t) = Len(s) + Len(t)
    BY ConcatProperties
  <2>4. Len(b.data \o joined) = Len(b.data) + Len(joined)
    BY <1>0, <2>2, <2>3
  <2> QED BY <1>0, <1>1, <2>1, <2>2, <2>4
<1> QED BY <1>2, <1>3, <1>4

\* No write to the PTY is larger than max_size and the rest of one character.
THEOREM BatchesBounded == Spec => BatchBound
<1>1. TypeOK /\ TypeOK' /\ BufferInv /\ [Next]_vars
        => [Len(sent') <= Len(sent) + MaxSize + 3]_vars
  <2> SUFFICES ASSUME TypeOK, TypeOK', BufferInv, [Next]_vars
               PROVE  Len(sent') <= Len(sent) + MaxSize + 3
    OBVIOUS
  <2>0. /\ buf \in Buffer /\ buf.data \in Seq(Byte) /\ sent \in Seq(Byte)
        /\ Len(sent) \in Nat /\ Len(buf.data) \in Nat
    BY LenProperties DEF TypeOK, Buffer
  <2>1. CASE sent' = sent
    BY <2>0, <2>1, MaxSizeAssumption
  <2>2. ASSUME NEW kind \in Keys, ReadKey(kind), sent' # sent
        PROVE  Len(sent') <= Len(sent) + MaxSize + 3
    <3> DEFINE k == [kind |-> kind, nth |-> typed + 1]
               b == Push(buf, k)
    <3>1. k \in Byte
      BY KeysAssumption DEF Byte, TypeOK
    <3>2. CarryInv(buf)
      BY DEF BufferInv, CarryIsPartialChar, CarryInv
    <3>3. b \in Buffer /\ Len(b.data) <= Len(buf.data) + 4
      BY <2>0, <3>1, <3>2, PushType, PushGrowth
    <3>4. sent' = sent \o b.data /\ ~IsFull(buf)
      BY <2>2 DEF ReadKey, Flush
    <3> HIDE DEF b
    <3>5. b.data \in Seq(Byte) /\ Len(b.data) \in Nat
      BY <3>3, LenProperties DEF Buffer
    <3>6. Len(sent') = Len(sent) + Len(b.data)
      BY <2>0, <3>4, <3>5
    <3> QED BY <2>0, <3>3, <3>4, <3>5, <3>6, MaxSizeAssumption DEF IsFull
  <2>3. CASE FlushDeadline
    <3>1. Len(sent') = Len(sent) + Len(buf.data)
      BY <2>0, <2>3 DEF FlushDeadline, Flush
    <3>2. Len(buf.data) < MaxSize
      BY <2>3 DEF FlushDeadline, BufferInv, BelowMaxSize
    <3> QED BY <2>0, <3>1, <3>2, MaxSizeAssumption
  <2>4. CASE \/ Discard \/ SwitchPassthrough \/ SwitchBinaryMode
             \/ \E rtt \in Rtts : Tune(rtt)
             \/ \E d \in Delays : Elapse(d)
             \/ UNCHANGED vars
    <3>1. sent' = sent
      BY <2>4 DEF Discard, SwitchPassthrough, SwitchBinaryMode, Tune, Elapse, vars
    <3> QED BY <2>1, <3>1
  <2> QED BY <2>1, <2>2, <2>3, <2>4 DEF Next
<1> QED BY <1>1, TypeCorrect, BufferInvariant, PTL DEF Spec, BatchBound

\* The bytes s were typed in this order, among the first n.
Chronological(s, n) == Ascending(s) /\ \A i \in 1..Len(s) : s[i].nth <= n

\* The newest byte may follow all the others.
LEMMA AppendNewest ==
  ASSUME NEW s \in Seq(Byte), NEW n \in Nat, NEW k \in Byte, k.nth = n + 1,
         Chronological(s, n)
  PROVE  Chronological(Append(s, k), n + 1)
<1>1. /\ Len(s) \in Nat
      /\ Len(Append(s, k)) = Len(s) + 1
      /\ \A i \in 1..Len(s) : Append(s, k)[i] = s[i]
      /\ Append(s, k)[Len(s) + 1] = k
  BY LenProperties
<1>2. \A i \in 1..Len(s) : s[i].nth \in Nat
  <2>1. \A i \in 1..Len(s) : s[i] \in Byte
    BY ElementOfSeq
  <2> QED BY <2>1 DEF Byte
<1> DEFINE a == Append(s, k)
<1> HIDE DEF a
<1>3. /\ Len(a) = Len(s) + 1
      /\ \A i \in 1..Len(s) : a[i] = s[i]
      /\ a[Len(s) + 1] = k
  BY <1>1 DEF a
<1>4. \A i \in 1..Len(a) : a[i].nth <= n + 1
  BY <1>1, <1>2, <1>3 DEF Chronological
<1>5. ASSUME NEW i \in 1..Len(a), NEW j \in 1..Len(a), i < j
      PROVE  a[i].nth < a[j].nth
  <2>1. CASE j = Len(s) + 1
    BY <1>1, <1>2, <1>3, <1>5, <2>1 DEF Chronological
  <2>2. CASE j \in 1..Len(s)
    BY <1>1, <1>3, <1>5, <2>2 DEF Chronological, Ascending
  <2> QED BY <1>1, <1>3, <2>1, <2>2
<1> QED BY <1>4, <1>5 DEF a, Chronological, Ascending

\* Forgetting the bytes in the middle keeps the others in order.
LEMMA DropMiddle ==
  ASSUME NEW s \in Seq(Byte), NEW d \in Seq(Byte), NEW c \in Seq(Byte),
         NEW n \in Nat, Chronological(s \o (d \o c), n)
  PROVE  Chronological(s \o c, n)
<1>1. Len(s) \in Nat /\ Len(d) \in Nat /\ Len(c) \in Nat
  BY LenProperties
<1>2. /\ d \o c \in Seq(Byte) /\ Len(d \o c) = Len(d) + Len(c)
      /\ \A i \in 1..Len(d) + Len(c) :
            (d \o c)[i] = IF i <= Len(d) THEN d[i] ELSE c[i - Len(d)]
  BY ConcatProperties
<1>3. /\ Len(s \o c) = Len(s) + Len(c)
      /\ \A i \in 1..Len(s) + Len(c) :
            (s \o c)[i] = IF i <= Len(s) THEN s[i] ELSE c[i - Len(s)]
  BY ConcatProperties
<1> DEFINE h == d \o c
           f == s \o h
           g == s \o c
           at(i) == IF i <= Len(s) THEN i ELSE i + Len(d)
<1>4. h \in Seq(Byte)
  BY <1>2
<1>5. /\ Len(f) = Len(s) + Len(h)
      /\ \A i \in 1..Len(s) + Len(h) :
            f[i] = IF i <= Len(s) THEN s[i] ELSE h[i - Len(s)]
  <2> HIDE DEF h
  <2> QED BY <1>4, ConcatProperties
<1>6. ASSUME NEW i \in 1..Len(g) PROVE at(i) \in 1..Len(f) /\ g[i] = f[at(i)]
  <2>1. Len(h) = Len(d) + Len(c) /\ Len(g) = Len(s) + Len(c)
    BY <1>2, <1>3
  <2>2. CASE i <= Len(s)
    <3> HIDE DEF f, g, h
    <3> QED BY <1>1, <1>3, <1>5, <2>1, <2>2 DEF g
  <2>3. CASE i > Len(s)
    <3>1. /\ i + Len(d) \in 1..Len(s) + Len(h)
          /\ i + Len(d) > Len(s)
          /\ i + Len(d) - Len(s) \in 1..Len(d) + Len(c)
          /\ i + Len(d) - Len(s) > Len(d)
      <4> HIDE DEF f, g, h
      <4> QED BY <1>1, <2>1, <2>3
    <3>2. f[i + Len(d)] = h[i + Len(d) - Len(s)]
      <4> HIDE DEF f, g, h
      <4> QED BY <1>1, <1>5, <3>1
    <3>3. h[i + Len(d) - Len(s)] = c[i + Len(d) - Len(s) - Len(d)]
      BY <1>1, <1>2, <3>1
    <3>4. g[i] = c[i - Len(s)]
      BY <1>1, <1>3, <2>1, <2>3
    <3>5. i + Len(d) - Len(s) - Len(d) = i - Len(s)
      BY <1>1
    <3> HIDE DEF f, g, h
    <3> QED BY <1>1, <1>5, <2>3, <3>1, <3>2, <3>3, <3>4, <3>5
  <2> QED BY <1>1, <2>1, <2>2, <2>3
<1>7. Chronological(f, n)
  OBVIOUS
<1>8. \A i, j \in 1..Len(g) : i < j => at(i) < at(j)
  <2>1. Len(g) \in Nat
    BY <1>1, <1>3
  <2> HIDE DEF f, g, h
  <2> QED BY <1>1, <2>1
<1> HIDE DEF f, g, h, at
<1>9. Chronological(g, n)
  BY <1>6, <1>7, <1>8 DEF Chronological, Ascending
<1> QED BY <1>9 DEF g

\* InOrder with what makes it inductive: no byte held is newer than the last
\* one typed.
OrderInv == Chronological(sent \o Held(buf), typed)

\* The bytes stay in order and behind the last one typed, if the modes change
\* only while no character is unfinished.
LEMMA OrderInvariant ==
  ASSUME Switching # "any_time"
  PROVE  Spec => []OrderInv
<1>1. Init => OrderInv
  <2> SUFFICES ASSUME Init PROVE OrderInv
    OBVIOUS
  <2>1. buf.data = << >> /\ buf.carry = << >> /\ sent = << >>
    BY DEF Init, NewBuffer
  <2>2. << >> \o (<< >> \o << >>) = << >>
    BY EmptySeq, ConcatEmptySeq
  <2>3. sent \o Held(buf) = << >>
    BY <2>1, <2>2 DEF Held
  <2> QED BY <2>3, EmptySeq DEF OrderInv, Chronological, Ascending
<1>2. TypeOK /\ TypeOK' /\ NothingBypassed /\ OrderInv /\ [Next]_vars => OrderInv'
  <2> SUFFICES ASSUME TypeOK, TypeOK', NothingBypassed, OrderInv, [Next]_vars
               PROVE  OrderInv'
    OBVIOUS
  <2>0. /\ buf \in Buffer /\ buf.data \in Seq(Byte) /\ buf.carry \in Seq(Byte)
        /\ sent \in Seq(Byte) /\ typed \in Nat
    BY DEF TypeOK, Buffer
  \* A write moves bytes from data to sent, and nothing else.
  <2>1. ASSUME NEW b \in Buffer
        PROVE  (sent \o b.data) \o Held(Take(b)) = sent \o Held(b)
    <3>1. b.data \in Seq(Byte) /\ b.carry \in Seq(Byte)
      BY DEF Buffer
    <3>2. Held(Take(b)) = << >> \o b.carry
      BY DEF Held, Take, Buffer
    <3>3. Held(Take(b)) = b.carry
      BY <3>1, <3>2, ConcatEmptySeq
    <3>4. \A s, t, u \in Seq(Byte) : (s \o t) \o u = s \o (t \o u)
      BY ConcatAssociative
    <3>5. (sent \o b.data) \o b.carry = sent \o (b.data \o b.carry)
      BY <2>0, <3>1, <3>4
    <3>6. sent \o (b.data \o b.carry) = sent \o Held(b)
      BY DEF Held
    <3> QED BY <3>3, <3>5, <3>6
  <2>2. ASSUME NEW kind \in Keys, ReadKey(kind) PROVE OrderInv'
    <3> DEFINE k == [kind |-> kind, nth |-> typed + 1]
               b == Push(buf, k)
    <3>1. k \in Byte /\ k.nth = typed + 1
      BY <2>0, KeysAssumption DEF Byte
    <3>2. b \in Buffer /\ Held(b) = Append(Held(buf), k)
      BY <2>0, <3>1, PushType, PushAppends DEF NothingBypassed
    <3>3. \/ buf' = b /\ sent' = sent
          \/ buf' = Take(b) /\ sent' = sent \o b.data
      BY <2>2 DEF ReadKey, Flush
    <3>4. typed' = typed + 1
      BY <2>2 DEF ReadKey
    <3> HIDE DEF k, b
    <3>5. (sent \o Held(buf))' = sent \o Held(b)
      <4>1. CASE buf' = b /\ sent' = sent
        BY <4>1 DEF Held
      <4>2. CASE buf' = Take(b) /\ sent' = sent \o b.data
        <5>1. Held(buf)' = Held(Take(b))
          BY <4>2 DEF Held
        <5> QED BY <2>1, <3>2, <4>2, <5>1
      <4> QED BY <3>3, <4>1, <4>2
    <3>6. Held(buf) \in Seq(Byte)
      BY <2>0, HeldSplits
    <3>7. \A t \in Seq(Byte) : sent \o Append(t, k) = Append(sent \o t, k)
      BY <2>0, <3>1, AppendOverConcat
    <3>8. (sent \o Held(buf))' = Append(sent \o Held(buf), k)
      BY <3>2, <3>5, <3>6, <3>7
    <3>9. \A s, t \in Seq(Byte) : s \o t \in Seq(Byte)
      BY ConcatProperties
    <3>10. sent \o Held(buf) \in Seq(Byte)
      BY <2>0, <3>6, <3>9
    <3>11. Chronological(Append(sent \o Held(buf), k), typed + 1)
      BY <2>0, <3>1, <3>10, AppendNewest DEF OrderInv
    <3> QED BY <3>4, <3>8, <3>11 DEF OrderInv, Chronological, Ascending
  <2>3. ASSUME (sent \o Held(buf))' = sent \o Held(buf), typed' = typed
        PROVE  OrderInv'
    BY <2>3 DEF OrderInv, Chronological, Ascending
  <2>4. CASE FlushDeadline
    <3>1. buf' = Take(buf) /\ sent' = sent \o buf.data /\ typed' = typed
      BY <2>4 DEF FlushDeadline, Flush
    <3>2. Held(buf)' = Held(Take(buf))
      BY <3>1 DEF Held
    <3> QED BY <2>0, <2>1, <2>3, <3>1, <3>2
  <2>5. CASE Discard
    <3>1. buf' = Take(buf) /\ sent' = sent /\ typed' = typed
      BY <2>5 DEF Discard
    <3>2. Held(buf)' = << >> \o buf.carry
      BY <2>0, <3>1 DEF Held, Take, Buffer
    <3>3. (sent \o Held(buf))' = sent \o buf.carry
      BY <2>0, <3>1, <3>2, ConcatEmptySeq
    <3>4. Chronological(sent \o buf.carry, typed)
      BY <2>0, DropMiddle DEF OrderInv, Held
    <3> QED BY <3>1, <3>3, <3>4 DEF OrderInv, Chronological, Ascending
  <2>6. CASE \/ SwitchPassthrough \/ SwitchBinaryMode
             \/ \E rtt \in Rtts : Tune(rtt)
             \/ \E d \in Delays : Elapse(d)
             \/ UNCHANGED vars
    <3>1. buf'.data = buf.data /\ buf'.carry = buf.carry /\ sent' = sent /\ typed' = typed
      BY <2>0, <2>6
         DEF SwitchPassthrough, SetPassthrough, SwitchBinaryMode, SetBinaryMode,
             Tune, SetAdaptiveInterval, Elapse, Age, Buffer, vars
    <3> QED BY <2>3, <3>1 DEF Held
  <2> QED BY <2>2, <2>4, <2>5, <2>6 DEF Next
<1>3. Spec => []NothingBypassed
  BY ModesInv
<1> QED BY <1>1, <1>2, <1>3, TypeCorrect, PTL DEF Spec

\* Everything written, batched and carried is in the order it was typed, if
\* the modes change only while no character is unfinished.
THEOREM OrderKept ==
  ASSUME Switching # "any_time"
  PROVE  Spec => []InOrder
<1>1. TypeOK /\ OrderInv => InOrder
  <2> SUFFICES ASSUME TypeOK, OrderInv PROVE InOrder
    OBVIOUS
  <2>1. sent \in Seq(Byte) /\ buf.data \in Seq(Byte) /\ buf.carry \in Seq(Byte)
    BY DEF TypeOK, Buffer
  <2>2. \A s, t, u \in Seq(Byte) : (s \o t) \o u = s \o (t \o u)
    BY ConcatAssociative
  <2>3. sent \o buf.data \o buf.carry = sent \o Held(buf)
    BY <2>1, <2>2 DEF Held
  <2> QED BY <2>3 DEF OrderInv, Chronological, InOrder
<1> QED BY <1>1, OrderInvariant, TypeCorrect, PTL

-----------------------------------------------------------------------------
\* Nothing vanishes and nothing is doubled, whatever the order.

\* The places of the keyboard among which the bytes of s were typed.
Nths(s) == {s[i].nth : i \in 1..Len(s)}

\* A concatenation holds what its parts hold.
LEMMA NthsConcat ==
  ASSUME NEW s \in Seq(Byte), NEW t \in Seq(Byte)
  PROVE  Nths(s \o t) = Nths(s) \cup Nths(t)
<1>1. /\ Len(s) \in Nat /\ Len(t) \in Nat
      /\ Len(s \o t) = Len(s) + Len(t)
      /\ \A i \in 1..Len(s) + Len(t) :
            (s \o t)[i] = IF i <= Len(s) THEN s[i] ELSE t[i - Len(s)]
  BY ConcatProperties, LenProperties
<1> DEFINE c == s \o t
<1>2. \A i \in 1..Len(s) : i \in 1..Len(c) /\ c[i] = s[i]
  BY <1>1
<1>3. \A i \in 1..Len(t) : Len(s) + i \in 1..Len(c) /\ c[Len(s) + i] = t[i]
  <2> TAKE i \in 1..Len(t)
  <2>1. /\ Len(s) + i \in 1..Len(s) + Len(t) /\ ~(Len(s) + i <= Len(s))
        /\ Len(s) + i - Len(s) = i
    BY <1>1
  <2> QED BY <1>1, <2>1
<1>4. \A i \in 1..Len(c) : \/ i \in 1..Len(s) /\ c[i] = s[i]
                           \/ i - Len(s) \in 1..Len(t) /\ c[i] = t[i - Len(s)]
  BY <1>1
<1> HIDE DEF c
<1>5. Nths(c) \subseteq Nths(s) \cup Nths(t)
  BY <1>4 DEF Nths
<1>6. Nths(s) \subseteq Nths(c)
  BY <1>2 DEF Nths
<1>7. Nths(t) \subseteq Nths(c)
  BY <1>3 DEF Nths
<1> QED BY <1>5, <1>6, <1>7 DEF c

\* One more byte is one more place.
LEMMA NthsAppend ==
  ASSUME NEW s \in Seq(Byte), NEW k \in Byte
  PROVE  Nths(Append(s, k)) = Nths(s) \cup {k.nth}
<1>1. /\ Len(s) \in Nat
      /\ Len(Append(s, k)) = Len(s) + 1
      /\ \A i \in 1..Len(s) : Append(s, k)[i] = s[i]
      /\ Append(s, k)[Len(s) + 1] = k
  BY LenProperties
<1> DEFINE a == Append(s, k)
<1>2. Len(a) = Len(s) + 1 /\ (\A i \in 1..Len(s) : a[i] = s[i]) /\ a[Len(s) + 1] = k
  BY <1>1
<1>3. \A i \in 1..Len(a) : i \in 1..Len(s) \/ i = Len(s) + 1
  BY <1>1, <1>2
<1>4. (\A i \in 1..Len(s) : i \in 1..Len(a)) /\ Len(s) + 1 \in 1..Len(a)
  BY <1>1, <1>2
<1> HIDE DEF a
<1>5. Nths(a) \subseteq Nths(s) \cup {k.nth}
  BY <1>2, <1>3 DEF Nths
<1>6. Nths(s) \subseteq Nths(a)
  BY <1>2, <1>4 DEF Nths
<1>7. k.nth \in Nths(a)
  BY <1>2, <1>4 DEF Nths
<1> QED BY <1>5, <1>6, <1>7 DEF a

\* What a buffer holds: how many bytes, and which.
HeldCount(b) == Len(b.data) + Len(b.carry)
HeldNths(b) == Nths(b.data) \cup Nths(b.carry)

\* The count of the bytes held, from the two lengths.
LEMMA CountOf ==
  ASSUME NEW b, NEW n \in Nat, NEW m \in Nat, Len(b.data) = n, Len(b.carry) = m
  PROVE  HeldCount(b) = n + m
  BY DEF HeldCount

\* push holds the byte it was given and every byte held before, in whichever
\* of the two sequences, even when the modes changed over a carried byte.
LEMMA PushHolds ==
  ASSUME NEW b \in Buffer, NEW k \in Byte
  PROVE  /\ HeldCount(Push(b, k)) = HeldCount(b) + 1
         /\ HeldNths(Push(b, k)) = HeldNths(b) \cup {k.nth}
<1> DEFINE joined == Append(b.carry, k)
           p == Push(b, k)
           n == Len(b.data)
           m == Len(b.carry)
<1>0. b.data \in Seq(Byte) /\ b.carry \in Seq(Byte)
  BY DEF Buffer
<1>1. n \in Nat /\ m \in Nat
  BY <1>0, LenProperties
<1>2. HeldCount(b) = n + m
  BY <1>1, CountOf
<1>3. joined \in Seq(Byte) /\ Len(joined) = m + 1
      /\ Nths(joined) = Nths(b.carry) \cup {k.nth}
  BY <1>0, NthsAppend
<1>4. CASE Bypasses(b)
  <2>1. p.data = Append(b.data, k) /\ p.carry = b.carry
    BY <1>4 DEF Push, PushRaw, Buffer
  <2>2. Len(p.data) = n + 1 /\ Len(p.carry) = m
        /\ Nths(p.data) = Nths(b.data) \cup {k.nth}
    <3> HIDE DEF p
    <3> QED BY <1>0, <2>1, NthsAppend
  <2> HIDE DEF p, n, m
  <2>3. n + 1 \in Nat
    BY <1>1
  <2>4. HeldCount(p) = (n + 1) + m
    BY <1>1, <2>2, <2>3, CountOf
  <2>5. HeldCount(p) = HeldCount(b) + 1
    BY <1>1, <1>2, <2>4
  <2>6. HeldNths(p) = HeldNths(b) \cup {k.nth}
    BY <2>1, <2>2 DEF HeldNths
  <2> QED BY <2>5, <2>6 DEF p
<1>5. CASE ~Bypasses(b) /\ IsPartial(joined)
  <2>1. p.data = b.data /\ p.carry = joined
    BY <1>5 DEF Push, PushCooked, Buffer
  <2>2. Len(p.data) = n /\ Len(p.carry) = m + 1
    <3> HIDE DEF p, joined
    <3> QED BY <1>3, <2>1
  <2> HIDE DEF p, n, m, joined
  <2>3. m + 1 \in Nat
    BY <1>1
  <2>4. HeldCount(p) = n + (m + 1)
    BY <1>1, <2>2, <2>3, CountOf
  <2>5. HeldCount(p) = HeldCount(b) + 1
    BY <1>1, <1>2, <2>4
  <2>6. HeldNths(p) = HeldNths(b) \cup {k.nth}
    BY <1>3, <2>1 DEF HeldNths
  <2> QED BY <2>5, <2>6 DEF p
<1>6. CASE ~Bypasses(b) /\ ~IsPartial(joined)
  <2>1. p.data = b.data \o joined /\ p.carry = << >>
    BY <1>6 DEF Push, PushCooked, Buffer
  <2>2. Len(b.data \o joined) = n + Len(joined)
        /\ Nths(b.data \o joined) = Nths(b.data) \cup Nths(joined)
    <3> HIDE DEF p, joined
    <3> QED BY <1>0, <1>3, ConcatProperties, NthsConcat
  <2>3. Len(<< >>) = 0 /\ Nths(<< >>) = {}
    BY DEF Nths
  <2> HIDE DEF p, n, m, joined
  <2>4. Len(p.data) = n + (m + 1) /\ Len(p.carry) = 0
    BY <1>3, <2>1, <2>2, <2>3
  <2>5. n + (m + 1) \in Nat /\ 0 \in Nat
    BY <1>1
  <2>6. HeldCount(p) = n + (m + 1) + 0
    BY <2>4, <2>5, CountOf
  <2>7. HeldCount(p) = HeldCount(b) + 1
    BY <1>1, <1>2, <2>6
  <2>8. HeldNths(p) = HeldNths(b) \cup {k.nth}
    BY <1>3, <2>1, <2>2, <2>3 DEF HeldNths
  <2> QED BY <2>7, <2>8 DEF p
<1> QED BY <1>4, <1>5, <1>6

\* How many bytes are held is a number.
LEMMA CountType == ASSUME NEW b \in Buffer PROVE HeldCount(b) \in Nat
<1>1. b.data \in Seq(Byte) /\ b.carry \in Seq(Byte)
  BY DEF Buffer
<1>2. Len(b.data) \in Nat /\ Len(b.carry) \in Nat
  BY <1>1, LenProperties
<1>3. HeldCount(b) = Len(b.data) + Len(b.carry)
  BY DEF HeldCount
<1>4. \A x, y \in Nat : x + y \in Nat
  OBVIOUS
<1> QED BY <1>2, <1>3, <1>4, Zenon

\* take() hands out the batch and keeps the carry.
LEMMA TakeHolds ==
  ASSUME NEW b \in Buffer, NEW s \in Seq(Byte)
  PROVE  /\ Len(s \o b.data) \in Nat
         /\ Len(s \o b.data) + HeldCount(Take(b)) = Len(s) + HeldCount(b)
         /\ Nths(s \o b.data) \cup HeldNths(Take(b)) = Nths(s) \cup HeldNths(b)
<1> DEFINE n == Len(b.data)
           m == Len(b.carry)
           l == Len(s)
           r == Len(s \o b.data)
           t == Take(b)
<1>1. b.data \in Seq(Byte) /\ b.carry \in Seq(Byte)
  BY DEF Buffer
<1>2. n \in Nat /\ m \in Nat /\ l \in Nat
  BY <1>1, LenProperties
<1>3. t.data = << >> /\ t.carry = b.carry
  BY DEF Take, Buffer
<1>4. r = l + n /\ Nths(s \o b.data) = Nths(s) \cup Nths(b.data)
  BY <1>1, ConcatProperties, NthsConcat
<1>5. Len(<< >>) = 0 /\ Nths(<< >>) = {} /\ 0 \in Nat
  BY DEF Nths
<1> HIDE DEF t
<1>6. Len(t.data) = 0 /\ Len(t.carry) = m
  BY <1>3, <1>5
<1>7. HeldNths(t) = Nths(b.carry)
  BY <1>3, <1>5 DEF HeldNths
<1> HIDE DEF n, m, l, r
<1>8. HeldCount(t) = 0 + m
  BY <1>2, <1>5, <1>6, CountOf
<1>9. HeldCount(b) = n + m
  BY <1>2, CountOf DEF n, m
<1>10. r \in Nat /\ r + HeldCount(t) = l + HeldCount(b)
  BY <1>2, <1>4, <1>8, <1>9
<1>11. Nths(s \o b.data) \cup HeldNths(t) = Nths(s) \cup HeldNths(b)
  BY <1>4, <1>7 DEF HeldNths
<1> QED BY <1>10, <1>11 DEF t, r, l

\* Accounted, said of the four places one by one.
AccountInv ==
    /\ Len(sent) + Len(lost) + HeldCount(buf) = typed
    /\ Nths(sent) \cup Nths(lost) \cup HeldNths(buf) = 1..typed

\* Every byte read from stdin is in exactly one place, whatever the keyboard
\* sends and however the modes change: written, dropped by a reconnect,
\* batched or carried.
THEOREM NothingVanishes == Spec => []Accounted
<1>1. Init => AccountInv
  <2> SUFFICES ASSUME Init PROVE AccountInv
    OBVIOUS
  <2>1. /\ buf.data = << >> /\ buf.carry = << >> /\ sent = << >> /\ lost = << >>
        /\ typed = 0
    BY DEF Init, NewBuffer
  <2>2. Len(<< >>) = 0 /\ Nths(<< >>) = {} /\ 1..0 = {}
    BY DEF Nths
  <2> QED BY <2>1, <2>2 DEF AccountInv, HeldCount, HeldNths
<1>2. TypeOK /\ AccountInv /\ [Next]_vars => AccountInv'
  <2> SUFFICES ASSUME TypeOK, AccountInv, [Next]_vars PROVE AccountInv'
    OBVIOUS
  <2>0. /\ buf \in Buffer /\ buf.data \in Seq(Byte) /\ buf.carry \in Seq(Byte)
        /\ sent \in Seq(Byte) /\ lost \in Seq(Byte) /\ typed \in Nat
        /\ Len(sent) \in Nat /\ Len(lost) \in Nat
        /\ Len(buf.data) \in Nat /\ Len(buf.carry) \in Nat
    BY LenProperties DEF TypeOK, Buffer
  <2>1. HeldCount(buf) \in Nat
    BY <2>0, CountType
  <2>2. ASSUME NEW kind \in Keys, ReadKey(kind) PROVE AccountInv'
    <3> DEFINE k == [kind |-> kind, nth |-> typed + 1]
               b == Push(buf, k)
               l == Len(lost)
               s == Len(sent)
               r == Len(sent')
               h == HeldCount(buf)
               g == HeldCount(buf')
    <3>1. k \in Byte /\ k.nth = typed + 1
      BY <2>0, KeysAssumption DEF Byte
    <3>2. b \in Buffer /\ HeldNths(b) = HeldNths(buf) \cup {k.nth}
      BY <2>0, <3>1, PushType, PushHolds
    <3>3. HeldCount(b) = h + 1 /\ HeldCount(b) \in Nat
      BY <2>0, <3>1, <3>2, PushHolds, CountType
    <3>4. \/ buf' = b /\ sent' = sent
          \/ buf' = Take(b) /\ sent' = sent \o b.data
      BY <2>2 DEF ReadKey, Flush
    <3>5. typed' = typed + 1 /\ lost' = lost
      BY <2>2 DEF ReadKey
    <3> HIDE DEF k, b
    <3>6. /\ r \in Nat /\ g \in Nat
          /\ r + g = s + HeldCount(b)
          /\ Nths(sent') \cup HeldNths(buf') = Nths(sent) \cup HeldNths(b)
      <4>1. CASE buf' = b /\ sent' = sent
        BY <2>0, <3>3, <4>1
      <4>2. CASE buf' = Take(b) /\ sent' = sent \o b.data
        <5>1. Take(b) \in Buffer
          BY <3>2, OperatorTypes
        <5>2. g \in Nat
          BY <4>2, <5>1, CountType
        <5> QED BY <2>0, <3>2, <4>2, <5>2, TakeHolds
      <4> QED BY <3>4, <4>1, <4>2
    <3>7. l \in Nat /\ s \in Nat /\ h \in Nat /\ s + l + h = typed
      BY <2>0, <2>1 DEF AccountInv
    <3>8. r + l + g = typed'
      <4> HIDE DEF r, l, g, s, h
      <4> QED BY <2>0, <3>3, <3>5, <3>6, <3>7
    <3>9. Nths(sent') \cup Nths(lost') \cup HeldNths(buf') = (1..typed) \cup {typed + 1}
      BY <3>1, <3>2, <3>5, <3>6 DEF AccountInv
    <3>10. (1..typed) \cup {typed + 1} = 1..typed'
      BY <2>0, <3>5
    <3>11. Len(sent') + Len(lost') + HeldCount(buf') = typed'
      BY <3>5, <3>8
    <3> QED BY <3>9, <3>10, <3>11 DEF AccountInv, Nths, HeldCount, HeldNths
  <2>3. CASE FlushDeadline
    <3> DEFINE l == Len(lost)
               s == Len(sent)
               r == Len(sent')
               h == HeldCount(buf)
               g == HeldCount(buf')
    <3>1. /\ buf' = Take(buf) /\ sent' = sent \o buf.data
          /\ lost' = lost /\ typed' = typed
      BY <2>3 DEF FlushDeadline, Flush
    <3>2. /\ r \in Nat /\ r + g = s + h
          /\ Nths(sent') \cup HeldNths(buf') = Nths(sent) \cup HeldNths(buf)
      BY <2>0, <3>1, TakeHolds
    <3>3. g \in Nat
      BY <2>0, <3>1, OperatorTypes, CountType
    <3>4. l \in Nat /\ s \in Nat /\ h \in Nat /\ s + l + h = typed
      BY <2>0, <2>1 DEF AccountInv
    <3>5. r + l + g = typed'
      <4> HIDE DEF r, l, g, s, h
      <4> QED BY <2>0, <3>1, <3>2, <3>3, <3>4
    <3>6. Nths(sent') \cup Nths(lost') \cup HeldNths(buf') = 1..typed'
      BY <3>1, <3>2 DEF AccountInv
    <3>7. Len(sent') + Len(lost') + HeldCount(buf') = typed'
      BY <3>1, <3>5
    <3> QED BY <3>6, <3>7 DEF AccountInv, Nths, HeldCount, HeldNths
  <2>4. CASE Discard
    <3> DEFINE s == Len(sent)
               l == Len(lost)
               r == Len(lost')
               h == HeldCount(buf)
               g == HeldCount(buf')
    <3>1. /\ buf' = Take(buf) /\ lost' = lost \o buf.data
          /\ sent' = sent /\ typed' = typed
      BY <2>4 DEF Discard
    <3>2. /\ r \in Nat /\ r + g = l + h
          /\ Nths(lost') \cup HeldNths(buf') = Nths(lost) \cup HeldNths(buf)
      BY <2>0, <3>1, TakeHolds
    <3>3. g \in Nat
      BY <2>0, <3>1, OperatorTypes, CountType
    <3>4. l \in Nat /\ s \in Nat /\ h \in Nat /\ s + l + h = typed
      BY <2>0, <2>1 DEF AccountInv
    <3>5. s + r + g = typed'
      <4> HIDE DEF r, l, g, s, h
      <4> QED BY <2>0, <3>1, <3>2, <3>3, <3>4
    <3>6. Nths(sent') \cup Nths(lost') \cup HeldNths(buf') = 1..typed'
      BY <3>1, <3>2 DEF AccountInv
    <3>7. Len(sent') + Len(lost') + HeldCount(buf') = typed'
      BY <3>1, <3>5
    <3> QED BY <3>6, <3>7 DEF AccountInv, Nths, HeldCount, HeldNths
  <2>5. CASE \/ SwitchPassthrough \/ SwitchBinaryMode
             \/ \E rtt \in Rtts : Tune(rtt)
             \/ \E d \in Delays : Elapse(d)
             \/ UNCHANGED vars
    <3>1. /\ buf'.data = buf.data /\ buf'.carry = buf.carry /\ sent' = sent
          /\ lost' = lost /\ typed' = typed
      BY <2>0, <2>5
         DEF SwitchPassthrough, SetPassthrough, SwitchBinaryMode, SetBinaryMode,
             Tune, SetAdaptiveInterval, Elapse, Age, Buffer, vars
    <3> QED BY <3>1 DEF AccountInv, Nths, HeldCount, HeldNths
  <2> QED BY <2>2, <2>3, <2>4, <2>5 DEF Next
<1>3. TypeOK /\ AccountInv => Accounted
  <2> SUFFICES ASSUME TypeOK, AccountInv PROVE Accounted
    OBVIOUS
  <2>0. /\ sent \in Seq(Byte) /\ lost \in Seq(Byte)
        /\ buf.data \in Seq(Byte) /\ buf.carry \in Seq(Byte)
    BY DEF TypeOK, Buffer
  <2>1. \A s, t \in Seq(Byte) : /\ s \o t \in Seq(Byte)
                                /\ Len(s \o t) = Len(s) + Len(t)
                                /\ Nths(s \o t) = Nths(s) \cup Nths(t)
    BY ConcatProperties, NthsConcat
  <2>2. /\ sent \o lost \in Seq(Byte)
        /\ Len(sent \o lost) = Len(sent) + Len(lost)
        /\ Nths(sent \o lost) = Nths(sent) \cup Nths(lost)
    BY <2>0, <2>1
  <2>3. /\ sent \o lost \o buf.data \in Seq(Byte)
        /\ Len(sent \o lost \o buf.data) = Len(sent \o lost) + Len(buf.data)
        /\ Nths(sent \o lost \o buf.data) = Nths(sent \o lost) \cup Nths(buf.data)
    BY <2>0, <2>1, <2>2
  <2>4. /\ Len(sent \o lost \o buf.data \o buf.carry)
             = Len(sent \o lost \o buf.data) + Len(buf.carry)
        /\ Nths(sent \o lost \o buf.data \o buf.carry)
             = Nths(sent \o lost \o buf.data) \cup Nths(buf.carry)
    BY <2>0, <2>1, <2>3
  <2> DEFINE places == sent \o lost \o buf.data \o buf.carry
  <2> DEFINE a == Len(sent)
             l == Len(lost)
             n == Len(buf.data)
             m == Len(buf.carry)
             p == Len(places)
  <2>5. a \in Nat /\ l \in Nat /\ n \in Nat /\ m \in Nat
    BY <2>0, LenProperties
  <2>6. Len(places) = typed
    <3>1. HeldCount(buf) = n + m
      BY <2>5, CountOf
    <3>2. p = a + l + n + m /\ a + l + HeldCount(buf) = typed
      BY <2>2, <2>3, <2>4 DEF AccountInv
    <3> HIDE DEF a, l, n, m, p
    <3>3. p = typed
      BY <2>5, <3>1, <3>2
    <3> QED BY <3>3 DEF p
  <2>7. Nths(places) = 1..typed
    BY <2>2, <2>3, <2>4 DEF AccountInv, HeldNths
  <2> HIDE DEF places
  <2>8. {places[i].nth : i \in 1..Len(places)} = 1..typed
    BY <2>7 DEF Nths
  <2> QED BY <2>6, <2>8 DEF places, Accounted
<1> QED BY <1>1, <1>2, <1>3, TypeCorrect, PTL DEF Spec

-----------------------------------------------------------------------------
\* Characters.  What the keyboard owes is what the newest bytes lack.

\* The last n bytes of s are the beginning of one character, typed as it
\* stands: EndsInsideChar without the subsequence.
OpenTail(s, n) ==
    /\ n <= Len(s)
    /\ s[Len(s) - n + 1].kind \in Leads
    /\ n < Width(s[Len(s) - n + 1].kind)
    /\ \A i \in Len(s) - n + 2..Len(s) : s[i].kind = "cont"
    /\ s[Len(s)].nth = s[Len(s) - n + 1].nth + n - 1

\* A sequence that ends inside a character ends with the beginning of one.
LEMMA InsideIsOpen ==
  ASSUME NEW s \in Seq(Byte), EndsInsideChar(s)
  PROVE  \E n \in 1..3 : OpenTail(s, n)
<1>1. PICK n \in 1..3 :
         /\ n <= Len(s)
         /\ IsPartial(SubSeq(s, Len(s) - n + 1, Len(s)))
         /\ s[Len(s)].nth = s[Len(s) - n + 1].nth + n - 1
  BY DEF EndsInsideChar
<1> DEFINE l == Len(s)
           f == l - n + 1
           t == SubSeq(s, f, l)
<1>2. l \in Nat /\ n \in Nat /\ n >= 1 /\ n <= l
  BY <1>1, LenProperties
<1> HIDE DEF l
<1>3. f \in 1..l /\ l - f + 1 = n
  BY <1>2
<1>4. \A i \in f..l : s[i] \in Byte
  BY <1>2, <1>3, ElementOfSeq DEF l
<1>5. Len(t) = n /\ \A i \in 1..n : t[i] = s[f + i - 1]
  <2>1. f \in Int /\ l \in Int
    BY <1>2, <1>3
  <2>2. /\ Len(t) = IF f <= l THEN l - f + 1 ELSE 0
        /\ \A i \in 1..l - f + 1 : t[i] = s[f + i - 1]
    <3> HIDE DEF f
    <3> QED BY <1>4, <2>1, SubSeqProperties
  <2> QED BY <1>2, <1>3, <2>2
<1>6. t[1] = s[f]
  BY <1>2, <1>3, <1>5
<1>7. IsPartial(t)
  BY <1>1 DEF l
<1>8. s[f].kind \in Leads /\ n < Width(s[f].kind)
  BY <1>5, <1>6, <1>7 DEF IsPartial
<1>9. ASSUME NEW i \in l - n + 2..l PROVE s[i].kind = "cont"
  <2>1. i - f + 1 \in 2..n /\ i - f + 1 \in 1..n /\ f + (i - f + 1) - 1 = i
    BY <1>2, <1>9
  <2>2. t[i - f + 1].kind = "cont"
    <3> HIDE DEF t, f
    <3> QED BY <1>5, <1>7, <2>1 DEF IsPartial
  <2> QED BY <1>5, <2>1, <2>2
<1>10. OpenTail(s, n)
  BY <1>1, <1>8, <1>9 DEF OpenTail, l
<1> QED BY <1>10

\* A byte that makes the end of s the beginning of a character is a lead, or
\* goes on with the character in which s ends and with the byte typed last.
LEMMA TailOfAppend ==
  ASSUME NEW s \in Seq(Byte), NEW t \in Nat, NEW k \in Byte, k.nth = t + 1,
         Chronological(s, t), NEW n \in 1..3, OpenTail(Append(s, k), n)
  PROVE  LET a == Append(s, k)
         IN  \/ n = 1 /\ k.kind \in Leads /\ a[Len(a) - n + 1] = k
             \/ /\ n - 1 \in 1..3 /\ k.kind = "cont"
                /\ OpenTail(s, n - 1) /\ s[Len(s)].nth = t
                /\ a[Len(a) - n + 1] = s[Len(s) - (n - 1) + 1]
<1> DEFINE a == Append(s, k)
           l == Len(s)
           f == l - n + 2
<1>1. /\ l \in Nat
      /\ Len(a) = l + 1
      /\ \A i \in 1..l : a[i] = s[i]
      /\ a[l + 1] = k
  BY LenProperties
<1>2. \A i \in 1..l : s[i].nth \in Nat /\ s[i].nth <= t
  <2>1. \A i \in 1..l : s[i] \in Byte
    BY ElementOfSeq
  <2>2. \A i \in 1..l : s[i].nth <= t
    BY DEF Chronological
  <2> QED BY <2>1, <2>2 DEF Byte
<1>3. \A i, j \in 1..l : i < j => s[i].nth < s[j].nth
  BY DEF Chronological, Ascending
<1> HIDE DEF l
<1>4. Len(a) - n + 1 = f /\ Len(a) - n + 2 = f + 1
  BY <1>1
<1> HIDE DEF a
<1>5. /\ n <= l + 1
      /\ a[f].kind \in Leads
      /\ n < Width(a[f].kind)
      /\ \A i \in f + 1..l + 1 : a[i].kind = "cont"
      /\ a[l + 1].nth = a[f].nth + n - 1
  <2>1. OpenTail(a, n)
    BY DEF a
  <2> QED BY <1>1, <1>4, <2>1 DEF OpenTail
<1>6. CASE n = 1
  <2>1. f = l + 1
    BY <1>1, <1>6
  <2> QED BY <1>1, <1>4, <1>5, <1>6, <2>1 DEF a
<1>7. CASE n > 1
  <2>1. f \in 1..l /\ l + 1 \in f + 1..l + 1 /\ n - 1 \in 1..3 /\ l \in 1..l
        /\ f = l - (n - 1) + 1 /\ f + 1 = l - (n - 1) + 2
        /\ n - 1 <= l
    <3>1. l \in Nat /\ n <= l + 1
      BY <1>1, <1>5
    <3> QED BY <1>7, <3>1
  <2>2. a[f] = s[f] /\ k.kind = "cont" /\ s[f].nth = t + 1 - (n - 1)
    <3>1. a[f] = s[f]
      BY <1>1, <2>1
    <3>2. a[l + 1] = k
      BY <1>1
    <3>3. s[f].nth \in Nat
      BY <1>2, <2>1
    <3> HIDE DEF f
    <3>4. k.kind = "cont"
      BY <1>5, <2>1, <3>2
    <3>5. t + 1 = s[f].nth + n - 1
      BY <1>5, <3>1, <3>2
    <3>6. \A x \in Nat : t + 1 = x + n - 1 => x = t + 1 - (n - 1)
      OBVIOUS
    <3> QED BY <3>1, <3>3, <3>4, <3>5, <3>6
  <2>3. s[l].nth = t
    <3>1. s[l].nth \in Nat /\ s[l].nth <= t
      BY <1>2, <2>1
    <3>2. CASE n = 2
      BY <1>1, <2>2, <3>2
    <3>3. CASE n = 3
      <4>1. f = l - 1 /\ f < l
        BY <1>1, <3>3
      <4>2. s[f].nth < s[l].nth
        BY <1>3, <2>1, <4>1
      <4>3. s[f].nth = t - 1
        BY <2>2, <3>3
      <4> QED BY <3>1, <4>2, <4>3
    <3> QED BY <1>7, <3>2, <3>3
  <2>4. \A i \in f + 1..l : s[i].kind = "cont"
    <3>1. ASSUME NEW i \in f + 1..l PROVE s[i].kind = "cont"
      <4>1. i \in 1..l /\ i \in f + 1..l + 1
        BY <1>1, <2>1
      <4>2. a[i] = s[i] /\ a[i].kind = "cont"
        BY <1>1, <1>5, <4>1
      <4> QED BY <4>2
    <3> QED BY <3>1
  <2>5. s[f].nth + (n - 1) - 1 = t
    BY <2>2
  <2>6. n - 1 < Width(s[f].kind)
    <3>1. s[f].kind \in Kinds
      BY <1>5, <2>2
    <3>2. Width(s[f].kind) \in Nat /\ n < Width(s[f].kind)
      BY <1>5, <2>2, <3>1, WidthType
    <3> QED BY <3>2
  <2>7. s[f].kind \in Leads
    BY <1>5, <2>2
  <2>8. OpenTail(s, n - 1)
    <3> HIDE DEF f
    <3> QED BY <2>1, <2>3, <2>4, <2>5, <2>6, <2>7 DEF OpenTail, l
  <2>9. a[Len(a) - n + 1] = s[l - (n - 1) + 1]
    <3> HIDE DEF f
    <3> QED BY <1>4, <2>1, <2>2
  <2> QED BY <2>1, <2>2, <2>3, <2>8, <2>9 DEF a, l
<1>8. n = 1 \/ n > 1
  OBVIOUS
<1> QED BY <1>6, <1>7, <1>8

\* If a ends with the byte typed last, inside a character, o bytes of that
\* character are still to come.
TailOwes(a, t, o) ==
    \A n \in 1..3 : OpenTail(a, n) /\ a[Len(a)].nth = t
                       => o = Width(a[Len(a) - n + 1].kind) - n

\* What is held ends with the byte typed last.
HoldsNewest(b, t) == Held(b) # << >> => Held(b)[Len(Held(b))].nth = t

\* What is carried is what was typed of the character that the keyboard is
\* in; in cooked mode nothing else is.
CarryOwes(b, o) ==
    IF b.carry = << >> THEN ~Bypasses(b) => o = 0
                       ELSE o = Width(b.carry[1].kind) - Len(b.carry)

\* A batch that waits beside a carry ended with a whole character.
BatchIsWhole(s, b) ==
    b.data # << >> /\ b.carry # << >> => \A n \in 1..3 : ~OpenTail(s \o b.data, n)

Debt(s, b, t, o) ==
    /\ TailOwes(s \o Held(b), t, o)
    /\ HoldsNewest(b, t)
    /\ CarryOwes(b, o)
    /\ BatchIsWhole(s, b)

\* The keyboard sends k while it owes o bytes, and owes p after it.
Types(k, o, p) ==
    /\ k.kind # "bad" /\ (k.kind = "cont" <=> o > 0)
    /\ p = IF k.kind = "cont" THEN o - 1 ELSE Width(k.kind) - 1

\* One more byte, one less owed; or all the rest of a new character.
LEMMA AppendOwes ==
  ASSUME NEW a \in Seq(Byte), NEW t \in Nat, NEW k \in Byte, k.nth = t + 1,
         Chronological(a, t), NEW o \in 0..3, NEW p,
         Types(k, o, p), TailOwes(a, t, o)
  PROVE  TailOwes(Append(a, k), t + 1, p)
<1> DEFINE c == Append(a, k)
<1> SUFFICES ASSUME NEW n \in 1..3, OpenTail(c, n)
             PROVE  p = Width(c[Len(c) - n + 1].kind) - n
  BY DEF TailOwes
<1>1. \/ n = 1 /\ k.kind \in Leads /\ c[Len(c) - n + 1] = k
      \/ /\ n - 1 \in 1..3 /\ k.kind = "cont"
         /\ OpenTail(a, n - 1) /\ a[Len(a)].nth = t
         /\ c[Len(c) - n + 1] = a[Len(a) - (n - 1) + 1]
  BY TailOfAppend
<1> HIDE DEF c
<1>2. CASE n = 1 /\ k.kind \in Leads /\ c[Len(c) - n + 1] = k
  BY <1>2 DEF Types
<1>3. CASE /\ n - 1 \in 1..3 /\ k.kind = "cont"
           /\ OpenTail(a, n - 1) /\ a[Len(a)].nth = t
           /\ c[Len(c) - n + 1] = a[Len(a) - (n - 1) + 1]
  <2> DEFINE w == Width(a[Len(a) - (n - 1) + 1].kind)
  <2>1. o = w - (n - 1)
    BY <1>3 DEF TailOwes
  <2>2. p = o - 1
    BY <1>3 DEF Types
  <2>3. w \in Nat
    <3>1. a[Len(a) - (n - 1) + 1].kind \in Kinds
      BY <1>3 DEF OpenTail
    <3> QED BY <3>1, WidthType
  <2>4. Width(c[Len(c) - n + 1].kind) = w
    BY <1>3
  <2> HIDE DEF w
  <2>5. p = w - n
    BY <2>1, <2>2, <2>3
  <2> QED BY <2>4, <2>5
<1> QED BY <1>1, <1>2, <1>3

\* push carries what the keyboard is inside of, and nothing else.
LEMMA PushCarryOwes ==
  ASSUME NEW b \in Buffer, NEW k \in Byte, CarryInv(b), Bypasses(b) => b.carry = << >>,
         NEW o \in 0..3, NEW p, Types(k, o, p), CarryOwes(b, o)
  PROVE  CarryOwes(Push(b, k), p)
<1> DEFINE joined == Append(b.carry, k)
           c == b.carry
           q == Push(b, k)
           m == Len(c)
           w == Width(c[1].kind)
<1>0. c \in Seq(Byte) /\ m \in Nat /\ k.kind \in Kinds
  BY LenProperties DEF Buffer, Byte
<1>1. Bypasses(q) <=> Bypasses(b)
  BY DEF Push, PushRaw, PushCooked, Bypasses, Buffer
<1>2. CASE Bypasses(b)
  <2>1. q.carry = << >>
    BY <1>2 DEF Push, PushRaw, Buffer
  <2>2. CarryOwes(q, p)
    <3> HIDE DEF q
    <3> QED BY <1>1, <1>2, <2>1 DEF CarryOwes
  <2> QED BY <2>2
<1>3. CASE ~Bypasses(b) /\ c = << >>
  <2>1. joined = <<k>> /\ Len(joined) = 1 /\ joined[1] = k
    BY <1>3
  <2>2. o = 0
    BY <1>3 DEF CarryOwes
  <2>3. k.kind # "cont" /\ k.kind # "bad" /\ p = Width(k.kind) - 1
    BY <2>2 DEF Types
  <2>4. CASE k.kind \in Leads
    <3>1. IsPartial(joined)
      <4>1. 1 < Width(k.kind)
        BY <2>4 DEF Width
      <4> HIDE DEF joined
      <4> QED BY <2>1, <2>4, <4>1 DEF IsPartial
    <3>2. q.carry = joined
      BY <1>3, <3>1 DEF Push, PushCooked, Buffer
    <3>3. joined # << >>
      BY <3>1 DEF IsPartial
    <3>4. CarryOwes(q, p)
      <4> HIDE DEF q, joined
      <4> QED BY <2>1, <2>3, <3>2, <3>3 DEF CarryOwes
    <3> QED BY <3>4
  <2>5. CASE k.kind \notin Leads
    <3>1. ~IsPartial(joined)
      <4> HIDE DEF joined
      <4> QED BY <2>1, <2>5 DEF IsPartial
    <3>2. q.carry = << >>
      BY <1>3, <3>1 DEF Push, PushCooked, Buffer
    <3>3. p = 0
      BY <1>0, <2>3, <2>5 DEF Width
    <3>4. CarryOwes(q, p)
      <4> HIDE DEF q, joined
      <4> QED BY <3>2, <3>3 DEF CarryOwes
    <3> QED BY <3>4
  <2> QED BY <2>4, <2>5
<1>4. CASE ~Bypasses(b) /\ c # << >>
  <2>1. IsPartial(c) /\ o = w - m
    BY <1>4 DEF CarryInv, CarryOwes
  <2>2. c[1].kind \in Leads /\ m < w /\ \A i \in 2..m : c[i].kind = "cont"
    BY <2>1 DEF IsPartial
  <2>3. w \in 1..4
    BY <2>2, WidthType
  <2>4. m >= 1
    BY <1>0, <1>4, EmptySeq
  <2>5. /\ Len(joined) = m + 1 /\ joined[1] = c[1] /\ joined # << >>
        /\ joined[m + 1] = k /\ \A i \in 1..m : joined[i] = c[i]
    BY <1>0, <2>4
  <2> HIDE DEF m, w
  <2>6. o > 0
    BY <1>0, <2>1, <2>2, <2>3
  <2>7. k.kind = "cont" /\ p = o - 1
    BY <2>6 DEF Types
  <2>8. p = w - (m + 1)
    BY <1>0, <2>1, <2>3, <2>7
  <2>9. CASE IsPartial(joined)
    <3>1. q.carry = joined
      BY <1>4, <2>9 DEF Push, PushCooked, Buffer
    <3>2. CarryOwes(q, p)
      <4> HIDE DEF q, joined
      <4> QED BY <2>5, <2>8, <3>1 DEF CarryOwes, w
    <3> QED BY <3>2
  <2>10. CASE ~IsPartial(joined)
    <3>1. q.carry = << >>
      BY <1>4, <2>10 DEF Push, PushCooked, Buffer
    <3>2. ~(m + 1 < w)
      <4>1. \A i \in 2..m + 1 : joined[i].kind = "cont"
        <5>1. \A i \in 2..m + 1 : i \in 2..m \/ i = m + 1
          BY <1>0
        <5>2. \A i \in 2..m : i \in 1..m
          BY <1>0
        <5> HIDE DEF joined
        <5> QED BY <2>2, <2>5, <2>7, <5>1, <5>2
      <4> HIDE DEF joined
      <4> QED BY <2>2, <2>5, <2>10, <4>1 DEF IsPartial, w
    <3>3. p = 0
      BY <1>0, <2>2, <2>3, <2>8, <3>2
    <3>4. CarryOwes(q, p)
      <4> HIDE DEF q, joined
      <4> QED BY <3>1, <3>3 DEF CarryOwes
    <3> QED BY <3>4
  <2> QED BY <2>9, <2>10
<1> QED BY <1>2, <1>3, <1>4

\* If the keyboard owes nothing, what it typed last ends a character.
LEMMA NothingOpen ==
  ASSUME NEW a, NEW t, TailOwes(a, t, 0), a[Len(a)].nth = t
  PROVE  \A n \in 1..3 : ~OpenTail(a, n)
<1> SUFFICES ASSUME NEW n \in 1..3, OpenTail(a, n) PROVE FALSE
  OBVIOUS
<1> DEFINE w == Width(a[Len(a) - n + 1].kind)
<1>1. 0 = w - n
  BY DEF TailOwes
<1>2. a[Len(a) - n + 1].kind \in Kinds /\ n < w
  BY DEF OpenTail
<1>3. w \in Nat
  BY <1>2, WidthType
<1> HIDE DEF w
<1> QED BY <1>1, <1>2, <1>3

\* The end of what was typed is the end of what is held.
LEMMA LastOfConcat ==
  ASSUME NEW s \in Seq(Byte), NEW u \in Seq(Byte), u # << >>
  PROVE  s \o u # << >> /\ (s \o u)[Len(s \o u)] = u[Len(u)]
<1> DEFINE c == s \o u
           l == Len(s)
           m == Len(u)
<1>1. l \in Nat /\ m \in Nat /\ m # 0
  BY LenProperties, EmptySeq
<1>2. /\ Len(c) = l + m
      /\ \A i \in 1..l + m : c[i] = IF i <= l THEN s[i] ELSE u[i - l]
  BY ConcatProperties
<1> HIDE DEF c, l, m
<1>3. l + m \in 1..l + m /\ ~(l + m <= l) /\ l + m - l = m
  BY <1>1
<1>4. c[Len(c)] = u[m] /\ Len(c) # 0
  BY <1>1, <1>2, <1>3
<1>5. c # << >>
  BY <1>4, EmptySeq
<1> QED BY <1>4, <1>5 DEF c, m

\* What is written of a buffer in cooked mode ends with a whole character.
LEMMA WholeBatch ==
  ASSUME NEW s \in Seq(Byte), NEW b \in Buffer, NEW t \in Nat, NEW o,
         Debt(s, b, t, o), b.data # << >>, b.carry # << >> \/ o = 0
  PROVE  \A n \in 1..3 : ~OpenTail(s \o b.data, n)
<1>1. CASE b.carry # << >>
  BY <1>1 DEF Debt, BatchIsWhole
<1>2. CASE b.carry = << >> /\ o = 0
  <2>1. b.data \in Seq(Byte) /\ b.data \o << >> = b.data
    BY ConcatEmptySeq DEF Buffer
  <2>2. Held(b) = b.data
    BY <1>2, <2>1 DEF Held
  <2> DEFINE a == s \o b.data
  <2>3. TailOwes(a, t, 0)
    BY <1>2, <2>2 DEF Debt
  <2>4. b.data[Len(b.data)].nth = t
    BY <2>2 DEF Debt, HoldsNewest
  <2>5. a[Len(a)] = b.data[Len(b.data)]
    BY <2>1, LastOfConcat
  <2>6. a[Len(a)].nth = t
    BY <2>4, <2>5
  <2> HIDE DEF a
  <2>7. \A n \in 1..3 : ~OpenTail(a, n)
    BY <2>3, <2>6, NothingOpen
  <2> QED BY <2>7 DEF a
<1> QED BY <1>1, <1>2

\* A key keeps the account.
LEMMA PushOwes ==
  ASSUME NEW s \in Seq(Byte), NEW b \in Buffer, NEW t \in Nat, NEW k \in Byte,
         k.nth = t + 1, CarryInv(b), Bypasses(b) => b.carry = << >>,
         Chronological(s \o Held(b), t),
         NEW o \in 0..3, NEW p, Types(k, o, p), Debt(s, b, t, o)
  PROVE  Debt(s, Push(b, k), t + 1, p)
<1> DEFINE q == Push(b, k)
           h == Held(b)
<1>1. h \in Seq(Byte) /\ q \in Buffer /\ Held(q) = Append(h, k)
  BY HeldSplits, PushType, PushAppends
<1>2. TailOwes(s \o Held(q), t + 1, p)
  <2> DEFINE a == s \o h
  <2> HIDE DEF q, h
  <2>1. \A u \in Seq(Byte) : s \o Append(u, k) = Append(s \o u, k)
    BY AppendOverConcat
  <2>2. s \o Held(q) = Append(a, k)
    BY <1>1, <2>1
  <2>3. a \in Seq(Byte)
    BY <1>1, ConcatProperties
  <2>4. Chronological(a, t) /\ TailOwes(a, t, o)
    BY DEF Debt, h
  <2> HIDE DEF a
  <2>5. TailOwes(Append(a, k), t + 1, p)
    BY <2>3, <2>4, AppendOwes
  <2> QED BY <2>2, <2>5
<1>3. HoldsNewest(q, t + 1)
  <2> HIDE DEF q, h
  <2>1. Len(Append(h, k)) = Len(h) + 1 /\ Append(h, k)[Len(h) + 1] = k
    BY <1>1, LenProperties
  <2>2. Held(q)[Len(Held(q))] = k
    BY <1>1, <2>1
  <2> QED BY <2>2 DEF HoldsNewest
<1>4. CarryOwes(q, p)
  BY PushCarryOwes DEF Debt
<1>5. BatchIsWhole(s, q)
  <2>1. CASE Bypasses(b)
    <3>1. q.carry = << >>
      BY <2>1 DEF Push, PushRaw, Buffer
    <3> HIDE DEF q
    <3> QED BY <3>1 DEF BatchIsWhole
  <2>2. CASE ~Bypasses(b) /\ ~IsPartial(Append(b.carry, k))
    <3>1. q.carry = << >>
      BY <2>2 DEF Push, PushCooked, Buffer
    <3> HIDE DEF q
    <3> QED BY <3>1 DEF BatchIsWhole
  <2>3. CASE ~Bypasses(b) /\ IsPartial(Append(b.carry, k))
    <3>1. q.data = b.data
      BY <2>3 DEF Push, PushCooked, Buffer
    <3>2. b.carry # << >> \/ o = 0
      BY <2>3 DEF Debt, CarryOwes
    <3>3. b.data # << >> => \A n \in 1..3 : ~OpenTail(s \o b.data, n)
      BY <3>2, WholeBatch
    <3> HIDE DEF q
    <3> QED BY <3>1, <3>3 DEF BatchIsWhole
  <2> QED BY <2>1, <2>2, <2>3
<1> QED BY <1>2, <1>3, <1>4, <1>5 DEF Debt

\* What take() leaves.
LEMMA TakeLeaves ==
  ASSUME NEW b \in Buffer
  PROVE  /\ Take(b).data = << >> /\ Take(b).carry = b.carry
         /\ Held(Take(b)) = b.carry
         /\ (Bypasses(Take(b)) <=> Bypasses(b))
<1>1. /\ Take(b).data = << >> /\ Take(b).carry = b.carry
      /\ (Bypasses(Take(b)) <=> Bypasses(b))
  BY DEF Take, Buffer, Bypasses
<1>2. b.carry \in Seq(Byte)
  BY DEF Buffer
<1> QED BY <1>1, <1>2, ConcatEmptySeq DEF Held

\* take() keeps the end of what is carried.
LEMMA TakeKeepsNewest ==
  ASSUME NEW b \in Buffer, NEW t, HoldsNewest(b, t)
  PROVE  HoldsNewest(Take(b), t)
<1>1. b.data \in Seq(Byte) /\ b.carry \in Seq(Byte)
  BY DEF Buffer
<1>2. ASSUME b.carry # << >> PROVE b.carry[Len(b.carry)].nth = t
  <2>1. Held(b) # << >> /\ Held(b)[Len(Held(b))] = b.carry[Len(b.carry)]
    BY <1>1, <1>2, LastOfConcat DEF Held
  <2> QED BY <2>1 DEF HoldsNewest
<1>3. Held(Take(b)) = b.carry
  BY TakeLeaves
<1> QED BY <1>2, <1>3 DEF HoldsNewest

\* A write keeps the account: it moves bytes from data to what was sent.
LEMMA FlushOwes ==
  ASSUME NEW s \in Seq(Byte), NEW b \in Buffer, NEW t \in Nat, NEW o, Debt(s, b, t, o)
  PROVE  Debt(s \o b.data, Take(b), t, o)
<1> DEFINE q == Take(b)
<1>1. /\ q.data = << >> /\ q.carry = b.carry /\ Held(q) = b.carry
      /\ (Bypasses(q) <=> Bypasses(b))
  BY TakeLeaves
<1>2. HoldsNewest(q, t)
  BY TakeKeepsNewest DEF Debt
<1> HIDE DEF q
<1>3. TailOwes((s \o b.data) \o Held(q), t, o)
  <2>1. b.data \in Seq(Byte) /\ b.carry \in Seq(Byte)
    BY DEF Buffer
  <2>2. \A u, v, w \in Seq(Byte) : (u \o v) \o w = u \o (v \o w)
    BY ConcatAssociative
  <2>3. (s \o b.data) \o b.carry = s \o Held(b)
    BY <2>1, <2>2 DEF Held
  <2> QED BY <1>1, <2>3 DEF Debt
<1>4. CarryOwes(q, o) /\ BatchIsWhole(s \o b.data, q)
  BY <1>1 DEF Debt, CarryOwes, BatchIsWhole
<1> QED BY <1>2, <1>3, <1>4 DEF Debt, q

\* A concatenation ends as its second part does, with a lead where that part
\* begins and continuation bytes after it: the character that is open at the
\* end is that second part.
LEMMA OpenCarry ==
  ASSUME NEW s \in Seq(Byte), NEW c \in Seq(Byte), IsPartial(c),
         NEW n \in 1..3, OpenTail(s \o c, n)
  PROVE  n = Len(c) /\ (s \o c)[Len(s \o c) - n + 1] = c[1]
<1> DEFINE a == s \o c
           l == Len(s)
           m == Len(c)
<1>1. l \in Nat /\ m \in Nat /\ m >= 1
  BY LenProperties, EmptySeq DEF IsPartial
<1>2. /\ Len(a) = l + m
      /\ \A i \in 1..l + m : a[i] = IF i <= l THEN s[i] ELSE c[i - l]
  BY ConcatProperties
<1>3. c[1].kind \in Leads /\ \A i \in 2..m : c[i].kind = "cont"
  BY DEF IsPartial
<1> HIDE DEF a, l, m
<1>4. ASSUME NEW i \in 1..m PROVE a[l + i] = c[i]
  <2> DEFINE j == l + i
  <2>1. j \in 1..l + m /\ ~(j <= l) /\ j - l = i
    BY <1>1
  <2> HIDE DEF j
  <2>2. a[j] = c[i]
    BY <1>2, <2>1
  <2> QED BY <2>2 DEF j
<1>5. /\ n <= l + m
      /\ a[l + m - n + 1].kind \in Leads
      /\ \A i \in l + m - n + 2..l + m : a[i].kind = "cont"
  <2>1. OpenTail(a, n) /\ Len(a) = l + m
    BY <1>2 DEF a
  <2>2. /\ n <= Len(a) /\ a[Len(a) - n + 1].kind \in Leads
        /\ \A i \in Len(a) - n + 2..Len(a) : a[i].kind = "cont"
    BY <2>1 DEF OpenTail
  <2>3. Len(a) - n + 1 = l + m - n + 1 /\ Len(a) - n + 2 = l + m - n + 2
    BY <1>1, <2>1
  <2>4. a[Len(a) - n + 1] = a[l + m - n + 1]
    BY <2>3
  <2>5. n <= l + m
    BY <2>1, <2>2
  <2>6. \A i \in l + m - n + 2..l + m : a[i].kind = "cont"
    BY <2>1, <2>2, <2>3
  <2> QED BY <2>2, <2>4, <2>5, <2>6
<1>6. ~(n > m)
  <2> SUFFICES ASSUME n > m PROVE FALSE
    OBVIOUS
  <2>1. l + 1 \in l + m - n + 2..l + m /\ 1 \in 1..m
    BY <1>1
  <2>2. a[l + 1].kind = "cont" /\ a[l + 1] = c[1]
    BY <1>4, <1>5, <2>1
  <2> QED BY <1>3, <2>2
<1>7. ~(n < m)
  <2> SUFFICES ASSUME n < m PROVE FALSE
    OBVIOUS
  <2> DEFINE j == m - n + 1
  <2>1. j \in 2..m /\ j \in 1..m /\ l + j = l + m - n + 1
    BY <1>1
  <2> HIDE DEF j
  <2>2. a[l + j] = c[j] /\ c[j].kind = "cont"
    BY <1>3, <1>4, <2>1
  <2>3. a[l + j].kind \in Leads
    BY <1>5, <2>1
  <2> QED BY <2>2, <2>3
<1>8. n = m
  BY <1>1, <1>6, <1>7
<1>9. l + m - n + 1 = l + 1 /\ 1 \in 1..m
  BY <1>1, <1>8
<1>10. a[Len(a) - n + 1] = c[1]
  <2>1. a[l + 1] = c[1] /\ Len(a) = l + m
    BY <1>2, <1>4, <1>9
  <2>2. Len(a) - n + 1 = l + 1
    BY <1>1, <1>9, <2>1
  <2> QED BY <2>1, <2>2
<1> QED BY <1>8, <1>10 DEF a, m

\* Dropping the batch keeps the account: what is carried does not depend on
\* it, and what was sent before it does not end with the byte typed last.
LEMMA DiscardOwes ==
  ASSUME NEW s \in Seq(Byte), NEW b \in Buffer, NEW t \in Nat, NEW o,
         CarryInv(b), Chronological(s \o Held(b), t), Debt(s, b, t, o)
  PROVE  Debt(s, Take(b), t, o)
<1> DEFINE q == Take(b)
           c == b.carry
           d == b.data
<1>0. d \in Seq(Byte) /\ c \in Seq(Byte)
  BY DEF Buffer
<1>1. /\ q.data = << >> /\ q.carry = c /\ Held(q) = c
      /\ (Bypasses(q) <=> Bypasses(b))
  BY TakeLeaves
<1>2. HoldsNewest(q, t)
  BY TakeKeepsNewest DEF Debt
<1> HIDE DEF q
<1>3. TailOwes(s \o Held(q), t, o)
  <2>1. CASE d = << >>
    <3>1. << >> \o c = c
      BY <1>0, ConcatEmptySeq
    <3>2. Held(b) = c
      BY <2>1, <3>1 DEF Held
    <3> QED BY <1>1, <3>2 DEF Debt
  <2>2. CASE c # << >>
    <3>1. IsPartial(c) /\ o = Width(c[1].kind) - Len(c)
      BY <2>2 DEF CarryInv, Debt, CarryOwes
    <3>2. \A n \in 1..3 : OpenTail(s \o c, n)
            => n = Len(c) /\ (s \o c)[Len(s \o c) - n + 1] = c[1]
      BY <1>0, <3>1, OpenCarry
    <3>3. TailOwes(s \o c, t, o)
      BY <3>1, <3>2 DEF TailOwes
    <3> QED BY <1>1, <3>3
  <2>3. CASE d # << >> /\ c = << >>
    <3>1. s \o << >> = s /\ d \o << >> = d
      BY <1>0, ConcatEmptySeq
    <3>2. Chronological(s \o d, t) /\ s \o Held(q) = s
      BY <1>1, <2>3, <3>1 DEF Held
    <3>3. ASSUME NEW n \in 1..3, n <= Len(s) PROVE s[Len(s)].nth # t
      <4> DEFINE l == Len(s)
                 m == Len(d)
                 a == s \o d
      <4>1. l \in Nat /\ m \in Nat /\ m # 0 /\ l >= 1
        BY <1>0, <2>3, <3>3, LenProperties, EmptySeq
      <4>2. /\ Len(a) = l + m
            /\ \A i \in 1..l + m : a[i] = IF i <= l THEN s[i] ELSE d[i - l]
        BY <1>0, ConcatProperties
      <4>3. Chronological(a, t)
        BY <3>2
      <4>4. \A i \in 1..l + m : a[i].nth \in Nat
        <5>1. a \in Seq(Byte)
          BY <1>0, ConcatProperties
        <5>2. \A i \in 1..Len(a) : a[i] \in Byte
          <6> HIDE DEF a
          <6> QED BY <5>1, ElementOfSeq
        <5> QED BY <4>2, <5>2 DEF Byte
      <4> HIDE DEF a, l, m
      <4>5. l \in 1..l + m /\ l + m \in 1..l + m /\ l < l + m /\ l <= l
        BY <4>1
      <4>6. a[l].nth < a[l + m].nth /\ a[l + m].nth <= t /\ a[l] = s[l]
        BY <4>2, <4>3, <4>5 DEF Chronological, Ascending
      <4>7. a[l].nth \in Nat /\ a[l + m].nth \in Nat
        BY <4>4, <4>5
      <4>8. s[l].nth # t
        BY <4>6, <4>7
      <4> QED BY <4>8 DEF l
    <3>4. TailOwes(s, t, o)
      BY <3>3 DEF TailOwes, OpenTail
    <3> QED BY <3>2, <3>4
  <2> QED BY <2>1, <2>2, <2>3
<1>4. CarryOwes(q, o) /\ BatchIsWhole(s, q)
  BY <1>1 DEF Debt, CarryOwes, BatchIsWhole
<1> QED BY <1>2, <1>3, <1>4 DEF Debt, q

DebtInv == Debt(sent, buf, typed, owed)

\* The keys of a well-formed keyboard keep the account, and so do flushes,
\* reconnects, and switches between characters.
LEMMA DebtInvariant ==
  ASSUME Utf8Only, Switching # "any_time"
  PROVE  Spec => []DebtInv
<1>1. Init => DebtInv
  <2> SUFFICES ASSUME Init PROVE DebtInv
    OBVIOUS
  <2>1. buf.data = << >> /\ buf.carry = << >> /\ sent = << >> /\ owed = 0
    BY DEF Init, NewBuffer
  <2>2. << >> \o << >> = << >> /\ Len(<< >>) = 0
    BY EmptySeq, ConcatEmptySeq
  <2>3. Held(buf) = << >> /\ sent \o Held(buf) = << >>
    BY <2>1, <2>2 DEF Held
  <2>4. \A n \in 1..3 : ~OpenTail(<< >>, n)
    BY <2>2 DEF OpenTail
  <2>5. TailOwes(sent \o Held(buf), typed, owed)
    BY <2>3, <2>4 DEF TailOwes
  <2> QED BY <2>1, <2>3, <2>5 DEF DebtInv, Debt, HoldsNewest, CarryOwes, BatchIsWhole
<1>2. TypeOK /\ BufferInv /\ NothingBypassed /\ OrderInv /\ DebtInv /\ [Next]_vars
        => DebtInv'
  <2> SUFFICES ASSUME TypeOK, BufferInv, NothingBypassed, OrderInv, DebtInv, [Next]_vars
               PROVE  Debt(sent', buf', typed', owed')
    BY DEF DebtInv
  <2>0. /\ buf \in Buffer /\ sent \in Seq(Byte) /\ typed \in Nat /\ owed \in 0..3
        /\ CarryInv(buf) /\ (Bypasses(buf) => buf.carry = << >>)
        /\ Chronological(sent \o Held(buf), typed)
        /\ Debt(sent, buf, typed, owed)
    BY DEF TypeOK, BufferInv, CarryIsPartialChar, CarryInv, NothingBypassed, OrderInv, DebtInv
  <2>1. ASSUME NEW kind \in Keys, ReadKey(kind)
        PROVE  Debt(sent', buf', typed', owed')
    <3> DEFINE k == [kind |-> kind, nth |-> typed + 1]
               b == Push(buf, k)
    <3>1. k \in Byte /\ k.nth = typed + 1 /\ k.kind = kind
      BY <2>0, KeysAssumption DEF Byte
    <3>2. Types(k, owed, owed')
      BY <2>1, <3>1 DEF ReadKey, MayType, OwedAfter, Types
    <3>3. \/ buf' = b /\ sent' = sent
          \/ buf' = Take(b) /\ sent' = sent \o b.data
      BY <2>1 DEF ReadKey, Flush
    <3>4. typed' = typed + 1
      BY <2>1 DEF ReadKey
    <3> HIDE DEF k
    <3>5. b \in Buffer /\ Debt(sent, b, typed + 1, owed')
      BY <2>0, <3>1, <3>2, PushType, PushOwes
    <3> HIDE DEF b
    <3>6. typed + 1 \in Nat
      BY <2>0
    <3>7. Debt(sent \o b.data, Take(b), typed + 1, owed')
      BY <2>0, <3>5, <3>6, FlushOwes
    <3> QED BY <3>3, <3>4, <3>5, <3>7
  <2>2. CASE FlushDeadline
    <3>1. /\ buf' = Take(buf) /\ sent' = sent \o buf.data
          /\ typed' = typed /\ owed' = owed
      BY <2>2 DEF FlushDeadline, Flush
    <3> QED BY <2>0, <3>1, FlushOwes
  <2>3. CASE Discard
    <3>1. buf' = Take(buf) /\ sent' = sent /\ typed' = typed /\ owed' = owed
      BY <2>3 DEF Discard
    <3> QED BY <2>0, <3>1, DiscardOwes
  <2>4. ASSUME buf'.data = buf.data, buf'.carry = buf.carry, sent' = sent,
               typed' = typed, owed' = owed,
               (Bypasses(buf) <=> Bypasses(buf')) \/ owed = 0
        PROVE  Debt(sent', buf', typed', owed')
    <3>1. Held(buf') = Held(buf)
      BY <2>4 DEF Held
    <3> QED BY <2>0, <2>4, <3>1
          DEF Debt, HoldsNewest, CarryOwes, BatchIsWhole
  <2>5. CASE SwitchPassthrough \/ SwitchBinaryMode
    <3>1. owed = 0
      BY <2>5 DEF SwitchPassthrough, SwitchBinaryMode, MaySwitch
    <3>2. /\ buf'.data = buf.data /\ buf'.carry = buf.carry /\ sent' = sent
          /\ typed' = typed /\ owed' = owed
      BY <2>0, <2>5
         DEF SwitchPassthrough, SetPassthrough, SwitchBinaryMode, SetBinaryMode, Buffer
    <3> QED BY <2>4, <3>1, <3>2
  <2>6. CASE \/ \E rtt \in Rtts : Tune(rtt)
             \/ \E d \in Delays : Elapse(d)
             \/ UNCHANGED vars
    <3>1. /\ buf'.data = buf.data /\ buf'.carry = buf.carry /\ sent' = sent
          /\ typed' = typed /\ owed' = owed
          /\ buf'.passthrough = buf.passthrough /\ buf'.binary = buf.binary
      BY <2>0, <2>6 DEF Tune, SetAdaptiveInterval, Elapse, Age, Buffer, vars
    <3> QED BY <2>4, <3>1 DEF Bypasses
  <2> QED BY <2>1, <2>2, <2>3, <2>5, <2>6 DEF Next
<1>3. Spec => []NothingBypassed
  BY ModesInv
<1>4. Spec => []OrderInv
  BY OrderInvariant
<1> QED BY <1>1, <1>2, <1>3, <1>4, TypeCorrect, BufferInvariant, PTL DEF Spec

\* A write made in cooked mode leaves the remote side with whole characters,
\* if the keyboard sends well-formed UTF-8 and the modes change only between
\* characters: neither a key, nor the timer, nor a reconnect makes push or
\* take() cut one.
THEOREM WholeCharsWritten ==
  ASSUME Utf8Only, Switching # "any_time"
  PROVE  Spec => WholeChars
<1>1. TypeOK /\ BufferInv /\ NothingBypassed /\ OrderInv /\ DebtInv /\ [Next]_vars
        => [sent' # sent /\ ~Bypasses(buf) => ~EndsInsideChar(sent')]_vars
  <2> SUFFICES ASSUME TypeOK, BufferInv, NothingBypassed, OrderInv, DebtInv,
                      [Next]_vars, sent' # sent, ~Bypasses(buf)
               PROVE  ~EndsInsideChar(sent')
    OBVIOUS
  <2>0. /\ buf \in Buffer /\ sent \in Seq(Byte) /\ typed \in Nat /\ owed \in 0..3
        /\ CarryInv(buf) /\ Chronological(sent \o Held(buf), typed)
        /\ Debt(sent, buf, typed, owed)
    BY DEF TypeOK, BufferInv, CarryIsPartialChar, CarryInv, OrderInv, DebtInv
  \* Whatever is written is the batch of a buffer whose account is right.
  <2>1. ASSUME NEW b \in Buffer, NEW t \in Nat, NEW o, Debt(sent, b, t, o),
               ~Bypasses(b), sent' = sent \o b.data
        PROVE  ~EndsInsideChar(sent')
    <3>1. b.data \in Seq(Byte) /\ sent \o << >> = sent
      BY <2>0, ConcatEmptySeq DEF Buffer
    <3>2. b.data # << >>
      BY <2>1, <3>1
    <3>3. b.carry # << >> \/ o = 0
      BY <2>1 DEF Debt, CarryOwes
    <3>4. \A n \in 1..3 : ~OpenTail(sent \o b.data, n)
      BY <2>0, <2>1, <3>2, <3>3, WholeBatch
    <3>5. sent \o b.data \in Seq(Byte)
      BY <2>0, <3>1, ConcatProperties
    <3>6. ~EndsInsideChar(sent \o b.data)
      BY <3>4, <3>5, InsideIsOpen
    <3> QED BY <2>1, <3>6
  <2>2. ASSUME NEW kind \in Keys, ReadKey(kind) PROVE ~EndsInsideChar(sent')
    <3> DEFINE k == [kind |-> kind, nth |-> typed + 1]
               b == Push(buf, k)
    <3>1. k \in Byte /\ k.nth = typed + 1 /\ k.kind = kind
      BY <2>0, KeysAssumption DEF Byte
    <3>2. Types(k, owed, owed')
      BY <2>2, <3>1 DEF ReadKey, MayType, OwedAfter, Types
    <3>3. sent' = sent \o b.data
      BY <2>2 DEF ReadKey, Flush
    <3>4. ~Bypasses(b)
      BY <2>0 DEF Push, PushRaw, PushCooked, Bypasses, Buffer
    <3> HIDE DEF k
    <3>5. b \in Buffer /\ Debt(sent, b, typed + 1, owed')
      BY <2>0, <3>1, <3>2, PushType, PushOwes
    <3> HIDE DEF b
    <3>6. typed + 1 \in Nat
      BY <2>0
    <3> QED BY <2>1, <3>3, <3>4, <3>5, <3>6
  <2>3. CASE FlushDeadline
    <3>1. sent' = sent \o buf.data
      BY <2>3 DEF FlushDeadline, Flush
    <3> QED BY <2>0, <2>1, <3>1
  <2>4. CASE \/ Discard \/ SwitchPassthrough \/ SwitchBinaryMode
             \/ \E rtt \in Rtts : Tune(rtt)
             \/ \E d \in Delays : Elapse(d)
             \/ UNCHANGED vars
    <3>1. sent' = sent
      BY <2>4 DEF Discard, SwitchPassthrough, SwitchBinaryMode, Tune, Elapse, vars
    <3> QED BY <3>1
  <2> QED BY <2>2, <2>3, <2>4 DEF Next
<1>2. Spec => []NothingBypassed
  BY ModesInv
<1>3. Spec => []OrderInv
  BY OrderInvariant
<1>4. Spec => []DebtInv
  BY DebtInvariant
<1> QED BY <1>1, <1>2, <1>3, <1>4, TypeCorrect, BufferInvariant, PTL DEF Spec, WholeChars

=============================================================================
