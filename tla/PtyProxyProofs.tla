---------------------------- MODULE PtyProxyProofs ----------------------------
(***************************************************************************)
(* Theorems about PtyProxy, for every keyboard, size of the PTY, set of    *)
(* signals and number of sessions.                                         *)
(***************************************************************************)
EXTENDS PtyProxy, SequenceTheorems, TLAPS

BufferType ==
    [data : Seq(Byte), carry : Seq(Byte), deadline : Nat, interval : Nat,
     passthrough : BOOLEAN, binary : BOOLEAN, adaptive : BOOLEAN]

-----------------------------------------------------------------------------
\* The operators of the buffer keep its type and, but for the output's switch,
\* its mode.

LEMMA PushType ==
    ASSUME NEW b \in BufferType, NEW k \in Byte
    PROVE  Push(b, k) \in BufferType /\ Push(b, k).passthrough = b.passthrough
<1> DEFINE joined == Append(b.carry, k)
<1>1. joined \in Seq(Byte)
  BY DEF BufferType
<1>2. PushRaw(b, k) \in BufferType /\ PushRaw(b, k).passthrough = b.passthrough
  <2> DEFINE data == Append(b.data, k)
             deadline == IF b.data = << >> THEN b.interval ELSE b.deadline
  <2>1. data \in Seq(Byte) /\ deadline \in Nat
    BY DEF BufferType
  <2>2. PushRaw(b, k) = [b EXCEPT !.data = data, !.deadline = deadline]
    BY DEF PushRaw, BufferType
  <2> HIDE DEF data, deadline
  <2> QED
    BY <2>1, <2>2 DEF BufferType
<1>3. PushCooked(b, k) \in BufferType /\ PushCooked(b, k).passthrough = b.passthrough
  <2>1. b.data \o joined \in Seq(Byte) /\ << >> \in Seq(Byte)
    BY <1>1 DEF BufferType
  <2> HIDE DEF joined
  <2>2. CASE IsPartial(joined)
    BY <1>1, <2>2 DEF PushCooked, BufferType, joined
  <2>3. CASE ~IsPartial(joined)
    BY <2>1, <2>3 DEF PushCooked, BufferType, joined
  <2> QED
    BY <2>2, <2>3
<1> QED
  BY <1>2, <1>3 DEF Push

LEMMA OperatorsType ==
    ASSUME NEW b \in BufferType
    PROVE  /\ Take(b) \in BufferType /\ Take(b).passthrough = b.passthrough
           /\ Age(b, 1) \in BufferType /\ Age(b, 1).passthrough = b.passthrough
           /\ \A on \in BOOLEAN : SetPassthrough(b, on) \in BufferType
           /\ \A read : Detect(b, read) \in BufferType
<1>1. Take(b) \in BufferType /\ Take(b).passthrough = b.passthrough
  <2>1. << >> \in Seq(Byte)
    OBVIOUS
  <2> QED
    BY <2>1, HourAssumption DEF Take, BufferType
<1>2. Age(b, 1) \in BufferType /\ Age(b, 1).passthrough = b.passthrough
  <2>1. Later(b.deadline, 1) \in Nat
    BY DEF Later, BufferType
  <2> QED
    BY <2>1 DEF Age, BufferType
<1>3. \A on \in BOOLEAN : SetPassthrough(b, on) \in BufferType
  BY DEF SetPassthrough, BufferType
<1>4. \A read : Detect(b, read) \in BufferType
  BY <1>3 DEF Detect
<1> QED
  BY <1>1, <1>2, <1>3, <1>4

-----------------------------------------------------------------------------
\* Types.

\* What a key makes of the loop.
LEMMA ReadKeyType ==
    ASSUME TypeOK, NEW kind \in Keys, ReadKey(kind)
    PROVE  TypeOK'
<1> DEFINE k == [kind |-> kind, session |-> session, nth |-> typed + 1]
           b == Push(buf, k)
<1>1. k \in Byte
  BY KeysAssumption, BoundAssumption DEF Byte, TypeOK
<1>2. b \in BufferType
  BY <1>1, PushType DEF TypeOK, BufferType
<1>3. Take(b) \in BufferType /\ b.data \in Seq(Byte)
  BY <1>2, OperatorsType DEF BufferType
<1>4. /\ phase = "select" /\ typed < MaxTyped /\ typed' = typed + 1
      /\ \/ buf' = Take(b) /\ chunk' = b.data /\ phase' = "write"
         \/ buf' = b /\ UNCHANGED <<chunk, phase>>
      /\ UNCHANGED <<term, ptySize, pending, session, child, aside>>
  BY DEF ReadKey, Flush
<1> HIDE DEF k, b
<1>5. buf' \in BufferType /\ chunk' \in Seq(Byte) /\ phase' \in Phases
      /\ (chunk' # << >> => phase' \in {"write", "failed"})
  BY <1>2, <1>3, <1>4 DEF TypeOK, Phases
<1>6. typed' \in 0..MaxTyped
  BY <1>4, BoundAssumption DEF TypeOK
<1> QED
  BY <1>4, <1>5, <1>6 DEF TypeOK, BufferType, term, child, aside, others

\* What ssh writes is output.
LEMMA OutputType == ASSUME NEW output \in Outputs PROVE output \in Seq(Glyphs)
<1>1. \A a, b \in Glyphs : <<a, b>> \in Seq(Glyphs) /\ <<a>> \in Seq(Glyphs)
  OBVIOUS
<1>2. \A a, b, c, d \in Glyphs : <<a, b, c, d>> \in Seq(Glyphs)
  OBVIOUS
<1>3. {"enter1", "enter2", "exit1", "exit2", "other"} \subseteq Glyphs
  BY DEF Glyphs
<1> QED
  BY <1>1, <1>2, <1>3 DEF Outputs

\* Every step keeps the types.
LEMMA TypeStep ==
    ASSUME TypeOK, [Next]_vars
    PROVE  TypeOK'
<1> USE DEF loop, term, child, aside, others, Phases
<1>1. CASE Listen
  BY <1>1 DEF Listen, TypeOK
<1>2. ASSUME NEW kind \in Keys, ReadKey(kind) PROVE TypeOK'
  BY <1>2, ReadKeyType
<1>3. CASE StdinEof
  BY <1>3 DEF StdinEof, TypeOK
<1>4. CASE FlushDeadline
  BY <1>4, OperatorsType DEF FlushDeadline, Flush, TypeOK, BufferType
<1>5. CASE Write
  <2>1. PICK n \in 1..Len(chunk) :
          /\ inq' = inq \o SubSeq(chunk, 1, n)
          /\ chunk' = SubSeq(chunk, n + 1, Len(chunk))
          /\ phase' = IF n = Len(chunk) THEN "select" ELSE "write"
    BY <1>5 DEF Write
  <2>2. inq' \in Seq(Byte) /\ chunk' \in Seq(Byte)
    <3>1. /\ chunk \in Seq(Byte) /\ inq \in Seq(Byte)
          /\ n \in 1..Len(chunk) /\ Len(chunk) \in Nat
      BY DEF TypeOK
    <3>2. SubSeq(chunk, 1, n) \in Seq(Byte) /\ SubSeq(chunk, n + 1, Len(chunk)) \in Seq(Byte)
      BY <3>1, SubSeqProperties
    <3> QED
      BY <2>1, <3>1, <3>2, ConcatProperties
  <2>3. chunk' # << >> => phase' = "write"
    BY <2>1 DEF TypeOK
  <2> QED
    BY <1>5, <2>1, <2>2, <2>3 DEF Write, TypeOK
<1>6. CASE WriteError
  BY <1>6 DEF WriteError, TypeOK
<1>7. CASE ReadPty
  <2>1. PICK n \in 1..Len(outq) :
          /\ buf' = Detect(buf, SubSeq(outq, 1, n))
          /\ termAlt' = AltAfter(termAlt, SubSeq(outq, 1, n))
          /\ outq' = SubSeq(outq, n + 1, Len(outq))
    BY <1>7 DEF ReadPty
  <2>2. buf' \in BufferType
    BY <2>1, OperatorsType DEF TypeOK, BufferType
  <2>3. termAlt' \in BOOLEAN
    BY <2>1, Zenon DEF AltAfter
  <2>4. outq' \in Seq(Glyphs)
    BY <2>1 DEF TypeOK
  <2> QED
    BY <1>7, <2>2, <2>3, <2>4 DEF ReadPty, TypeOK, BufferType
<1>8. CASE ReadPtyEof
  BY <1>8, OperatorsType DEF ReadPtyEof, BeginReconnect, Leave, TypeOK, BufferType
<1>9. CASE HandleWinch
  BY <1>9 DEF HandleWinch, TypeOK
<1>10. ASSUME NEW sig \in UserSignals, HandleTermination(sig) PROVE TypeOK'
  BY <1>10, OperatorsType
     DEF HandleTermination, BeginReconnect, Leave, TypeOK, BufferType
<1>11. CASE Spawned
  BY <1>11, BoundAssumption DEF Spawned, TypeOK
<1>12. CASE GiveUp
  BY <1>12 DEF GiveUp, TypeOK
<1>13. CASE Reap
  BY <1>13 DEF Reap, TypeOK
<1>14. CASE Tick
  BY <1>14, OperatorsType DEF Tick, TypeOK, BufferType
<1>15. CASE ChildReads
  BY <1>15 DEF ChildReads, TypeOK
<1>16. ASSUME NEW output \in Outputs, ChildWrites(output) PROVE TypeOK'
  <2>1. output \in Seq(Glyphs)
    BY OutputType
  <2>2. outq' \in Seq(Glyphs)
    BY <1>16, <2>1 DEF ChildWrites, TypeOK
  <2>3. outputs' \in 0..MaxOutput
    BY <1>16, BoundAssumption DEF ChildWrites, TypeOK
  <2> QED
    BY <1>16, <2>2, <2>3 DEF ChildWrites, TypeOK
<1>17. CASE ChildExits
  BY <1>17 DEF ChildExits, TypeOK
<1>18. ASSUME NEW sig \in UserSignals, UserSignal(sig) PROVE TypeOK'
  <2>1. userActs' \in 0..MaxUserActs
    BY <1>18, BoundAssumption DEF UserSignal, UserMayAct, TypeOK
  <2>2. CASE phase = "starting"
    <3>1. phase' = "killed" /\ pending' = pending
      BY <1>18, <2>2 DEF UserSignal
    <3>2. chunk' = << >>
      BY <1>18, <2>2 DEF UserSignal, TypeOK
    <3> QED
      BY <1>18, <2>1, <3>1, <3>2 DEF UserSignal, TypeOK
  <2>3. CASE phase # "starting"
    BY <1>18, <2>1, <2>3 DEF UserSignal, TypeOK
  <2> QED
    BY <2>2, <2>3
<1>19. CASE Resize
  BY <1>19, BoundAssumption DEF Resize, UserMayAct, TypeOK
<1>20. CASE UNCHANGED vars
  BY <1>20 DEF vars, TypeOK
<1> QED
  BY <1>1, <1>2, <1>3, <1>4, <1>5, <1>6, <1>7, <1>8, <1>9, <1>10, <1>11, <1>12,
     <1>13, <1>14, <1>15, <1>16, <1>17, <1>18, <1>19, <1>20 DEF Next

\* The types are right at the start.
LEMMA TypeInit == Init => TypeOK
<1>1. << >> \in Seq(Byte) /\ << >> \in Seq(Glyphs)
  OBVIOUS
<1>2. \A on \in BOOLEAN : NewBuffer(on, FALSE) \in BufferType
  BY <1>1, FlushIntervalAssumption, HourAssumption DEF NewBuffer, BufferType
<1> QED
  <2> SUFFICES ASSUME Init PROVE TypeOK
    OBVIOUS
  <2>1. buf \in BufferType
    BY <1>2 DEF Init
  <2>2. reconnect \in BOOLEAN
    BY FlagAssumption DEF Init
  <2>3. /\ session \in 1..MaxSessions /\ typed \in 0..MaxTyped
        /\ outputs \in 0..MaxOutput /\ userActs \in 0..MaxUserActs
        /\ termSize \in Nat /\ ptySize \in Nat
    BY BoundAssumption DEF Init
  <2>4. /\ chunk \in Seq(Byte) /\ inq \in Seq(Byte) /\ got \in Seq(Byte)
        /\ outq \in Seq(Glyphs)
    BY <1>1 DEF Init
  <2>5. /\ phase \in Phases /\ chunk = << >> /\ pending = {}
        /\ termAlt \in BOOLEAN /\ alive \in BOOLEAN /\ inputEnded \in BOOLEAN
    BY DEF Init, Phases
  <2> QED
    BY <2>1, <2>2, <2>3, <2>4, <2>5 DEF BufferType, TypeOK

\* Every variable keeps its type, and nothing is being written while the loop
\* waits in select! (proxy.rs, run and write_all_to_master).
THEOREM ProxyTypeCorrect == Spec => []TypeOK
BY TypeInit, TypeStep, PTL DEF Spec

-----------------------------------------------------------------------------
\* The size of the window.

\* Before Signals::new the size is the one that spawn_ssh_master set.
SizeInv == (phase = "starting" => ptySize = termSize) /\ PtySizeFollows

LEMMA SizeStep ==
    ASSUME TypeOK, SizeInv, [Next]_vars, ~EarlyResize
    PROVE  SizeInv'
<1> USE DEF loop, term, child, aside, others, SizeInv, PtySizeFollows
<1>1. CASE Listen
  BY <1>1 DEF Listen
<1>2. ASSUME NEW kind \in Keys, ReadKey(kind) PROVE SizeInv'
  BY <1>2 DEF ReadKey, Flush
<1>3. CASE StdinEof
  BY <1>3 DEF StdinEof
<1>4. CASE FlushDeadline
  BY <1>4 DEF FlushDeadline, Flush
<1>5. CASE Write
  BY <1>5 DEF Write
<1>6. CASE WriteError
  BY <1>6 DEF WriteError
<1>7. CASE ReadPty
  BY <1>7 DEF ReadPty
<1>8. CASE ReadPtyEof
  BY <1>8 DEF ReadPtyEof, BeginReconnect, Leave
<1>9. CASE HandleWinch
  BY <1>9 DEF HandleWinch
<1>10. ASSUME NEW sig \in UserSignals, HandleTermination(sig) PROVE SizeInv'
  BY <1>10 DEF HandleTermination, BeginReconnect, Leave
<1>11. CASE Spawned
  BY <1>11 DEF Spawned
<1>12. CASE GiveUp
  BY <1>12 DEF GiveUp
<1>13. CASE Reap
  BY <1>13 DEF Reap
<1>14. CASE Tick
  BY <1>14 DEF Tick
<1>15. CASE ChildReads
  BY <1>15 DEF ChildReads
<1>16. ASSUME NEW output \in Outputs, ChildWrites(output) PROVE SizeInv'
  BY <1>16 DEF ChildWrites
<1>17. CASE ChildExits
  BY <1>17 DEF ChildExits
<1>18. ASSUME NEW sig \in UserSignals, UserSignal(sig) PROVE SizeInv'
  BY <1>18 DEF UserSignal, UserMayAct
<1>19. CASE Resize
  BY <1>19 DEF Resize, UserMayAct
<1>20. CASE UNCHANGED vars
  BY <1>20 DEF vars
<1> QED
  BY <1>1, <1>2, <1>3, <1>4, <1>5, <1>6, <1>7, <1>8, <1>9, <1>10, <1>11, <1>12,
     <1>13, <1>14, <1>15, <1>16, <1>17, <1>18, <1>19, <1>20 DEF Next

\* Unless the window changes before Signals::new, the PTY has its size or a
\* SIGWINCH is on its way, through every write, reconnect and signal (proxy.rs,
\* the SIGWINCH branch and spawn_ssh_master).
THEOREM SizeFollows == ASSUME ~EarlyResize PROVE Spec => []PtySizeFollows
<1>1. Init => SizeInv
  BY DEF Init, SizeInv, PtySizeFollows
<1>2. TypeOK /\ SizeInv /\ [Next]_vars => SizeInv'
  BY SizeStep
<1>3. SizeInv => PtySizeFollows
  BY DEF SizeInv
<1> QED
  BY <1>1, <1>2, <1>3, ProxyTypeCorrect, PTL DEF Spec

-----------------------------------------------------------------------------
\* The mode.

\* The second part of the sequence for the alternate screen follows the first.
QueueInv ==
    \A i \in 1..Len(outq) :
        outq[i] = "enter2" => i > 1 /\ outq[i-1] = "enter1"

\* The buffer knows what the terminal shows.
RawInv == termAlt => buf.passthrough

\* A buffer keeps its mode in every step but a read of the PTY.
LEMMA PassthroughKept ==
    ASSUME TypeOK, [Next]_vars, ~ReadPty
    PROVE  buf'.passthrough = buf.passthrough /\ termAlt' = termAlt
<1> USE DEF loop, term, child, aside, others
<1> DEFINE Goal == buf'.passthrough = buf.passthrough /\ termAlt' = termAlt
<1>1. /\ buf \in BufferType
      /\ Take(buf).passthrough = buf.passthrough
      /\ Age(buf, 1).passthrough = buf.passthrough
  BY OperatorsType DEF TypeOK, BufferType
<1>2. ASSUME NEW kind \in Keys, ReadKey(kind) PROVE Goal
  <2> DEFINE k == [kind |-> kind, session |-> session, nth |-> typed + 1]
             b == Push(buf, k)
  <2>1. k \in Byte
    BY KeysAssumption, BoundAssumption DEF Byte, TypeOK
  <2>2. b \in BufferType /\ b.passthrough = buf.passthrough
    BY <1>1, <2>1, PushType
  <2>3. Take(b).passthrough = b.passthrough
    BY <2>2, OperatorsType
  <2>4. termAlt' = termAlt /\ (buf' = Take(b) \/ buf' = b)
    BY <1>2 DEF ReadKey, Flush
  <2> QED
    BY <2>2, <2>3, <2>4
<1>3. CASE FlushDeadline
  BY <1>1, <1>3 DEF FlushDeadline, Flush
<1>4. CASE ReadPtyEof
  BY <1>1, <1>4 DEF ReadPtyEof, BeginReconnect, Leave
<1>5. ASSUME NEW sig \in UserSignals, HandleTermination(sig) PROVE Goal
  BY <1>1, <1>5 DEF HandleTermination, BeginReconnect, Leave
<1>6. CASE Tick
  BY <1>1, <1>6 DEF Tick
<1>7. CASE Listen \/ StdinEof \/ Write \/ WriteError \/ HandleWinch
  BY <1>7 DEF Listen, StdinEof, Write, WriteError, HandleWinch
<1>8. CASE Spawned \/ GiveUp \/ Reap \/ ChildReads \/ ChildExits \/ Resize
  BY <1>8 DEF Spawned, GiveUp, Reap, ChildReads, ChildExits, Resize
<1>9. ASSUME NEW output \in Outputs, ChildWrites(output) PROVE Goal
  BY <1>9 DEF ChildWrites
<1>10. ASSUME NEW sig \in UserSignals, UserSignal(sig) PROVE Goal
  BY <1>10 DEF UserSignal
<1>11. CASE UNCHANGED vars
  BY <1>11 DEF vars
<1> QED
  BY <1>2, <1>3, <1>4, <1>5, <1>6, <1>7, <1>8, <1>9, <1>10, <1>11 DEF Next

\* Output reaches the queue in whole sequences.
LEMMA QueueGrows ==
    ASSUME TypeOK, QueueInv, NEW output \in Outputs, ChildWrites(output)
    PROVE  QueueInv'
<1>1. /\ outq \in Seq(Glyphs) /\ outq' = outq \o output
  BY DEF TypeOK, ChildWrites
<1>2. /\ output \in Seq(Glyphs)
      /\ \A i \in 1..Len(output) :
          output[i] = "enter2" => i > 1 /\ output[i-1] = "enter1"
  <2>1. CASE output = <<"enter1", "enter2">>
    BY <2>1, OutputType
  <2>2. CASE output = <<"exit1", "exit2">>
    BY <2>2, OutputType
  <2>3. CASE output = <<"other">>
    <3>1. Len(output) = 1 /\ output[1] = "other"
      BY <2>3
    <3> QED
      BY <3>1, OutputType
  <2>4. CASE output = <<"exit1", "exit2", "enter1", "enter2">>
    BY <2>4, OutputType
  <2> QED
    BY <2>1, <2>2, <2>3, <2>4 DEF Outputs
<1>3. /\ Len(outq') = Len(outq) + Len(output)
      /\ \A i \in 1..Len(outq) : outq'[i] = outq[i]
      /\ \A i \in 1..Len(output) : outq'[Len(outq) + i] = output[i]
  BY <1>1, <1>2, ConcatProperties
<1> SUFFICES ASSUME NEW i \in 1..Len(outq'), outq'[i] = "enter2"
             PROVE  i > 1 /\ outq'[i-1] = "enter1"
  BY DEF QueueInv
<1>4. Len(outq) \in Nat /\ Len(output) \in Nat
  BY <1>1, <1>2
<1>5. CASE i \in 1..Len(outq)
  BY <1>3, <1>4, <1>5 DEF QueueInv
<1>6. CASE i > Len(outq)
  <2>1. PICK j \in 1..Len(output) : i = Len(outq) + j
    <3>1. i - Len(outq) \in 1..Len(output) /\ i = Len(outq) + (i - Len(outq))
      BY <1>3, <1>4, <1>6
    <3> QED
      BY <3>1
  <2>2. j > 1 /\ output[j-1] = "enter1"
    BY <1>2, <1>3, <2>1
  <2>3. j - 1 \in 1..Len(output) /\ i - 1 = Len(outq) + (j - 1) /\ i > 1
    BY <1>4, <2>1, <2>2
  <2> QED
    BY <1>3, <2>2, <2>3
<1> QED
  BY <1>3, <1>4, <1>5, <1>6

\* A read of whole sequences tells the buffer what the terminal shows.
LEMMA DetectFollows ==
    ASSUME TypeOK, QueueInv, RawInv, ReadPty, ~SplitReads
    PROVE  QueueInv' /\ RawInv'
<1>1. PICK n \in 1..Len(outq) :
        /\ outq[n] \notin {"enter1", "exit1"}
        /\ buf' = Detect(buf, SubSeq(outq, 1, n))
        /\ termAlt' = AltAfter(termAlt, SubSeq(outq, 1, n))
        /\ outq' = SubSeq(outq, n + 1, Len(outq))
  BY DEF ReadPty, TypeOK
<1> DEFINE read == SubSeq(outq, 1, n)
<1>2. /\ outq \in Seq(Glyphs) /\ Len(outq) \in Nat
      /\ buf \in BufferType /\ termAlt \in BOOLEAN
  BY DEF TypeOK, BufferType
<1>3. Len(read) = n /\ \A i \in 1..n : read[i] = outq[i]
  BY <1>2
<1>4. /\ Len(outq') = Len(outq) - n
      /\ \A i \in 1..Len(outq) - n : outq'[i] = outq[n + i]
  BY <1>1, <1>2
<1> HIDE DEF read
<1>5. QueueInv'
  <2> SUFFICES ASSUME NEW i \in 1..Len(outq'), outq'[i] = "enter2"
               PROVE  i > 1 /\ outq'[i-1] = "enter1"
    BY DEF QueueInv
  <2>1. outq[n + i] = "enter2" /\ n + i \in 1..Len(outq)
    BY <1>2, <1>4
  <2>2. outq[n + i - 1] = "enter1"
    BY <2>1 DEF QueueInv
  <2>3. i # 1
    BY <1>1, <2>2
  <2> QED
    BY <1>2, <1>4, <2>2, <2>3
<1>6. RawInv'
  <2> SUFFICES ASSUME termAlt' PROVE buf'.passthrough
    BY DEF RawInv
  <2>1. HasEnter(read) => buf'.passthrough
    BY <1>1, <1>2 DEF read, Detect, SetPassthrough, BufferType
  <2>2. CASE termAlt /\ \A i \in 1..Len(read) : read[i] # "exit2"
    <3>1. ~HasExit(read)
      BY <1>3, <2>2 DEF HasExit, Has
    <3> QED
      BY <1>1, <2>1, <2>2, <3>1 DEF read, Detect, RawInv
  <2>3. ASSUME NEW i \in 1..Len(read), read[i] = "enter2" PROVE HasEnter(read)
    <3>1. i > 1 /\ outq[i-1] = "enter1"
      BY <1>2, <1>3, <2>3 DEF QueueInv
    <3> QED
      BY <1>3, <2>3, <3>1 DEF HasEnter, Has
  <2> QED
    BY <1>1, <2>1, <2>2, <2>3 DEF AltAfter, read
<1> QED
  BY <1>5, <1>6

LEMMA ModeStep ==
    ASSUME TypeOK, QueueInv, RawInv, [Next]_vars, ~SplitReads
    PROVE  QueueInv' /\ RawInv'
<1>1. CASE ReadPty
  BY <1>1, DetectFollows
<1>2. CASE ~ReadPty
  <2>1. RawInv'
    BY <1>2, PassthroughKept DEF RawInv
  <2>2. ASSUME NEW output \in Outputs, ChildWrites(output) PROVE QueueInv'
    BY <2>2, QueueGrows
  <2>3. ASSUME Spawned PROVE QueueInv'
    <3>1. outq' = << >>
      BY <2>3 DEF Spawned
    <3>2. Len(outq') = 0
      BY <3>1
    <3> SUFFICES ASSUME NEW i \in 1..Len(outq') PROVE FALSE
      BY DEF QueueInv
    <3> QED
      BY <3>2
  <2>4. (~Spawned /\ ~(\E output \in Outputs : ChildWrites(output)))
           => outq' = outq
    BY <1>2 DEF Next, vars, loop, term, child, aside, others, Listen, ReadKey, StdinEof,
       FlushDeadline, Write, WriteError, ReadPtyEof, HandleWinch,
       HandleTermination, GiveUp, Reap, Tick, ChildReads, ChildExits,
       UserSignal, Resize
  <2> QED
    BY <2>1, <2>2, <2>3, <2>4 DEF QueueInv
<1> QED
  BY <1>1, <1>2

\* A key pushed through leaves nothing in the batch.
LEMMA KeyPasses ==
    ASSUME TypeOK, TypeOK', RawInv, [Next]_vars, termAlt, typed' = typed + 1
    PROVE  /\ chunk' # << >> /\ chunk'[Len(chunk')].nth = typed'
           /\ buf'.data = << >>
<1>1. typed \in Nat /\ typed' # typed /\ typed' # 0
  BY BoundAssumption DEF TypeOK
<1>2. PICK kind \in Keys : ReadKey(kind)
  BY <1>1 DEF Next, vars, loop, term, child, aside, others, Listen, StdinEof,
     FlushDeadline, Write, WriteError, ReadPty, ReadPtyEof, HandleWinch,
     HandleTermination, Spawned, GiveUp, Reap, Tick, ChildReads, ChildWrites,
     ChildExits, UserSignal, Resize
<1> DEFINE k == [kind |-> kind, session |-> session, nth |-> typed + 1]
           b == Push(buf, k)
<1>3. k \in Byte /\ k.nth = typed + 1
  BY KeysAssumption, BoundAssumption DEF Byte, TypeOK
<1>4. buf \in BufferType /\ buf.passthrough /\ buf.data \in Seq(Byte)
  BY DEF TypeOK, BufferType, RawInv
<1>5. b \in BufferType /\ b.passthrough /\ b.data = Append(buf.data, k)
  <2>1. Bypasses(buf)
    BY <1>4 DEF Bypasses
  <2>2. b \in BufferType /\ b.passthrough
    BY <1>3, <1>4, PushType
  <2>3. PushRaw(buf, k).data = Append(buf.data, k)
    BY <1>4 DEF PushRaw, BufferType
  <2> QED
    BY <2>1, <2>2, <2>3 DEF Push
<1>6. /\ b.data # << >> /\ b.data[Len(b.data)] = k
  <2>1. /\ Len(b.data) = Len(buf.data) + 1 /\ b.data[Len(buf.data) + 1] = k
        /\ Len(buf.data) \in Nat
    BY <1>3, <1>4, <1>5, AppendProperties
  <2> QED
    BY <2>1
<1>7. FlushAfterPush(b, k)
  BY <1>5, <1>6 DEF FlushAfterPush, ShouldFlush, Bypasses
<1>8. buf' = Take(b) /\ chunk' = b.data /\ typed' = typed + 1
  BY <1>2, <1>7 DEF ReadKey, Flush
<1>9. Take(b).data = << >>
  BY <1>5 DEF Take, BufferType
<1> HIDE DEF k, b
<1> QED
  BY <1>3, <1>6, <1>8, <1>9

\* If no read of the PTY ends inside the sequence for the alternate screen, a
\* key typed while the terminal shows it goes out at once and takes the batch
\* along, whatever output came in one read or in several (proxy.rs,
\* contains_enter_raw and contains_exit_raw; buffer.rs, push).
THEOREM FullScreenIsRaw == ASSUME ~SplitReads PROVE Spec => RawNeverBuffered
<1> DEFINE Passes ==
        termAlt /\ typed' = typed + 1
          => /\ chunk' # << >> /\ chunk'[Len(chunk')].nth = typed'
             /\ buf'.data = << >>
<1>1. Init => QueueInv /\ RawInv
  <2> SUFFICES ASSUME Init PROVE QueueInv /\ RawInv
    OBVIOUS
  <2>1. outq = << >> /\ ~termAlt
    BY DEF Init
  <2>2. Len(outq) = 0
    BY <2>1
  <2>3. \A i \in 1..Len(outq) : FALSE
    BY <2>2
  <2> QED
    BY <2>1, <2>3 DEF QueueInv, RawInv
<1>2. TypeOK /\ QueueInv /\ RawInv /\ [Next]_vars => QueueInv' /\ RawInv'
  BY ModeStep
<1>3. TypeOK /\ TypeOK' /\ RawInv /\ [Next]_vars => [Passes]_vars
  BY KeyPasses
<1> QED
  BY <1>1, <1>2, <1>3, ProxyTypeCorrect, PTL DEF Spec, RawNeverBuffered

-----------------------------------------------------------------------------
\* What ssh receives.

\* These bytes are the first that were typed in this session.
InOrder(bytes, n) ==
    \A i \in 1..Len(bytes) : bytes[i].session = n /\ bytes[i].nth = i

\* Bytes that left the proxy for the current ssh child.
Passed == got \o inq

\* Bytes that are on their way or wait, while the loop runs.
Behind == IF phase = "write" THEN chunk ELSE buf.data

\* All that was typed in this session is in one place, in its order; a loop that
\* has no session has no batch either.
StreamInv ==
    /\ buf.carry = << >>
    /\ phase \in {"write", "reconnect"} => buf.data = << >>
    /\ phase \in {"starting", "select", "write"} =>
        InOrder(Passed \o Behind, session) /\ Len(Passed \o Behind) = typed
    /\ InOrder(Passed, session)

LEMMA InOrderPrefix ==
    ASSUME NEW a \in Seq(Byte), NEW b \in Seq(Byte), NEW n, InOrder(a \o b, n)
    PROVE  InOrder(a, n)
<1>1. /\ Len(a \o b) = Len(a) + Len(b) /\ Len(a) \in Nat /\ Len(b) \in Nat
      /\ \A i \in 1..Len(a) : (a \o b)[i] = a[i]
  BY ConcatProperties
<1> QED
  BY <1>1 DEF InOrder

LEMMA InOrderNext ==
    ASSUME NEW a \in Seq(Byte), NEW n, InOrder(a, n),
           NEW k \in Byte, k.session = n, k.nth = Len(a) + 1
    PROVE  InOrder(Append(a, k), n) /\ Len(Append(a, k)) = Len(a) + 1
<1>1. /\ Len(Append(a, k)) = Len(a) + 1 /\ Len(a) \in Nat
      /\ \A i \in 1..Len(a) : Append(a, k)[i] = a[i]
      /\ Append(a, k)[Len(a) + 1] = k
  BY AppendProperties
<1> QED
  BY <1>1 DEF InOrder

LEMMA ConcatIsAssociative ==
    \A a, b, c \in Seq(Byte) : (a \o b) \o c = a \o (b \o c)
BY ConcatAssociative

\* The stream is made of sequences.
LEMMA StreamType ==
    ASSUME TypeOK
    PROVE  /\ Passed \in Seq(Byte) /\ Behind \in Seq(Byte)
           /\ Passed \o Behind \in Seq(Byte)
           /\ got \in Seq(Byte) /\ inq \in Seq(Byte) /\ chunk \in Seq(Byte)
           /\ buf.data \in Seq(Byte)
<1>1. /\ got \in Seq(Byte) /\ inq \in Seq(Byte) /\ chunk \in Seq(Byte)
      /\ buf.data \in Seq(Byte)
  BY DEF TypeOK
<1>2. Passed \in Seq(Byte) /\ Behind \in Seq(Byte)
  BY <1>1, ConcatProperties DEF Passed, Behind
<1> QED
  BY <1>1, <1>2, ConcatProperties

\* A key that is not the beginning of a longer character joins the batch.
LEMMA PlainPush ==
    ASSUME NEW b \in BufferType, b.carry = << >>, NEW k \in Byte, k.kind \notin Leads
    PROVE  Push(b, k).carry = << >> /\ Push(b, k).data = Append(b.data, k)
<1>1. Append(b.carry, k) = <<k>> /\ b.data \o <<k>> = Append(b.data, k)
  BY AppendIsConcat DEF BufferType
<1>2. ~IsPartial(<<k>>)
  BY DEF IsPartial
<1>3. CASE Bypasses(b)
  BY <1>3 DEF Push, PushRaw, BufferType
<1>4. CASE ~Bypasses(b)
  BY <1>1, <1>2, <1>4 DEF Push, PushCooked, BufferType
<1> QED
  BY <1>3, <1>4

\* Steps that move no byte, but for one that leaves the loop.
LEMMA StreamRests ==
    ASSUME StreamInv, UNCHANGED <<got, inq, session>>,
           buf'.carry = buf.carry,
           phase' = "reconnect" => buf'.data = << >>,
           phase' \in {"starting", "select", "write"} =>
               /\ phase \in {"starting", "select", "write"}
               /\ phase' = "write" <=> phase = "write"
               /\ chunk' = chunk /\ buf'.data = buf.data /\ typed' = typed
    PROVE  StreamInv'
<1>1. Passed' = Passed
  BY DEF Passed
<1>2. phase' \in {"starting", "select", "write"} => Behind' = Behind
  BY DEF Behind
<1> QED
  BY <1>1, <1>2 DEF StreamInv

\* A key is the next byte of the stream.
LEMMA StreamGrows ==
    ASSUME TypeOK, StreamInv, Keys \cap Leads = {}, NEW kind \in Keys, ReadKey(kind)
    PROVE  StreamInv'
<1> DEFINE k == [kind |-> kind, session |-> session, nth |-> typed + 1]
           b == Push(buf, k)
<1>1. k \in Byte /\ k.kind \notin Leads /\ k.session = session /\ k.nth = typed + 1
  BY KeysAssumption, BoundAssumption DEF Byte, TypeOK
<1>2. buf \in BufferType /\ buf.carry = << >>
  BY DEF TypeOK, BufferType, StreamInv
<1>3. b \in BufferType /\ b.carry = << >> /\ b.data = Append(buf.data, k)
  BY <1>1, <1>2, PushType, PlainPush
<1>4. Take(b).data = << >> /\ Take(b).carry = << >>
  BY <1>3 DEF Take, BufferType
<1>5. /\ phase = "select" /\ typed' = typed + 1
      /\ got' = got /\ inq' = inq /\ session' = session
      /\ \/ buf' = Take(b) /\ chunk' = b.data /\ phase' = "write"
         \/ buf' = b /\ phase' = phase
  BY DEF ReadKey, Flush, child
<1> HIDE DEF k, b
<1>6. Behind' = Append(Behind, k) /\ Passed' = Passed
  BY <1>3, <1>5 DEF Behind, Passed
<1>7. Passed \o Append(Behind, k) = Append(Passed \o Behind, k)
  BY <1>1, StreamType, AppendIsConcat, ConcatAssociative
<1>8. InOrder(Passed \o Behind, session) /\ Len(Passed \o Behind) = typed
  BY <1>5 DEF StreamInv
<1>9. /\ InOrder(Append(Passed \o Behind, k), session)
      /\ Len(Append(Passed \o Behind, k)) = typed + 1
  BY <1>1, <1>8, StreamType, InOrderNext
<1> QED
  BY <1>3, <1>4, <1>5, <1>6, <1>7, <1>9 DEF StreamInv

\* A batch that begins to be written is where it was in the stream.
LEMMA StreamFlushes ==
    ASSUME TypeOK, StreamInv, FlushDeadline
    PROVE  StreamInv'
<1>1. /\ phase = "select" /\ phase' = "write" /\ chunk' = buf.data
      /\ buf' = Take(buf) /\ UNCHANGED <<got, inq, session, typed>>
  BY DEF FlushDeadline, Flush, child
<1>2. Take(buf).data = << >> /\ Take(buf).carry = buf.carry
  BY DEF Take, TypeOK
<1>3. Behind' = Behind /\ Passed' = Passed
  BY <1>1 DEF Behind, Passed
<1> QED
  BY <1>1, <1>2, <1>3 DEF StreamInv

\* What the PTY takes of a batch passes; the rest stays behind.
LEMMA StreamPasses ==
    ASSUME TypeOK, StreamInv, Write
    PROVE  StreamInv'
<1>1. PICK n \in 1..Len(chunk) :
        /\ inq' = inq \o SubSeq(chunk, 1, n)
        /\ chunk' = SubSeq(chunk, n + 1, Len(chunk))
        /\ phase' = IF n = Len(chunk) THEN "select" ELSE "write"
  BY DEF Write
<1>2. phase = "write" /\ UNCHANGED <<buf, got, session, typed>>
  BY DEF Write
<1> DEFINE front == SubSeq(chunk, 1, n)
           rest == SubSeq(chunk, n + 1, Len(chunk))
<1>3. Len(chunk) \in Nat /\ \A i \in 1..Len(chunk) : chunk[i] \in Byte
  BY StreamType, LenProperties, ElementOfSeq
<1>4. front \in Seq(Byte) /\ rest \in Seq(Byte)
  BY <1>3, SubSeqProperties
<1>5. front \o rest = chunk
  <2>1. SubSeq(chunk, 1, n) \o SubSeq(chunk, n + 1, Len(chunk))
          = SubSeq(chunk, 1, Len(chunk))
    <3>1. 1 \in 1..Len(chunk) + 1 /\ n \in 1-1..Len(chunk) /\ Len(chunk) \in n..Len(chunk)
      BY <1>3
    <3> QED
      BY <3>1, StreamType, ConcatAdjacentSubSeq
  <2> QED
    BY <2>1, StreamType, SubSeqFull
<1>6. Behind' = rest
  <2>1. CASE n = Len(chunk)
    <3>1. rest = << >>
      BY <1>3, <2>1, SubSeqEmpty
    <3> QED
      BY <1>1, <1>2, <2>1, <3>1 DEF Behind, StreamInv
  <2>2. CASE n # Len(chunk)
    BY <1>1, <2>2 DEF Behind
  <2> QED
    BY <2>1, <2>2
<1> HIDE DEF front, rest
<1>a. got \in Seq(Byte) /\ inq \in Seq(Byte) /\ Passed \in Seq(Byte)
  BY StreamType
<1>7. Passed' = Passed \o front
  <2>1. (got \o inq) \o front = got \o (inq \o front)
    BY <1>4, <1>a, ConcatIsAssociative, Zenon
  <2> QED
    BY <1>1, <1>2, <2>1 DEF Passed, front
<1>8. Passed' \o Behind' = Passed \o Behind
  <2>1. (Passed \o front) \o rest = Passed \o (front \o rest)
    BY <1>4, <1>a, ConcatIsAssociative, Zenon
  <2>2. Behind = chunk
    BY <1>2 DEF Behind
  <2> QED
    BY <1>5, <1>6, <1>7, <2>1, <2>2
<1>9. InOrder(Passed', session)
  <2>1. Passed \o front \in Seq(Byte)
    BY <1>4, StreamType, ConcatProperties
  <2> QED
    BY <1>2, <1>4, <1>6, <1>7, <1>8, <2>1, InOrderPrefix DEF StreamInv
<1> QED
  BY <1>1, <1>2, <1>8, <1>9 DEF StreamInv

\* ssh reads what passed first.
LEMMA StreamRead ==
    ASSUME TypeOK, StreamInv, ChildReads
    PROVE  StreamInv'
<1>1. /\ inq # << >> /\ got' = Append(got, Head(inq)) /\ inq' = Tail(inq)
      /\ UNCHANGED <<phase, buf, chunk, session, typed>>
  BY DEF ChildReads, loop
<1>2. Head(inq) \in Byte /\ Tail(inq) \in Seq(Byte) /\ <<Head(inq)>> \in Seq(Byte)
  BY <1>1, StreamType
<1>3. inq = <<Head(inq)>> \o Tail(inq)
  BY <1>1, StreamType
<1>a. got \in Seq(Byte)
  BY StreamType
<1>4. Passed' = Passed
  <2>1. Append(got, Head(inq)) = got \o <<Head(inq)>>
    BY <1>2, StreamType, AppendIsConcat
  <2>2. (got \o <<Head(inq)>>) \o Tail(inq) = got \o (<<Head(inq)>> \o Tail(inq))
    BY <1>2, <1>a, ConcatIsAssociative, Zenon
  <2> QED
    BY <1>1, <1>3, <2>1, <2>2 DEF Passed
<1>5. Behind' = Behind
  BY <1>1 DEF Behind
<1> QED
  BY <1>1, <1>4, <1>5 DEF StreamInv

\* A new session begins with nothing.
LEMMA StreamBegins ==
    ASSUME StreamInv, Spawned
    PROVE  StreamInv'
<1>1. /\ phase' = "select" /\ typed' = 0 /\ got' = << >> /\ inq' = << >>
      /\ buf' = buf /\ buf.data = << >>
  BY DEF Spawned, StreamInv
<1>2. Passed' = << >> /\ (Passed \o Behind)' = << >>
  BY <1>1 DEF Passed, Behind
<1>3. \A n : InOrder(<< >>, n) /\ Len(<< >>) = 0
  BY DEF InOrder
<1> QED
  BY <1>1, <1>2, <1>3 DEF StreamInv

LEMMA StreamStep ==
    ASSUME TypeOK, StreamInv, [Next]_vars, Keys \cap Leads = {}
    PROVE  StreamInv'
<1> USE DEF loop, term, child, aside, others
<1>0. /\ Take(buf).data = << >> /\ Take(buf).carry = buf.carry
      /\ Age(buf, 1).data = buf.data /\ Age(buf, 1).carry = buf.carry
      /\ \A read : /\ Detect(buf, read).data = buf.data
                   /\ Detect(buf, read).carry = buf.carry
  BY DEF Take, Age, Detect, SetPassthrough, TypeOK
<1>1. ASSUME NEW kind \in Keys, ReadKey(kind) PROVE StreamInv'
  BY <1>1, StreamGrows
<1>2. CASE FlushDeadline
  BY <1>2, StreamFlushes
<1>3. CASE Write
  BY <1>3, StreamPasses
<1>4. CASE ChildReads
  BY <1>4, StreamRead
<1>5. CASE Spawned
  BY <1>5, StreamBegins
<1>6. CASE Listen
  BY <1>6, StreamRests DEF Listen
<1>7. CASE ReadPty
  BY <1>0, <1>7, StreamRests DEF ReadPty
<1>8. CASE ReadPtyEof
  BY <1>0, <1>8, StreamRests DEF ReadPtyEof, BeginReconnect, Leave
<1>9. ASSUME NEW sig \in UserSignals, HandleTermination(sig) PROVE StreamInv'
  BY <1>0, <1>9, StreamRests DEF HandleTermination, BeginReconnect, Leave
<1>10. CASE HandleWinch \/ Tick \/ ChildExits
  BY <1>0, <1>10, StreamRests DEF HandleWinch, Tick, ChildExits, StreamInv
<1>11. CASE StdinEof \/ WriteError \/ GiveUp \/ Reap
  BY <1>11, StreamRests DEF StdinEof, WriteError, GiveUp, Reap
<1>12. ASSUME NEW output \in Outputs, ChildWrites(output) PROVE StreamInv'
  BY <1>12, StreamRests DEF ChildWrites, StreamInv
<1>13. ASSUME NEW sig \in UserSignals, UserSignal(sig) PROVE StreamInv'
  BY <1>13, StreamRests DEF UserSignal, StreamInv
<1>14. CASE Resize
  BY <1>14, StreamRests DEF Resize, StreamInv
<1>15. CASE UNCHANGED vars
  BY <1>15, StreamRests DEF vars, StreamInv
<1> QED
  BY <1>1, <1>2, <1>3, <1>4, <1>5, <1>6, <1>7, <1>8, <1>9, <1>10, <1>11, <1>12,
     <1>13, <1>14, <1>15 DEF Next

LEMMA StreamInit == Init => StreamInv
<1> SUFFICES ASSUME Init PROVE StreamInv
  OBVIOUS
<1>1. /\ phase = "starting" /\ typed = 0 /\ got = << >> /\ inq = << >>
      /\ buf.carry = << >> /\ buf.data = << >>
  BY DEF Init, NewBuffer
<1>2. Passed = << >> /\ Passed \o Behind = << >>
  BY <1>1 DEF Passed, Behind
<1>3. \A n : InOrder(<< >>, n) /\ Len(<< >>) = 0
  BY DEF InOrder
<1> QED
  BY <1>1, <1>2, <1>3 DEF StreamInv

\* With one-byte keys, each ssh child reads what was typed in its session, from
\* the first byte on, in order, without gap or repetition, whatever the modes,
\* the signals, the writes that stop short and the sessions before it did
\* (proxy.rs, run, reconnect and write_all_to_master).
THEOREM KeysDelivered ==
    ASSUME Keys \cap Leads = {} PROVE Spec => []DeliveredInFull
<1>1. TypeOK /\ StreamInv /\ [Next]_vars => StreamInv'
  BY StreamStep
<1>2. TypeOK /\ StreamInv => DeliveredInFull
  <2> SUFFICES ASSUME TypeOK, StreamInv PROVE DeliveredInFull
    OBVIOUS
  <2>1. CASE phase = "write"
    BY <2>1 DEF StreamInv, DeliveredInFull, InOrder, Passed, Behind
  <2>2. CASE phase # "write"
    <3>1. got \o inq \o << >> = Passed
      BY StreamType, ConcatEmptySeq DEF Passed
    <3> QED
      BY <2>2, <3>1 DEF StreamInv, DeliveredInFull, InOrder
  <2> QED
    BY <2>1, <2>2
<1> QED
  BY <1>1, <1>2, StreamInit, ProxyTypeCorrect, PTL DEF Spec

\* With one-byte keys, no ssh child reads a byte typed before it was spawned:
\* "deliberately drops any input still buffered locally" (README.md).
THEOREM NothingReplayed ==
    ASSUME Keys \cap Leads = {} PROVE Spec => []NoReplay
<1>1. TypeOK /\ DeliveredInFull => NoReplay
  <2> SUFFICES ASSUME TypeOK, DeliveredInFull, NEW i \in 1..Len(got)
               PROVE  got[i].session = session
    BY DEF NoReplay
  <2> DEFINE late == IF phase = "write" THEN chunk ELSE << >>
  <2>1. got \in Seq(Byte) /\ inq \in Seq(Byte) /\ late \in Seq(Byte)
    BY StreamType
  <2> HIDE DEF late
  <2>2. /\ got \o inq \in Seq(Byte) /\ Len(got \o inq) = Len(got) + Len(inq)
        /\ (got \o inq)[i] = got[i] /\ Len(got) \in Nat /\ Len(inq) \in Nat
    BY <2>1, ConcatProperties
  <2>3. /\ Len(got \o inq \o late) = Len(got) + Len(inq) + Len(late)
        /\ Len(late) \in Nat
        /\ (got \o inq \o late)[i] = got[i]
    BY <2>1, <2>2, ConcatProperties
  <2>4. i \in 1..Len(got \o inq \o late)
    BY <2>2, <2>3
  <2> QED
    BY <2>3, <2>4 DEF DeliveredInFull, late
<1> QED
  BY <1>1, KeysDelivered, ProxyTypeCorrect, PTL
=============================================================================
