------------------------------ MODULE SessionLog ------------------------------
(***************************************************************************)
(* The session log: src/recorder.rs writes it through a BufWriter, whose   *)
(* writes may fail and whose process may be killed at any point, and       *)
(* src/replay.rs reads what is there.                                      *)
(*                                                                         *)
(* The text is a sequence of tokens: a hexadecimal digit, a number,        *)
(* a letter for the direction, a space, an end of line, and the header's   *)
(* fixed part in two pieces.  A number or a letter is never cut, because   *)
(* the parser cannot tell a part of it from nothing at all.                *)
(*                                                                         *)
(* As elsewhere, an operator with an underscore in its name is wrong on    *)
(* purpose.                                                                *)
(***************************************************************************)
EXTENDS Integers, Sequences, SequencesExt

CONSTANTS
    Bytes,     \* the bytes that are typed and shown
    Capacity,  \* tokens a BufWriter holds
    MaxChunk,  \* bound: bytes in a chunk
    MaxEvents, \* bound: events recorded in a session
    MaxFaults  \* bound: writes to the disk that fail

ASSUME BytesAssumption == Bytes \subseteq 0..255
ASSUME CapacityAssumption == Capacity \in Nat \ 0..3  \* room for the header
ASSUME LogBoundAssumption ==
    MaxChunk \in Nat \ {0} /\ MaxEvents \in Nat /\ MaxFaults \in Nat

VARIABLES
    phase,    \* open; closed: the writer was dropped; dead: it was not
    file,     \* what the disk has
    buffer,   \* what the BufWriter has
    pieces,   \* what writeln! has still to write of a line
    recorded, \* the events of the session, in order
    failed,   \* how many of them record_* reported as failed
    faults    \* how many writes to the disk failed

vars == <<phase, file, buffer, pieces, recorded, failed, faults>>

-----------------------------------------------------------------------------
\* The text.

Token(kind, n) == [kind |-> kind, n |-> n]
Digit(n) == Token("digit", n)
Number(n) == Token("number", n)
Space == Token("space", 0)
Newline == Token("newline", 0)
Letter(direction) == Token(direction, 0)

Kinds == {"digit", "number", "space", "newline", "I", "O", "PTYX", "v1"}
Tokens == [kind : Kinds, n : Nat]

\* hex_encode
HexEncode(bytes) ==
    [i \in 1..2 * Len(bytes) |->
        LET byte == bytes[(i + 1) \div 2]
        IN  Digit(IF i % 2 = 1 THEN byte \div 16 ELSE byte % 16)]

\* The pieces in which writeln! hands the header to the writer, all of them
\* small enough to be buffered.
Header == <<Token("PTYX", 0), Token("v1", 0), Number(0), Newline>>

Event == [direction : {"I", "O"}, elapsed : Nat, data : Seq(Bytes)]

Line_Unterminated(event) ==
    <<<<Letter(event.direction), Space>>, <<Number(event.elapsed)>>, <<Space>>,
      HexEncode(event.data)>>

\* The pieces of an event's line.
Line(event) ==
    <<<<Letter(event.direction), Space>>, <<Number(event.elapsed)>>, <<Space>>,
      HexEncode(event.data), <<Newline>>>>

-----------------------------------------------------------------------------
\* The reader.

IsHex_AnyCharacter(text) == Len(text) % 2 = 0

\* hex_decode gives Some: hex_nibble knows every character of an even number.
IsHex(text) == Len(text) % 2 = 0 /\ \A i \in DOMAIN text : text[i].kind = "digit"

\* What hex_decode gives.
HexDecode(text) ==
    [i \in 1..Len(text) \div 2 |-> 16 * text[2*i - 1].n + text[2*i].n]

\* parse_event_line: the events of a line, one or none.  splitn cuts the line
\* at its first two spaces.
ParseEventLine(line) ==
    LET hex == SubSeq(line, 5, Len(line))
    IN  IF /\ Len(line) >= 4
           /\ line[1].kind \in {"I", "O"} /\ line[2] = Space
           /\ line[3].kind = "number" /\ line[4] = Space
           /\ IsHex(hex)
        THEN <<[direction |-> line[1].kind, elapsed |-> line[3].n,
                data |-> HexDecode(hex)]>>
        ELSE << >>

\* The text between its ends of line.
Cut(text) ==
    LET cut[n \in 0..Len(text)] ==
            IF n = 0 THEN << << >> >>
            ELSE LET lines == cut[n - 1]
                 IN  IF text[n] = Newline
                     THEN Append(lines, << >>)
                     ELSE [lines EXCEPT ![Len(lines)] = Append(@, text[n])]
    IN  cut[Len(text)]

\* content.lines(): what follows the last end of line is a line unless it is empty.
Lines(text) ==
    LET lines == Cut(text)
    IN  IF Last(lines) = << >> THEN Front(lines) ELSE lines

HasHeader(text) ==
    /\ Len(text) >= 2 /\ text[1].kind = "PTYX" /\ text[2].kind = "v1"

ParseSession_StopsAtMalformed(text) ==
    LET lines == Lines(text)
        parsed == [k \in 1..Len(lines) - 1 |-> ParseEventLine(lines[k + 1])]
        good == {k \in DOMAIN parsed : \A j \in 1..k : parsed[j] # << >>}
    IN  FlattenSeq([k \in good |-> parsed[k]])

\* parse_session of a file with a header: malformed lines are skipped.
ParseSession(text) ==
    LET lines == Lines(text)
    IN  FlattenSeq([k \in 1..Len(lines) - 1 |-> ParseEventLine(lines[k + 1])])

\* replay_session: what it writes to the terminal.
Shown(events) ==
    FlattenSeq([i \in DOMAIN events |->
        IF events[i].direction = "O" THEN events[i].data ELSE << >>])

-----------------------------------------------------------------------------
\* The writer.

\* SessionRecorder::new
Init ==
    /\ phase = "open"
    /\ file = << >>
    /\ buffer = Header
    /\ pieces = << >>
    /\ recorded = << >>
    /\ failed = 0 /\ faults = 0

\* record_input or record_output begins, unless the chunk is empty; time
\* passes between two events.
Record(direction, data) ==
    LET event == [direction |-> direction, elapsed |-> Len(recorded) + 1,
                  data |-> data]
    IN  /\ phase = "open"
        /\ pieces = << >>
        /\ data # << >>
        /\ Len(recorded) < MaxEvents
        /\ recorded' = Append(recorded, event)
        /\ pieces' = Line(event)
        /\ UNCHANGED <<phase, file, buffer, failed, faults>>

\* BufWriter::write_all with room for the piece.
Fits(piece) == Len(buffer) + Len(piece) <= Capacity /\ Len(piece) < Capacity
PutPiece ==
    /\ phase = "open"
    /\ pieces # << >>
    /\ Fits(Head(pieces))
    /\ buffer' = buffer \o Head(pieces)
    /\ pieces' = Tail(pieces)
    /\ UNCHANGED <<phase, file, recorded, failed, faults>>

\* Without room the buffer goes to the disk first.
FlushBuffer ==
    /\ phase = "open"
    /\ pieces # << >>
    /\ ~Fits(Head(pieces))
    /\ buffer # << >>
    /\ file' = file \o buffer
    /\ buffer' = << >>
    /\ UNCHANGED <<phase, pieces, recorded, failed, faults>>

\* A piece as long as the buffer goes to the disk directly.
PutDirectly ==
    /\ phase = "open"
    /\ pieces # << >>
    /\ ~Fits(Head(pieces))
    /\ buffer = << >>
    /\ file' = file \o Head(pieces)
    /\ pieces' = Tail(pieces)
    /\ UNCHANGED <<phase, buffer, recorded, failed, faults>>

\* The disk takes a part and then fails.  What the BufWriter had and could
\* not write it keeps; the rest of the line is given up, and the error is
\* dropped by the caller.
WriteFails ==
    LET toWrite == IF buffer # << >> THEN buffer ELSE Head(pieces)
    IN  /\ phase = "open"
        /\ pieces # << >>
        /\ ~Fits(Head(pieces))
        /\ faults < MaxFaults
        /\ faults' = faults + 1
        /\ failed' = failed + 1
        /\ \E n \in 0..Len(toWrite) - 1 :
            /\ file' = file \o SubSeq(toWrite, 1, n)
            /\ buffer' = IF buffer # << >> THEN SubSeq(buffer, n + 1, Len(buffer))
                                           ELSE << >>
        /\ pieces' = << >>
        /\ UNCHANGED <<phase, recorded>>

Drop_Forgotten ==
    /\ phase = "open"
    /\ pieces = << >>
    /\ phase' = "closed"
    /\ UNCHANGED <<file, buffer, pieces, recorded, failed, faults>>

\* run() returns and the recorder is dropped, which writes the buffer.
Drop ==
    /\ phase = "open"
    /\ pieces = << >>
    /\ phase' = "closed"
    /\ file' = file \o buffer
    /\ buffer' = << >>
    /\ UNCHANGED <<pieces, recorded, failed, faults>>

\* The same on a disk that fails again.
DropFails ==
    /\ phase = "open"
    /\ pieces = << >>
    /\ faults < MaxFaults
    /\ faults' = faults + 1
    /\ phase' = "dead"
    /\ \E n \in 0..Len(buffer) - 1 : file' = file \o SubSeq(buffer, 1, n)
    /\ buffer' = << >>
    /\ UNCHANGED <<pieces, recorded, failed>>

\* The process is killed.
Kill ==
    /\ phase = "open"
    /\ phase' = "dead"
    /\ buffer' = << >>
    /\ pieces' = << >>
    /\ UNCHANGED <<file, recorded, failed, faults>>

\* The machine stops, and the disk has a beginning of the file: nothing syncs it.
PowerLoss ==
    /\ phase \in {"open", "closed"}
    /\ phase' = "dead"
    /\ buffer' = << >>
    /\ pieces' = << >>
    /\ \E n \in 0..Len(file) : file' = SubSeq(file, 1, n)
    /\ UNCHANGED <<recorded, failed, faults>>

Chunks == UNION {[1..n -> Bytes] : n \in 0..MaxChunk}

Next ==
    \/ \E direction \in {"I", "O"}, data \in Chunks : Record(direction, data)
    \/ PutPiece \/ FlushBuffer \/ PutDirectly
    \/ WriteFails
    \/ Drop \/ DropFails
    \/ Kill \/ PowerLoss

Spec == Init /\ [][Next]_vars

-----------------------------------------------------------------------------

\* Every variable keeps its type; the buffer is within its capacity, and nothing
\* is buffered once the writer is gone.
TypeOK ==
    /\ phase \in {"open", "closed", "dead"}
    /\ file \in Seq(Tokens) /\ buffer \in Seq(Tokens)
    /\ pieces \in Seq(Seq(Tokens))
    /\ recorded \in Seq(Event)
    /\ failed \in 0..faults /\ faults \in 0..MaxFaults
    /\ Len(buffer) <= Capacity
    /\ phase # "open" => buffer = << >> /\ pieces = << >>

\* The events that a reader of the file gets now.
Read == IF HasHeader(file) THEN ParseSession(file) ELSE << >>

\* Whatever was cut off or failed, the reader gets events of this session, in
\* their order, none twice, and none altered but the last, of which a beginning
\* may be left: two lines run together by a failed write are never taken
\* for an event.
ReadIsGenuine ==
    \A i \in DOMAIN Read :
        LET event == Read[i]
        IN  /\ i > 1 => Read[i - 1].elapsed < event.elapsed
            /\ event.elapsed \in DOMAIN recorded
            /\ LET original == recorded[event.elapsed]
               IN  /\ event.direction = original.direction
                   /\ IsPrefix(event.data, original.data)
                   /\ (i < Len(Read) => event.data = original.data)

\* Without a failed write, a killed or stopped session replays as a beginning of
\* what was shown, and a session that ended replays in full.
ReplayIsPrefix ==
    faults = 0 =>
        /\ IsPrefix(Shown(Read), Shown(recorded))
        /\ phase = "closed" => Read = recorded

\* A failed write costs at most two events: its own, and the next one if its
\* line has been begun.
LossBounded ==
    phase = "closed" => Len(recorded) - Len(Read) <= 2 * failed
=============================================================================
