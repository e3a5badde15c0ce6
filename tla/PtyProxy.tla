------------------------------- MODULE PtyProxy -------------------------------
(***************************************************************************)
(* The event loop of src/proxy.rs between the user's terminal and the ssh  *)
(* child behind the PTY: the select! branches, the write that suspends the *)
(* loop, reconnection, signals and the way out.  Local echo (config.predict) *)
(* is off here; EchoPrediction models it.                                  *)
(*                                                                         *)
(* The PTY, ssh, the user and the kernel's signals are the environment.    *)
(* An operator with an underscore in its name is wrong on purpose: a        *)
(* variant that a run must be able to tell from the program.               *)
(***************************************************************************)
EXTENDS BufferOps

CONSTANTS
    Reconnects,  \* the choices of config.persistence.reconnect
    Keys,        \* the kinds of byte the keyboard sends
    PtyCap,      \* bytes the PTY holds that ssh has not read
    SplitReads,  \* a read of the PTY may end inside an escape sequence
    StdinEnds,   \* the user's input may end
    EarlyResize, \* the window may change before Signals::new
    SpawnFails,  \* open_pty or fork_ssh may fail during a reconnect
    UserSignals, \* the signals that others send to the proxy
    MaxTyped,    \* bound: bytes typed in a session
    MaxOutput,   \* bound: writes of ssh in a behaviour
    MaxSessions, \* bound: ssh children in a behaviour
    MaxUserActs  \* bound: signals and window resizes in a behaviour

ASSUME FlagAssumption ==
    Reconnects \cup {SplitReads, StdinEnds, EarlyResize, SpawnFails}
        \subseteq BOOLEAN
ASSUME KeysAssumption == Keys \subseteq Kinds
ASSUME CapAssumption == PtyCap \in Nat \ {0}
ASSUME SignalsAssumption == UserSignals \subseteq {"TERM", "HUP"}
ASSUME BoundAssumption ==
    /\ MaxTyped \in Nat /\ MaxOutput \in Nat
    /\ MaxSessions \in Nat \ {0} /\ MaxUserActs \in Nat

VARIABLES
    reconnect, \* config.persistence.reconnect of this process
    phase,     \* where run() is
    buf,       \* the InputBuffer
    chunk,     \* what write_all_to_master has still to write
    termAlt,   \* the user's terminal shows the alternate screen
    termSize,  \* the size of the user's terminal
    ptySize,   \* the size set on the PTY
    pending,   \* signals received and not yet handled
    session,   \* the number of the current ssh child
    typed,     \* bytes typed in this session
    inq,       \* the PTY's input queue, towards ssh
    got,       \* the bytes the current ssh child has read
    outq,      \* the PTY's output queue, towards the proxy
    alive,     \* the current ssh child runs and holds the PTY's slave side
    inputEnded,\* run() has read the end of the user's input
    outputs,   \* how often ssh wrote
    userActs   \* signals sent and windows resized

loop  == <<phase, buf, chunk>>
term  == <<termAlt, termSize>>
child == <<inq, got, outq, alive>>
others == <<reconnect, inputEnded>>
aside == <<outputs, userActs, others>>  \* what most of the loop's steps leave alone
vars  == <<reconnect, phase, buf, chunk, termAlt, termSize, ptySize, pending,
           session, typed, inq, got, outq, alive, inputEnded, outputs, userActs>>

\* starting: PtyProxy::new is done, Signals::new is not.  select: waiting in
\* select!.  write: inside write_all_to_master.  reconnect: inside
\* reconnect().  reap: inside wait_for_child.  done: run() returned Ok.
\* failed and gave_up: it returned the Err of a write and of reconnect().
\* killed: a signal's default action ended the process.
Phases == {"starting", "select", "write", "reconnect", "reap",
           "done", "failed", "gave_up", "killed"}
Running == {"starting", "select", "write", "reconnect"}

\* The escape sequences that enter and leave the alternate screen, each in
\* two parts, and any other output.
Glyphs == {"enter1", "enter2", "exit1", "exit2", "other"}
Outputs == {<<"enter1", "enter2">>, <<"exit1", "exit2">>, <<"other">>,
            <<"exit1", "exit2", "enter1", "enter2">>}

Byte == [kind : Kinds, session : 1..MaxSessions, nth : Nat]

-----------------------------------------------------------------------------
\* The control flow of run().

\* PtyProxy::new: the first ssh child is spawned and given the window's size.
Init ==
    /\ reconnect \in Reconnects
    /\ phase = "starting"
    /\ \E noBuffer \in BOOLEAN : buf = NewBuffer(noBuffer, FALSE)
    /\ chunk = << >>
    /\ termAlt = FALSE
    /\ termSize = 0 /\ ptySize = 0
    /\ pending = {}
    /\ session = 1
    /\ typed = 0
    /\ inq = << >> /\ got = << >> /\ outq = << >> /\ alive = TRUE
    /\ inputEnded = FALSE
    /\ outputs = 0 /\ userActs = 0

\* Signals::new
Listen ==
    /\ phase = "starting"
    /\ phase' = "select"
    /\ UNCHANGED <<buf, chunk, term, ptySize, pending, session, typed, child, aside>>

\* take() and the start of write_all_to_master.
Flush(b) ==
    /\ buf' = Take(b)
    /\ chunk' = b.data
    /\ phase' = "write"

\* stdin.read(), if !buffer_full: one byte of the keyboard.
ReadKey(kind) ==
    LET k == [kind |-> kind, session |-> session, nth |-> typed + 1]
        b == Push(buf, k)
    IN  /\ phase = "select"
        /\ typed < MaxTyped
        /\ ~IsFull(buf)
        /\ typed' = typed + 1
        /\ IF FlushAfterPush(b, k)
           THEN Flush(b)
           ELSE buf' = b /\ UNCHANGED <<chunk, phase>>
        /\ UNCHANGED <<term, ptySize, pending, session, child, aside>>

\* stdin.read() returns 0.
StdinEof ==
    /\ phase = "select"
    /\ ~IsFull(buf)
    /\ StdinEnds
    /\ phase' = "reap"
    /\ inputEnded' = TRUE
    /\ UNCHANGED <<buf, chunk, term, ptySize, pending, session, typed, child,
                   outputs, userActs, reconnect>>

\* sleep_until(deadline), if buffer_nonempty.
FlushDeadline ==
    /\ phase = "select"
    /\ buf.data # << >>
    /\ buf.deadline = 0
    /\ Flush(buf)
    /\ UNCHANGED <<term, ptySize, pending, session, typed, child, aside>>

Write_StopsShort ==
    /\ phase = "write"
    /\ alive
    /\ \E n \in 1..Len(chunk) :
        /\ Len(inq) + n <= PtyCap
        /\ inq' = inq \o SubSeq(chunk, 1, n)
        /\ chunk' = SubSeq(chunk, n + 1, Len(chunk))
        /\ phase' = "select"
    /\ UNCHANGED <<buf, term, ptySize, pending, session, typed, got, outq, alive,
                   aside>>

Write_IgnoresCount ==
    /\ phase = "write"
    /\ alive
    /\ \E n \in 1..Len(chunk) :
        /\ Len(inq) + n <= PtyCap
        /\ inq' = inq \o SubSeq(chunk, 1, n)
        /\ chunk' = << >>
        /\ phase' = "select"
    /\ UNCHANGED <<buf, term, ptySize, pending, session, typed, got, outq, alive,
                   aside>>

\* write_all_to_master: the PTY takes some bytes, and when it has them all
\* the loop goes on.  Nothing else is served meanwhile.
Write ==
    /\ phase = "write"
    /\ alive
    /\ \E n \in 1..Len(chunk) :
        /\ Len(inq) + n <= PtyCap
        /\ inq' = inq \o SubSeq(chunk, 1, n)
        /\ chunk' = SubSeq(chunk, n + 1, Len(chunk))
        /\ phase' = IF n = Len(chunk) THEN "select" ELSE "write"
    /\ UNCHANGED <<buf, term, ptySize, pending, session, typed, got, outq, alive,
                   aside>>

\* No slave side is left: the write fails, and run() with it.
WriteError ==
    /\ phase = "write"
    /\ ~alive
    /\ phase' = "failed"
    /\ UNCHANGED <<buf, chunk, term, ptySize, pending, session, typed, child, aside>>

\* The bytes read contain the sequence with these two parts.
Has(read, part1, part2) ==
    \E i \in 1..Len(read) - 1 : read[i] = part1 /\ read[i+1] = part2
HasEnter(read) == Has(read, "enter1", "enter2")
HasExit(read) == Has(read, "exit1", "exit2")

\* What the terminal shows after this output; it keeps the parts of a
\* sequence together across writes.
AltAfter(alt, read) ==
    \/ alt /\ \A i \in 1..Len(read) : read[i] # "exit2"
    \/ \E i \in 1..Len(read) :
        /\ read[i] = "enter2"
        /\ \A j \in i+1..Len(read) : read[j] # "exit2"

Detect_ExitFirst(b, read) ==
    CASE HasExit(read) -> SetPassthrough(b, FALSE)
      [] ~HasExit(read) /\ HasEnter(read) -> SetPassthrough(b, TRUE)
      [] OTHER -> b

\* The mode of the buffer after this output.
Detect(b, read) ==
    CASE HasEnter(read) -> SetPassthrough(b, TRUE)
      [] ~HasEnter(read) /\ HasExit(read) -> SetPassthrough(b, FALSE)
      [] OTHER -> b

\* The PTY is readable: mode detection, then the output goes to the terminal.
ReadPty ==
    /\ phase = "select"
    /\ \E n \in 1..Len(outq) :
        LET read == SubSeq(outq, 1, n)
        IN  /\ SplitReads \/ read[n] \notin {"enter1", "exit1"}
            /\ buf' = Detect(buf, read)
            /\ termAlt' = AltAfter(termAlt, read)
            /\ outq' = SubSeq(outq, n + 1, Len(outq))
    /\ UNCHANGED <<phase, chunk, termSize, ptySize, pending, session, typed, inq,
                   got, alive, aside>>

BeginReconnect_KeepsBatch ==
    /\ phase' = "reconnect"
    /\ UNCHANGED <<buf, chunk>>

\* reconnect() up to its loop: the batch is dropped and the child told to end.
BeginReconnect ==
    /\ phase' = "reconnect"
    /\ buf' = Take(buf)
    /\ UNCHANGED chunk

Leave == phase' = "reap" /\ UNCHANGED <<buf, chunk>>

ReadPtyEof_Retries ==
    /\ phase = "select"
    /\ ~alive
    /\ outq = << >>
    /\ UNCHANGED vars

ReadPtyEof_Leaves ==
    /\ phase = "select"
    /\ ~alive
    /\ outq = << >>
    /\ Leave
    /\ UNCHANGED <<term, ptySize, pending, session, typed, child, aside>>

\* The PTY reports end of file, or the error that Linux reports instead.
ReadPtyEof ==
    /\ phase = "select"
    /\ ~alive
    /\ outq = << >>
    /\ IF reconnect THEN BeginReconnect ELSE Leave
    /\ UNCHANGED <<term, ptySize, pending, session, typed, child, aside>>

\* SIGWINCH: the window's present size is set on the PTY.
HandleWinch ==
    /\ phase = "select"
    /\ "WINCH" \in pending
    /\ pending' = pending \ {"WINCH"}
    /\ ptySize' = termSize
    /\ UNCHANGED <<loop, term, session, typed, child, aside>>

HandleTermination_AlwaysReconnects(sig) ==
    /\ phase = "select"
    /\ sig \in pending
    /\ pending' = pending \ {sig}
    /\ IF reconnect THEN BeginReconnect ELSE Leave
    /\ UNCHANGED <<term, ptySize, session, typed, child, aside>>

\* SIGTERM, and SIGHUP when there is no reconnection.
HandleTermination(sig) ==
    /\ phase = "select"
    /\ sig \in pending
    /\ pending' = pending \ {sig}
    /\ IF sig = "HUP" /\ reconnect THEN BeginReconnect ELSE Leave
    /\ UNCHANGED <<term, ptySize, session, typed, child, aside>>

Spawned_DefaultSize ==
    /\ phase = "reconnect"
    /\ session < MaxSessions
    /\ phase' = "select"
    /\ session' = session + 1
    /\ typed' = 0
    /\ inq' = << >> /\ got' = << >> /\ outq' = << >> /\ alive' = TRUE
    /\ ptySize' = 0
    /\ UNCHANGED <<buf, chunk, term, pending, aside>>

\* spawn_ssh_master succeeds: another PTY, another child, the present size.
Spawned ==
    /\ phase = "reconnect"
    /\ session < MaxSessions
    /\ phase' = "select"
    /\ session' = session + 1
    /\ typed' = 0
    /\ inq' = << >> /\ got' = << >> /\ outq' = << >> /\ alive' = TRUE
    /\ ptySize' = termSize
    /\ UNCHANGED <<buf, chunk, term, pending, aside>>

\* spawn_ssh_master still fails when the policy's timeout has passed.
GiveUp ==
    /\ phase = "reconnect"
    /\ SpawnFails
    /\ phase' = "gave_up"
    /\ UNCHANGED <<buf, chunk, term, ptySize, pending, session, typed, child, aside>>

\* waitpid returns when the child has ended.
Reap ==
    /\ phase = "reap"
    /\ ~alive
    /\ phase' = "done"
    /\ UNCHANGED <<buf, chunk, term, ptySize, pending, session, typed, child, aside>>

-----------------------------------------------------------------------------
\* The environment.

Tick ==
    /\ buf' = Age(buf, 1)
    /\ UNCHANGED <<phase, chunk, term, ptySize, pending, session, typed, child, aside>>

\* ssh reads one byte.
ChildReads ==
    /\ alive
    /\ inq # << >>
    /\ got' = Append(got, Head(inq))
    /\ inq' = Tail(inq)
    /\ UNCHANGED <<loop, term, ptySize, pending, session, typed, outq, alive,
                   aside>>

ChildWrites(output) ==
    /\ alive
    /\ outputs < MaxOutput
    /\ outputs' = outputs + 1
    /\ outq' = outq \o output
    /\ UNCHANGED <<loop, term, ptySize, pending, session, typed, inq, got, alive,
                   userActs, others>>

\* Bound: with reconnection, ssh ends only if a later child can still replace
\* it, and every one that a SIGHUP asks for.
MayLoseChild ==
    LET hangups == IF "HUP" \in UserSignals THEN MaxUserActs ELSE 0
    IN  reconnect => session + hangups < MaxSessions

\* ssh ends, on its own or because reconnect() killed it.
ChildExits ==
    /\ alive
    /\ MayLoseChild
    /\ alive' = FALSE
    /\ UNCHANGED <<loop, term, ptySize, pending, session, typed, inq, got, outq,
                   aside>>

UserMayAct ==
    /\ phase \in Running
    /\ userActs < MaxUserActs
    /\ userActs' = userActs + 1

\* Somebody sends the proxy a signal; before Signals::new it acts by default.
UserSignal(sig) ==
    /\ UserMayAct
    /\ IF phase = "starting"
       THEN phase' = "killed" /\ UNCHANGED pending
       ELSE pending' = pending \cup {sig} /\ UNCHANGED phase
    /\ UNCHANGED <<buf, chunk, term, ptySize, session, typed, child, outputs,
                   others>>

\* The window gets another size; SIGWINCH is ignored before Signals::new.
Resize ==
    /\ UserMayAct
    /\ EarlyResize \/ phase # "starting"
    /\ termSize' = termSize + 1
    /\ pending' = IF phase = "starting" THEN pending ELSE pending \cup {"WINCH"}
    /\ UNCHANGED <<loop, termAlt, ptySize, session, typed, child, outputs,
                   others>>

-----------------------------------------------------------------------------

Next ==
    \/ Listen
    \/ \E kind \in Keys : ReadKey(kind)
    \/ StdinEof
    \/ FlushDeadline
    \/ Write
    \/ WriteError
    \/ ReadPty
    \/ ReadPtyEof
    \/ HandleWinch
    \/ \E sig \in UserSignals : HandleTermination(sig)
    \/ Spawned
    \/ GiveUp
    \/ Reap
    \/ Tick
    \/ ChildReads
    \/ \E output \in Outputs : ChildWrites(output)
    \/ ChildExits
    \/ \E sig \in UserSignals : UserSignal(sig)
    \/ Resize

Spec == Init /\ [][Next]_vars

\* What the process does is not put off for ever: select! polls its ready
\* branches in random order, so a branch that stays ready, or is ready again
\* and again, is taken.  Time passes, and ssh reads what it is sent.  Nothing
\* makes the user type, ssh write, or ssh end.
Fairness ==
    /\ WF_vars(Listen)
    /\ SF_vars(FlushDeadline)
    /\ WF_vars(Write) /\ WF_vars(WriteError)
    /\ SF_vars(ReadPty) /\ SF_vars(ReadPtyEof)
    /\ SF_vars(HandleWinch)
    /\ \A sig \in UserSignals : SF_vars(HandleTermination(sig))
    /\ WF_vars(Spawned)
    /\ WF_vars(Reap)
    /\ WF_vars(Tick)
    /\ WF_vars(ChildReads)

FairSpec == Spec /\ Fairness

-----------------------------------------------------------------------------

\* Every variable keeps its type, and something is being written only while
\* the loop is suspended in a write.
TypeOK ==
    /\ reconnect \in BOOLEAN /\ phase \in Phases
    /\ buf \in [data : Seq(Byte), carry : Seq(Byte), deadline : Nat,
                interval : Nat, passthrough : BOOLEAN, binary : BOOLEAN,
                adaptive : BOOLEAN]
    /\ chunk \in Seq(Byte)
    /\ chunk # << >> => phase \in {"write", "failed"}
    /\ termAlt \in BOOLEAN /\ termSize \in Nat /\ ptySize \in Nat
    /\ pending \subseteq {"WINCH"} \cup UserSignals
    /\ session \in 1..MaxSessions /\ typed \in 0..MaxTyped
    /\ inq \in Seq(Byte) /\ got \in Seq(Byte) /\ outq \in Seq(Glyphs)
    /\ alive \in BOOLEAN
    /\ inputEnded \in BOOLEAN
    /\ outputs \in 0..MaxOutput /\ userActs \in 0..MaxUserActs

\* What ssh has read, what waits in the PTY and what is being written are the
\* first bytes typed in this session, all of them and nothing else: no byte
\* of an earlier session, none lost, repeated or overtaken, however the
\* writes were cut and whenever the session was replaced.
DeliveredInFull ==
    LET delivered == got \o inq \o (IF phase = "write" THEN chunk ELSE << >>)
    IN  \A i \in 1..Len(delivered) :
            delivered[i].session = session /\ delivered[i].nth = i

\* "Deliberately drops any input still buffered locally instead of replaying
\* it into the new session" (README.md): ssh reads no byte typed before it was
\* spawned.
NoReplay == \A i \in 1..Len(got) : got[i].session = session

\* "Does not buffer in raw mode" (docs/02-ssh-buffering.md): a key typed while
\* the terminal shows the alternate screen goes out at once, and takes the batch
\* that waited before it along.
RawNeverBuffered ==
    [][termAlt /\ typed' = typed + 1
          => /\ chunk' # << >> /\ chunk'[Len(chunk')].nth = typed'
             /\ buf'.data = << >>]_vars

\* The PTY has the window's size, or a SIGWINCH is on its way.
PtySizeFollows ==
    phase \in {"select", "write"} => ptySize = termSize \/ "WINCH" \in pending

\* A request to terminate is noticed: the loop is left, as long as ssh keeps
\* reading what it is sent.
TermLeavesLoop == "TERM" \in pending ~> phase \notin Running

\* "SIGTERM/SIGHUP -> clean shutdown" (TODO.md): the proxy ends.
TermEnds == "TERM" \in pending ~> phase \in {"done", "failed", "gave_up"}

\* Without reconnection, the proxy does not outlive its child.
ChildExitEnds == ~alive /\ ~reconnect ~> phase \in {"done", "failed", "killed"}

\* Every key reaches the ssh it was typed for, if that and the loop live on:
\* typed counts the keys of the present session.
KeysArrive ==
    \A n \in 1..MaxTyped :
        typed >= n
            ~> Len(got) >= n \/ typed < n \/ ~alive \/ phase \notin Running

\* "PTY read EOF/error triggers reconnect when persistence is enabled"
\* (TODO.md): with reconnection a lost session is followed by a new one, unless
\* somebody asks the proxy to terminate, the user's input ends, a batch is
\* flushed to the lost session and run() fails on it, or reconnect() times out.
LossIsReplaced ==
    reconnect /\ ~alive /\ phase \in {"select", "reconnect"}
        ~> \/ alive
           \/ "TERM" \in pending
           \/ inputEnded
           \/ phase \in {"write", "gave_up"}

=============================================================================
