---------------------------- MODULE EchoPrediction ----------------------------
(***************************************************************************)
(* Local echo: the EchoPredictor (src/predict.rs), the Display that writes  *)
(* and takes back its guesses (src/display.rs), and the places of the event *)
(* loop that use them (src/proxy.rs).                                      *)
(*                                                                         *)
(* Text is a sequence of glyphs.  screen is what the user's terminal shows, *)
(* truth what it would show if nothing had ever been guessed.  The remote   *)
(* side is the environment: it may echo what it is sent, echo something     *)
(* else or nothing, and write whenever it likes.                            *)
(* An operator with an underscore in its name is wrong on purpose.          *)
(***************************************************************************)
EXTENDS Integers, Sequences, SequencesExt

CONSTANTS
    MissThreshold,  \* EchoPredictor::new's miss_threshold
    Batches,        \* what the buffer flushes: sequences of Keys
    Talk,           \* what the remote side writes: sequences of Glyphs
    MaxPending,     \* the user waits for the reply to this many batches
    StartRaw,       \* the choices of config.buffer.passthrough
    SplitChars,     \* a read of the PTY may end inside a character
    SplitSequences, \* a read may end inside a sequence of the alternate screen
    MaxTyped,       \* bound: batches flushed in a behaviour
    MaxTalk,        \* bound: unsolicited writes in a behaviour
    MaxReconnects   \* bound: reconnects in a behaviour

\* Printable keys, Enter, Backspace, Tab, and a key without an echo.
Keys == {"a", "b", "enter", "del", "tab", "ctrl"}

\* "bs" is the erase sequence \x08 \x08 and "nl" is \r\n, which no read cuts
\* here; "mb1" and "mb2" are the two bytes of one character, "bad" the
\* replacement character U+FFFD; the sequences that turn the alternate screen
\* on and off have two parts each.
Printable == {"a", "b", "x"}
Parts == {"on1", "on2", "off1", "off2"}
Glyphs == Printable \cup Parts \cup {"nl", "bs", "tab", "mb1", "mb2", "bad"}

ASSUME ThresholdAssumption == MissThreshold \in Nat
ASSUME TextAssumption ==
    /\ \A batch \in Batches : batch \in Seq(Keys)
    /\ \A text \in Talk : text \in Seq(Glyphs)
ASSUME BoundAssumption ==
    /\ MaxPending \in Nat \ {0}
    /\ StartRaw \subseteq BOOLEAN /\ {SplitChars, SplitSequences} \subseteq BOOLEAN
    /\ MaxTyped \in Nat /\ MaxTalk \in Nat /\ MaxReconnects \in Nat

VARIABLES
    pending,      \* EchoPredictor.pending: the guesses not yet reconciled
    missStreak,   \* EchoPredictor.miss_streak
    enabled,      \* EchoPredictor.enabled
    cols,         \* Display.predicted_cols
    passthrough,  \* the InputBuffer passes keys through
    forgotten,    \* guesses on the screen were dropped without reconciliation
    screen,       \* what the terminal shows
    truth,        \* what the output read so far would have made it show
    alt,          \* the terminal shows the alternate screen
    toServer,     \* batches the remote side has not answered
    outq,         \* output the proxy has not read
    typed,        \* batches flushed
    talked,       \* unsolicited writes
    reconnects    \* reconnects

predictor == <<pending, missStreak, enabled>>
counters  == <<typed, talked, reconnects>>
vars == <<pending, missStreak, enabled, cols, passthrough, forgotten, screen,
          truth, alt, toServer, outq, typed, talked, reconnects>>

-----------------------------------------------------------------------------
\* Text.

Echo_Control(key) == CASE key = "enter" -> <<"nl">>
                       [] key = "del"   -> <<"bs">>
                       [] OTHER         -> <<key>>

\* The echo that predict() expects of a key.
Echo(key) == CASE key = "enter" -> <<"nl">>
               [] key = "del"   -> <<"bs">>
               [] key = "ctrl"  -> << >>
               [] OTHER         -> <<key>>

Prediction(batch) == FlattenSeq([i \in 1..Len(batch) |-> Echo(batch[i])])

\* What a terminal that showed s shows after the text: the erase sequence
\* does not go back over the beginning of a line, a character shows when its
\* last byte has come, and a Tab moves by one column, the least it can.
Render(s, text) ==
    FoldLeft(LAMBDA shown, g :
                 CASE g = "bs" -> IF shown = << >> \/ Last(shown) = "nl"
                                  THEN shown ELSE Front(shown)
                   [] g \in {"mb1"} \cup Parts -> shown
                   [] OTHER -> Append(shown, g),
             s, text)

\* visible_cols: a new line starts again at 0, an erase takes back a column of
\* the same text if it has one.
VisibleCols(text) ==
    FoldLeft(LAMBDA n, g : CASE g = "nl" -> 0
                             [] g = "bs" -> IF n > 0 THEN n - 1 ELSE 0
                             [] g \in Printable -> n + 1
                             [] OTHER -> n,
             0, text)

\* String::from_utf8_lossy: half a character becomes U+FFFD.
Lossy(text) ==
    [i \in 1..Len(text) |->
        IF \/ text[i] = "mb1" /\ (i = Len(text) \/ text[i+1] # "mb2")
           \/ text[i] = "mb2" /\ (i = 1 \/ text[i-1] # "mb1")
        THEN "bad" ELSE text[i]]

Erase(n) == [i \in 1..n |-> "bs"]

-----------------------------------------------------------------------------

Init ==
    /\ pending = << >> /\ missStreak = 0 /\ enabled = TRUE
    /\ cols = 0
    /\ passthrough \in StartRaw /\ forgotten = FALSE
    /\ screen = << >> /\ truth = << >> /\ alt = FALSE
    /\ toServer = << >> /\ outq = << >>
    /\ typed = 0 /\ talked = 0 /\ reconnects = 0

\* A flush of the buffer: predict(), write_predicted() and the write to the
\* PTY master.  No guess is made in passthrough mode or while disabled.
Flush(batch) ==
    /\ typed < MaxTyped
    /\ Len(pending) < MaxPending
    /\ typed' = typed + 1
    /\ toServer' = Append(toServer, batch)
    /\ IF enabled /\ ~passthrough
       THEN /\ pending' = Append(pending, Prediction(batch))
            /\ cols' = cols + VisibleCols(Prediction(batch))
            /\ screen' = Render(screen, Prediction(batch))
       ELSE UNCHANGED <<pending, cols, screen>>
    /\ UNCHANGED <<missStreak, enabled, passthrough, forgotten, truth, alt, outq,
                   talked, reconnects>>

\* The bytes of one read contain the sequence with these two parts.
Has(read, part1, part2) ==
    \E i \in 1..Len(read) - 1 : read[i] = part1 /\ read[i+1] = part2
HasOn(read) == Has(read, "on1", "on2")
HasOff(read) == Has(read, "off1", "off2")

\* What check_output_for_raw_mode leaves of enabled and pending.
EnabledAfterModes(read) ==
    CASE HasOn(read) -> FALSE
      [] ~HasOn(read) /\ HasOff(read) -> TRUE
      [] OTHER -> enabled

PendingAfterModes(read) == IF HasOn(read) THEN << >> ELSE pending

PassthroughAfter_ExitFirst(read) ==
    CASE HasOff(read) -> FALSE
      [] ~HasOff(read) /\ HasOn(read) -> TRUE
      [] OTHER -> passthrough

\* The mode of the buffer after this output.
PassthroughAfter(read) ==
    CASE HasOn(read) -> TRUE
      [] ~HasOn(read) /\ HasOff(read) -> FALSE
      [] OTHER -> passthrough

\* The terminal shows the alternate screen if the last of the sequences that
\* reached it turned it on.  It keeps the parts of one together across writes;
\* a guess drawn between two parts is not taken to spoil them.
AltAfter(read) ==
    \/ alt /\ ~Contains(read, "off2")
    \/ \E i \in 1..Len(read) :
        /\ read[i] = "on2"
        /\ \A j \in i+1..Len(read) : read[j] # "off2"

\* ReconcileResult::Confirmed: the guess is on the screen already.
Confirm(read, guess) ==
    /\ Lossy(read) = guess
    /\ missStreak' = 0
    /\ enabled' = EnabledAfterModes(read)
    /\ cols' = 0
    /\ UNCHANGED screen

Mispredict_KeepsCols(read, guess) ==
    /\ Lossy(read) # guess
    /\ missStreak' = missStreak + 1
    /\ enabled' = (EnabledAfterModes(read) /\ missStreak' < MissThreshold)
    /\ screen' = Render(screen, Erase(cols) \o Lossy(read))
    /\ UNCHANGED cols

\* ReconcileResult::Mispredicted: correct() erases every outstanding column
\* and writes what came instead.
Mispredict(read, guess) ==
    /\ Lossy(read) # guess
    /\ missStreak' = missStreak + 1
    /\ enabled' = (EnabledAfterModes(read) /\ missStreak' < MissThreshold)
    /\ screen' = Render(screen, Erase(cols) \o Lossy(read))
    /\ cols' = 0

\* ReconcileResult::Passthrough: nothing was guessed.
Show(read) ==
    /\ enabled' = EnabledAfterModes(read)
    /\ screen' = Render(screen, read)
    /\ UNCHANGED <<missStreak, cols>>

\* A read of the PTY: the modes, then the oldest guess against what was read.
Reconcile ==
    \E n \in 1..Len(outq) :
        LET read == SubSeq(outq, 1, n)
            left == PendingAfterModes(read)
        IN  /\ SplitChars \/ read[n] # "mb1"
            /\ SplitSequences \/ read[n] \notin {"on1", "off1"}
            /\ outq' = SubSeq(outq, n + 1, Len(outq))
            /\ truth' = Render(truth, read)
            /\ alt' = AltAfter(read)
            /\ passthrough' = PassthroughAfter(read)
            /\ forgotten' = (forgotten \/ left # pending)
            /\ IF left = << >>
               THEN Show(read) /\ pending' = left
               ELSE /\ Confirm(read, Head(left)) \/ Mispredict(read, Head(left))
                    /\ pending' = Tail(left)
            /\ UNCHANGED <<toServer, counters>>

\* reconnect(): another session and another predictor, the same display.
Replace ==
    /\ reconnects < MaxReconnects
    /\ reconnects' = reconnects + 1
    /\ pending' = << >> /\ missStreak' = 0 /\ enabled' = TRUE
    /\ toServer' = << >> /\ outq' = << >>
    /\ forgotten' = (forgotten \/ pending # << >>)
    /\ UNCHANGED <<cols, passthrough, screen, truth, alt, typed, talked>>

\* The remote side answers the oldest batch.
Answer ==
    /\ toServer # << >>
    /\ toServer' = Tail(toServer)
    /\ \E text \in {Prediction(Head(toServer)), << >>, <<"x">>} :
            outq' = outq \o text
    /\ UNCHANGED <<predictor, cols, passthrough, forgotten, screen, truth, alt,
                   counters>>

\* The remote side writes of its own accord.
Write(text) ==
    /\ talked < MaxTalk
    /\ talked' = talked + 1
    /\ outq' = outq \o text
    /\ UNCHANGED <<predictor, cols, passthrough, forgotten, screen, truth, alt,
                   toServer, typed, reconnects>>

Next ==
    \/ \E batch \in Batches : Flush(batch)
    \/ Reconcile
    \/ Replace
    \/ Answer
    \/ \E text \in Talk : Write(text)

Spec == Init /\ [][Next]_vars

-----------------------------------------------------------------------------

\* Every variable keeps its type; guesses are only of what predict() knows.
TypeOK ==
    /\ pending \in Seq(Seq({"a", "b", "nl", "bs", "tab"}))
    /\ Len(pending) <= MaxPending
    /\ missStreak \in Nat /\ enabled \in BOOLEAN /\ cols \in Nat
    /\ passthrough \in BOOLEAN /\ forgotten \in BOOLEAN /\ alt \in BOOLEAN
    /\ screen \in Seq(Glyphs) /\ truth \in Seq(Glyphs)
    /\ toServer \in Seq(Batches) /\ outq \in Seq(Glyphs)
    /\ typed \in 0..MaxTyped /\ talked \in 0..MaxTalk
    /\ reconnects \in 0..MaxReconnects

\* The screen shows the output read so far and after it the guesses not yet
\* reconciled, and nothing else, as long as every guess was reconciled: a mode
\* switch or a reconnect drops guesses that stay on the screen.
ScreenIsTruth == forgotten \/ screen = Render(truth, FlattenSeq(pending))


\* "Tracks how many visible columns of predicted text are outstanding"
\* (display.rs): correct() never erases what the remote side wrote, with the
\* same exception as ScreenIsTruth.
ErasesOnlyGuesses ==
    forgotten \/ cols <= Len(Render(<< >>, FlattenSeq(pending)))

\* Programs that draw the screen themselves are not disturbed: while the
\* alternate screen shows, no guess is made and none is left to be taken back
\* (docs/07-pitfalls.md, "Predicting in Raw Mode").
RawUndisturbed == alt => pending = << >> /\ ~(enabled /\ ~passthrough)

=============================================================================
