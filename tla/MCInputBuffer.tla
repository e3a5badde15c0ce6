---------------------------- MODULE MCInputBuffer ----------------------------
(***************************************************************************)
(* Model checking of InputBuffer.  The configurations give the constants   *)
(* their values; this module adds what push() does with a carry, written   *)
(* down a second time from what the documentation of str::from_utf8 says   *)
(* of any byte string, and compares the two on every carry and byte.       *)
(***************************************************************************)
EXTENDS InputBuffer, SequencesExt

\* The bytes s[i..] begin with a whole character.
WholeCharAt(s, i) ==
    LET w == Width(s[i].kind)
    IN  /\ s[i].kind \notin {"cont", "bad"}
        /\ i + w - 1 <= Len(s)
        /\ \A j \in i+1..i+w-1 : s[j].kind = "cont"

\* Utf8Error::valid_up_to: how far s consists of whole characters.
ValidUpTo(s) ==
    LET scan[i \in 1..Len(s)+1] ==
            IF i <= Len(s) /\ WholeCharAt(s, i)
            THEN scan[i + Width(s[i].kind)] ELSE i - 1
    IN  scan[1]

\* Utf8Error::error_len is None: the input ends inside a character that more
\* bytes could complete.
Unfinished(s) == IsPartial(SubSeq(s, ValidUpTo(s) + 1, Len(s)))

\* push() in cooked mode, by the three outcomes of from_utf8.
CookedByTheBook(b, k) ==
    LET joined == Append(b.carry, k)
        v      == ValidUpTo(joined)
        valid  == SubSeq(joined, 1, v)
        rest   == SubSeq(joined, v + 1, Len(joined))
        after  == CASE v = Len(joined) ->
                         [data |-> b.data \o joined, carry |-> << >>]
                    [] v # Len(joined) /\ Unfinished(joined) ->
                         [data |-> b.data \o valid, carry |-> rest]
                    [] OTHER ->
                         [data |-> b.data \o valid \o rest, carry |-> << >>]
        arm    == b.data = << >> /\ b.carry = << >> /\ after.data # << >>
    IN  [b EXCEPT !.data = after.data, !.carry = after.carry,
                  !.deadline = IF arm THEN b.interval ELSE @]

SomeBytes == {[kind |-> kind] : kind \in Kinds}
SomeCarries == {<< >>} \cup {s \in BoundedSeq(SomeBytes, 3) : IsPartial(s)}
SomeData == {<< >>, <<[kind |-> "text"]>>}

\* PushCooked is what the three arms of the match in push() make of every
\* partial character and every next byte.
ASSUME PushCookedByTheBook ==
    \A carry \in SomeCarries, data \in SomeData, k \in SomeBytes :
        LET b == [NewBuffer(FALSE, FALSE) EXCEPT !.data = data, !.carry = carry]
        IN  PushCooked(b, k) = CookedByTheBook(b, k)

=============================================================================
