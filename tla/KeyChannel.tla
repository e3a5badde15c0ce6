------------------------------ MODULE KeyChannel ------------------------------
(***************************************************************************)
(* What a keystroke buffer promises, whatever its timers do: a FIFO channel *)
(* that hands over what was typed in batches, oldest byte first, and may    *)
(* forget the oldest bytes it holds when the session is replaced, but       *)
(* never invents, repeats or reorders a byte.                               *)
(***************************************************************************)
EXTENDS Integers, Sequences

CONSTANT Byte  \* the bytes that can be typed

VARIABLES
    pending,  \* typed and not yet handed over, oldest first
    sent      \* handed over so far

cvars == <<pending, sent>>

Init == pending = << >> /\ sent = << >>

\* Hand over the n oldest of the bytes p.
HandOver(p, n) ==
    /\ sent' = sent \o SubSeq(p, 1, n)
    /\ pending' = SubSeq(p, n + 1, Len(p))

\* A byte is typed, and may make some of the oldest bytes due.
Type(k) ==
    LET p == Append(pending, k)
    IN  \E n \in 0..Len(p) : HandOver(p, n)

Flush == \E n \in 1..Len(pending) : HandOver(pending, n)

\* The session is replaced: the oldest bytes are forgotten.
Forget == \E n \in 1..Len(pending) :
    /\ pending' = SubSeq(pending, n + 1, Len(pending))
    /\ UNCHANGED sent

Next == (\E k \in Byte : Type(k)) \/ Flush \/ Forget

Spec == Init /\ [][Next]_cvars

=============================================================================
