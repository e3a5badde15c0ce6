--------------------------- MODULE SessionLogProofs ---------------------------
(***************************************************************************)
(* Theorems about SessionLog, for all bytes, any capacity of the writer,   *)
(* any number of events and any number of failed writes.                   *)
(***************************************************************************)
EXTENDS SessionLog, FoldLemmas

-----------------------------------------------------------------------------
\* The lines of a text, token by token.

\* What one more token makes of the lines so far.
CutBy(lines, token) ==
    IF token = Newline
    THEN Append(lines, << >>)
    ELSE [lines EXCEPT ![Len(lines)] = Append(@, token)]

\* The function Cut is defined by.
Cuts(text) ==
    CHOOSE f : f = [n \in 0..Len(text) |->
                      IF n = 0 THEN << << >> >> ELSE CutBy(f[n - 1], text[n])]

\* There is always a line, be it empty.
Cutting == {lines \in Seq(Seq(Tokens)) : lines # << >>}

LEMMA CutByType ==
    ASSUME NEW lines \in Cutting, NEW token \in Tokens
    PROVE  CutBy(lines, token) \in Cutting
<1> DEFINE S == Seq(Tokens)
           n == Len(lines)
<1>1. lines \in Seq(S) /\ n \in Nat /\ n # 0
  BY EmptySeq DEF Cutting
<1>2. n \in 1..n
  BY <1>1
<1>3. lines[n] \in S
  BY <1>1, <1>2, ElementOfSeq
<1>4. Append(lines[n], token) \in S
  BY <1>3
<1>5. [lines EXCEPT ![n] = Append(lines[n], token)] \in Seq(S)
      /\ Len([lines EXCEPT ![n] = Append(lines[n], token)]) = n
  <2> HIDE DEF S
  <2> QED
    BY <1>1, <1>2, <1>4, ExceptSeq
<1>6. [lines EXCEPT ![n] = Append(lines[n], token)] # << >>
  BY <1>1, <1>5
<1>7. Append(lines, << >>) \in Seq(S) /\ Append(lines, << >>) # << >>
  <2>1. << >> \in S
    OBVIOUS
  <2> HIDE DEF S
  <2> QED
    BY <1>1, <2>1, AppendProperties
<1> QED
  BY <1>5, <1>6, <1>7 DEF CutBy, Cutting

\* Cut goes over the tokens one after the other.
LEMMA CutUnfolds ==
    ASSUME NEW text \in Seq(Tokens)
    PROVE  /\ Cut(text) = Cuts(text)[Len(text)]
           /\ Cuts(text)[0] = << << >> >>
           /\ \A k \in 1..Len(text) : Cuts(text)[k] = CutBy(Cuts(text)[k - 1], text[k])
           /\ \A k \in 0..Len(text) : Cuts(text)[k] \in Cutting
<1> DEFINE n == Len(text)
           V == Cutting
           start == << << >> >>
           step == [i \in 1..n |-> [v \in V |-> CutBy(v, text[i])]]
           F == Cuts(text)
<1>1. n \in Nat /\ \A i \in 1..n : text[i] \in Tokens
  BY LenProperties, ElementOfSeq
<1>2. start \in V
  <2>1. << >> \in Seq(Tokens)
    OBVIOUS
  <2>2. << << >> >> \in Seq(Seq(Tokens)) /\ << << >> >> # << >>
    BY <2>1
  <2> QED
    BY <2>2 DEF Cutting
<1>3. step \in [1..n -> [V -> V]]
  BY <1>1, CutByType
<1>4. PICK f : IsRecursion(f, V, start, n, step)
  <2> HIDE DEF n, V, start, step
  <2> QED
    BY <1>1, <1>2, <1>3, PrefixExists
<1>5. f \in [0..n -> V] /\ f[0] = start /\ \A k \in 1..n : f[k] = step[k][f[k - 1]]
  BY <1>4 DEF IsRecursion
<1>6. \A k \in 1..n : f[k] = CutBy(f[k - 1], text[k])
  <2>1. \A k \in 1..n : k - 1 \in 0..n
    BY <1>1
  <2> HIDE DEF V
  <2> QED
    BY <1>5, <2>1
<1>7. f = [k \in 0..n |-> IF k = 0 THEN start ELSE CutBy(f[k - 1], text[k])]
  <2>1. \A k \in 0..n : f[k] = IF k = 0 THEN start ELSE CutBy(f[k - 1], text[k])
    <3>1. \A k \in 0..n : k # 0 => k \in 1..n
      BY <1>1
    <3> QED
      BY <1>5, <1>6, <3>1
  <2> HIDE DEF start, n, V
  <2> QED
    BY <1>5, <2>1
<1>8. F = [k \in 0..n |-> IF k = 0 THEN start ELSE CutBy(F[k - 1], text[k])]
  BY <1>7 DEF Cuts
<1>9. Cut(text) = F[n]
  BY DEF Cut, Cuts, CutBy
<1> HIDE DEF F, start, n
<1>10. F[0] = start
  <2>1. 0 \in 0..n
    BY <1>1
  <2> QED
    BY <1>8, <2>1
<1>11. \A k \in 1..n : F[k] = CutBy(F[k - 1], text[k])
  <2>1. \A k \in 1..n : k \in 0..n /\ k # 0
    BY <1>1
  <2> QED
    BY <1>8, <2>1
<1>12. \A k \in 0..n : F[k] \in V
  <2> DEFINE T == {k \in Nat : k <= n => F[k] \in V}
  <2>1. 0 \in T
    BY <1>2, <1>10
  <2>2. ASSUME NEW k \in Nat, k \in T PROVE k + 1 \in T
    <3> SUFFICES ASSUME k + 1 <= n PROVE F[k + 1] \in V
      OBVIOUS
    <3> DEFINE j == k + 1
    <3>1. j \in 1..n /\ j - 1 = k /\ k <= n
      BY <1>1
    <3>2. F[k] \in V
      BY <2>2, <3>1
    <3> HIDE DEF j
    <3>3. F[j] = CutBy(F[j - 1], text[j]) /\ text[j] \in Tokens
      BY <1>1, <1>11, <3>1
    <3>4. CutBy(F[k], text[j]) \in V
      BY <3>2, <3>3, CutByType
    <3> QED
      BY <3>1, <3>3, <3>4 DEF j
  <2> HIDE DEF T
  <2>3. \A k \in Nat : k \in T
    BY <2>1, <2>2, SetInduction
  <2> QED
    BY <1>1, <2>3 DEF T
<1> QED
  BY <1>9, <1>10, <1>11, <1>12 DEF F, start, n

\* The lines of a text are lines of tokens, the first perhaps empty.
LEMMA CutType ==
    ASSUME NEW text \in Seq(Tokens)
    PROVE  Cut(text) \in Cutting
<1>1. Len(text) \in 0..Len(text)
  BY LenProperties
<1> QED
  BY <1>1, CutUnfolds

LEMMA CutEmpty == Cut(<< >>) = << << >> >>
<1>1. << >> \in Seq(Tokens) /\ Len(<< >>) = 0
  OBVIOUS
<1> QED
  BY <1>1, CutUnfolds

\* One more token changes the last line, or ends it.
LEMMA CutAppend ==
    ASSUME NEW text \in Seq(Tokens), NEW token \in Tokens
    PROVE  Cut(Append(text, token)) = CutBy(Cut(text), token)
<1> DEFINE n == Len(text)
           more == Append(text, token)
           F == Cuts(text)
           G == Cuts(more)
           T == {k \in Nat : k <= n => G[k] = F[k]}
<1>1. n \in Nat
  BY LenProperties
<1>2. /\ more \in Seq(Tokens) /\ Len(more) = n + 1
      /\ \A i \in 1..n : more[i] = text[i]
      /\ more[n + 1] = token
  BY AppendProperties
<1>3. /\ Cut(text) = F[n] /\ F[0] = << << >> >>
      /\ \A k \in 1..n : F[k] = CutBy(F[k - 1], text[k])
  BY CutUnfolds
<1>4. /\ Cut(more) = G[n + 1] /\ G[0] = << << >> >>
      /\ \A k \in 1..n + 1 : G[k] = CutBy(G[k - 1], more[k])
  BY <1>2, CutUnfolds
<1> HIDE DEF n, more, F, G
<1>5. 0 \in T
  BY <1>3, <1>4
<1>6. ASSUME NEW k \in Nat, k \in T PROVE k + 1 \in T
  <2> DEFINE j == k + 1
  <2> SUFFICES ASSUME j <= n PROVE G[j] = F[j]
    OBVIOUS
  <2>1. k <= n /\ j \in 1..n /\ j \in 1..n + 1 /\ j - 1 = k
    BY <1>1
  <2>2. G[k] = F[k]
    BY <1>6, <2>1
  <2> HIDE DEF j
  <2>3. /\ F[j] = CutBy(F[j - 1], text[j]) /\ G[j] = CutBy(G[j - 1], more[j])
        /\ more[j] = text[j]
    BY <1>2, <1>3, <1>4, <2>1
  <2> QED
    BY <2>1, <2>2, <2>3
<1>7. n \in T
  <2> HIDE DEF T
  <2> QED
    BY <1>1, <1>5, <1>6, SetInduction
<1>8. G[n] = F[n]
  BY <1>1, <1>7
<1>9. G[n + 1] = CutBy(G[n], token)
  <2> DEFINE j == n + 1
  <2>1. j \in 1..n + 1 /\ j - 1 = n
    BY <1>1
  <2> HIDE DEF j
  <2>2. G[j] = CutBy(G[j - 1], more[j])
    BY <1>4, <2>1
  <2> QED
    BY <1>2, <2>1, <2>2 DEF j
<1> QED
  BY <1>3, <1>4, <1>8, <1>9 DEF more

-----------------------------------------------------------------------------
\* The events of a text, token by token.

\* What the parser makes of any line.
ParsedEvent == [direction : {"I", "O"}, elapsed : Nat, data : Seq(Nat)]

\* A line is one event or none, and an empty line none.
LEMMA ParseType ==
    ASSUME NEW line \in Seq(Tokens)
    PROVE  /\ ParseEventLine(line) \in Seq(ParsedEvent)
           /\ Len(line) < 4 => ParseEventLine(line) = << >>
<1> DEFINE n == Len(line)
           hex == SubSeq(line, 5, n)
           event == [direction |-> line[1].kind, elapsed |-> line[3].n,
                     data |-> HexDecode(hex)]
<1>1. n \in Nat /\ \A i \in 1..n : line[i] \in Tokens
  BY LenProperties, ElementOfSeq
<1>2. hex \in Seq(Tokens)
  <2>1. 5 \in Int /\ n \in Int /\ \A i \in 5..n : line[i] \in Tokens
    BY <1>1
  <2> HIDE DEF n
  <2> QED
    BY <2>1, SubSeqProperties
<1> HIDE DEF hex
<1>3. HexDecode(hex) \in Seq(Nat)
  <2> DEFINE m == Len(hex)
  <2>1. m \in Nat /\ \A i \in 1..m : hex[i] \in Tokens
    BY <1>2, LenProperties, ElementOfSeq
  <2>2. \A i \in 1..m : hex[i].n \in Nat
    BY <2>1 DEF Tokens
  <2> HIDE DEF m
  <2>3. \A i \in 1..m \div 2 : 2*i - 1 \in 1..m /\ 2*i \in 1..m
    BY <2>1
  <2>4. \A i \in 1..m \div 2 : 16 * hex[2*i - 1].n + hex[2*i].n \in Nat
    BY <2>2, <2>3
  <2>5. m \div 2 \in Nat
    BY <2>1
  <2>6. [i \in 1..m \div 2 |-> 16 * hex[2*i - 1].n + hex[2*i].n] \in Seq(Nat)
    BY <2>4, <2>5
  <2> QED
    BY <2>6 DEF HexDecode, m
<1>4. ASSUME n >= 4, line[1].kind \in {"I", "O"}
      PROVE  event \in ParsedEvent
  <2>1. line[3].n \in Nat
    BY <1>1, <1>4 DEF Tokens
  <2> QED
    BY <1>3, <1>4, <2>1 DEF ParsedEvent
<1>5. \/ ParseEventLine(line) = << >>
      \/ /\ ParseEventLine(line) = << event >>
         /\ n >= 4 /\ line[1].kind \in {"I", "O"}
  BY <1>1 DEF ParseEventLine, hex
<1> HIDE DEF event
<1>6. CASE ParseEventLine(line) = << >>
  <2>1. << >> \in Seq(ParsedEvent)
    OBVIOUS
  <2> QED
    BY <1>6, <2>1
<1>7. CASE /\ ParseEventLine(line) = << event >>
           /\ n >= 4 /\ line[1].kind \in {"I", "O"}
  <2>1. << event >> \in Seq(ParsedEvent)
    BY <1>4, <1>7
  <2>2. ~(n < 4)
    BY <1>1, <1>7
  <2> QED
    BY <1>7, <2>1, <2>2
<1> QED
  BY <1>5, <1>6, <1>7

\* The events of the lines 2 to m + 1.
Parsed(lines, m) == [k \in 1..m |-> ParseEventLine(lines[k + 1])]

LEMMA ParsedGrows ==
    ASSUME NEW lines \in Seq(Seq(Tokens)), NEW m \in Nat, m + 1 <= Len(lines)
    PROVE  /\ Parsed(lines, m) \in Seq(Seq(ParsedEvent))
           /\ m >= 1 => Parsed(lines, m) = Append(Parsed(lines, m - 1),
                                                   ParseEventLine(lines[m + 1]))
<1> DEFINE S == Seq(Tokens)
           Q == Seq(ParsedEvent)
           p(k) == ParseEventLine(lines[k + 1])
<1>1. Len(lines) \in Nat /\ \A i \in 1..Len(lines) : lines[i] \in S
  BY LenProperties, ElementOfSeq
<1>2. \A k \in 1..m : p(k) \in Q
  <2>1. \A k \in 1..m : k + 1 \in 1..Len(lines)
    BY <1>1
  <2>2. \A line \in S : ParseEventLine(line) \in Q
    BY ParseType
  <2> QED
    BY <1>1, <2>1, <2>2
<1> HIDE DEF p, Q
<1>3. [k \in 1..m |-> p(k)] \in Seq(Q)
  BY <1>2
<1>4. ASSUME m >= 1
      PROVE  [k \in 1..m |-> p(k)] = Append([k \in 1..m - 1 |-> p(k)], p(m))
  <2> DEFINE a == [k \in 1..m - 1 |-> p(k)]
             b == [k \in 1..m |-> p(k)]
  <2>1. /\ a \in Seq(Q) /\ Len(a) = m - 1 /\ m - 1 \in Nat /\ m - 1 + 1 = m
        /\ m \in 1..m /\ p(m) \in Q
    BY <1>2, <1>4
  <2>2. b \in Seq(Q) /\ Len(b) = m
    BY <1>2
  <2>3. /\ Append(a, p(m)) \in Seq(Q) /\ Len(Append(a, p(m))) = m
        /\ \A i \in 1..m - 1 : Append(a, p(m))[i] = a[i]
        /\ Append(a, p(m))[m] = p(m)
    <3> HIDE DEF a
    <3> QED
      BY <2>1, AppendProperties
  <2>4. \A i \in 1..m : b[i] = Append(a, p(m))[i]
    <3>1. \A i \in 1..m : i \in 1..m - 1 \/ i = m
      BY <2>1
    <3> QED
      BY <2>3, <3>1
  <2> HIDE DEF a, b
  <2>5. b = Append(a, p(m))
    BY <2>2, <2>3, <2>4, SeqEqual
  <2> QED
    BY <2>5 DEF a, b
<1> QED
  BY <1>3, <1>4 DEF Parsed, p, Q

\* The line that is not the first has been begun.
Ended(text) == Len(Cut(text)) > 1

\* The events of the lines that have ended, and the line that has not.
Done(text) == FlattenSeq(Parsed(Cut(text), Len(Cut(text)) - 2))
Rest(text) == Last(Cut(text))

\* What is known of the lines of a text whose header has ended.
LEMMA EndedType ==
    ASSUME NEW text \in Seq(Tokens), Ended(text)
    PROVE  /\ Cut(text) \in Seq(Seq(Tokens))
           /\ Len(Cut(text)) \in Nat /\ Len(Cut(text)) >= 2
           /\ Rest(text) = Cut(text)[Len(Cut(text))]
           /\ Rest(text) \in Seq(Tokens)
           /\ Parsed(Cut(text), Len(Cut(text)) - 2) \in Seq(Seq(ParsedEvent))
           /\ Done(text) \in Seq(ParsedEvent)
<1> DEFINE c == Cut(text)
           n == Len(c)
<1>1. c \in Seq(Seq(Tokens)) /\ n \in Nat /\ n >= 2
  BY CutType DEF Cutting, Ended
<1> HIDE DEF c
<1>2. Rest(text) = c[n] /\ c[n] \in Seq(Tokens)
  <2>1. n \in 1..n
    BY <1>1
  <2> QED
    BY <1>1, <2>1, ElementOfSeq DEF Rest, Last, c
<1>3. Parsed(c, n - 2) \in Seq(Seq(ParsedEvent))
  <2>1. n - 2 \in Nat /\ n - 2 + 1 <= n
    BY <1>1
  <2> QED
    BY <1>1, <2>1, ParsedGrows
<1>4. Done(text) \in Seq(ParsedEvent)
  BY <1>3, FlattenType DEF Done, c
<1> QED
  BY <1>1, <1>2, <1>3, <1>4 DEF c

\* One more token of a line, and the end of a line.
LEMMA ReadOn ==
    ASSUME NEW text \in Seq(Tokens), Ended(text), NEW token \in Tokens
    PROVE  /\ Ended(Append(text, token))
           /\ token # Newline => /\ Done(Append(text, token)) = Done(text)
                                 /\ Rest(Append(text, token)) = Append(Rest(text), token)
           /\ token = Newline => /\ Done(Append(text, token)) =
                                      Done(text) \o ParseEventLine(Rest(text))
                                 /\ Rest(Append(text, token)) = << >>
<1> DEFINE S == Seq(Tokens)
           c == Cut(text)
           n == Len(c)
           d == Cut(Append(text, token))
<1>1. /\ c \in Seq(S) /\ n \in Nat /\ n >= 2 /\ Rest(text) = c[n] /\ c[n] \in S
      /\ Parsed(c, n - 2) \in Seq(Seq(ParsedEvent))
  BY EndedType
<1>2. d = CutBy(c, token)
  BY CutAppend
<1>3. Done(text) = FlattenSeq(Parsed(c, n - 2))
  BY DEF Done
<1> HIDE DEF c
<1>4. ASSUME token # Newline
      PROVE  /\ Ended(Append(text, token))
             /\ Done(Append(text, token)) = Done(text)
             /\ Rest(Append(text, token)) = Append(Rest(text), token)
  <2>1. Append(c[n], token) \in S /\ n \in 1..n
    BY <1>1
  <2>2. d = [c EXCEPT ![n] = Append(c[n], token)]
    BY <1>2, <1>4 DEF CutBy
  <2>3. /\ Len(d) = n
        /\ \A j \in 1..n : d[j] = IF j = n THEN Append(c[n], token) ELSE c[j]
    <3> HIDE DEF S, d
    <3> QED
      BY <1>1, <2>1, <2>2, ExceptSeq
  <2>4. Parsed(d, n - 2) = Parsed(c, n - 2)
    <3>1. \A k \in 1..n - 2 : k + 1 \in 1..n /\ k + 1 # n
      BY <1>1
    <3>2. \A k \in 1..n - 2 : d[k + 1] = c[k + 1]
      BY <2>3, <3>1
    <3> HIDE DEF d, n
    <3> QED
      BY <3>2 DEF Parsed
  <2> HIDE DEF d
  <2>5. Ended(Append(text, token))
    BY <1>1, <2>3 DEF Ended, d
  <2>6. Done(Append(text, token)) = Done(text)
    BY <1>3, <2>3, <2>4 DEF Done, d
  <2>7. Rest(Append(text, token)) = d[n]
    BY <2>3 DEF Rest, Last, d
  <2> QED
    BY <1>1, <2>1, <2>3, <2>5, <2>6, <2>7
<1>5. ASSUME token = Newline
      PROVE  /\ Ended(Append(text, token))
             /\ Done(Append(text, token)) = Done(text) \o ParseEventLine(Rest(text))
             /\ Rest(Append(text, token)) = << >>
  <2>1. << >> \in S
    OBVIOUS
  <2>2. d = Append(c, << >>)
    BY <1>2, <1>5 DEF CutBy
  <2>3. /\ d \in Seq(S) /\ Len(d) = n + 1 /\ d[n + 1] = << >>
        /\ \A j \in 1..n : d[j] = c[j]
    <3> HIDE DEF S, d
    <3> QED
      BY <1>1, <2>1, <2>2, AppendProperties
  <2> HIDE DEF d
  <2>4. Parsed(d, n - 2) = Parsed(c, n - 2)
    <3>1. \A k \in 1..n - 2 : k + 1 \in 1..n
      BY <1>1
    <3>2. \A k \in 1..n - 2 : d[k + 1] = c[k + 1]
      BY <2>3, <3>1
    <3> HIDE DEF n
    <3> QED
      BY <3>2 DEF Parsed
  <2>5. Parsed(d, n - 1) = Append(Parsed(d, n - 2), ParseEventLine(d[n]))
    <3> DEFINE m == n - 1
    <3>1. m \in Nat /\ m + 1 <= Len(d) /\ m >= 1 /\ m - 1 = n - 2 /\ m + 1 = n
      <4> HIDE DEF n
      <4> QED
        BY <1>1, <2>3
    <3> HIDE DEF m
    <3>2. Parsed(d, m) = Append(Parsed(d, m - 1), ParseEventLine(d[m + 1]))
      BY <2>3, <3>1, ParsedGrows
    <3> QED
      BY <3>1, <3>2 DEF m
  <2>6. d[n] = Rest(text)
    <3>1. n \in 1..n
      BY <1>1
    <3> QED
      BY <1>1, <2>3, <3>1
  <2>7. ParseEventLine(Rest(text)) \in Seq(ParsedEvent)
    BY <1>1, ParseType
  <2>8. FlattenSeq(Parsed(d, n - 1)) = Done(text) \o ParseEventLine(Rest(text))
    BY <1>1, <1>3, <2>4, <2>5, <2>6, <2>7, FlattenAppend
  <2>9. Len(d) > 1 /\ Len(d) - 2 = n - 1
    BY <1>1, <2>3
  <2>10. Done(Append(text, token)) = FlattenSeq(Parsed(d, n - 1))
    BY <2>9 DEF Done, d
  <2>11. Rest(Append(text, token)) = << >>
    BY <2>3 DEF Rest, Last, d
  <2>12. Ended(Append(text, token))
    BY <2>9 DEF Ended, d
  <2> QED
    BY <2>8, <2>10, <2>11, <2>12
<1> QED
  BY <1>4, <1>5

\* The reader takes what follows the last end of line for a line, too.
LEMMA ParseReads ==
    ASSUME NEW text \in Seq(Tokens), Ended(text)
    PROVE  ParseSession(text) = Done(text) \o ParseEventLine(Rest(text))
<1> DEFINE S == Seq(Tokens)
           c == Cut(text)
           n == Len(c)
           l == Lines(text)
<1>1. /\ c \in Seq(S) /\ n \in Nat /\ n >= 2 /\ Rest(text) = c[n] /\ c[n] \in S
      /\ Parsed(c, n - 2) \in Seq(Seq(ParsedEvent)) /\ Last(c) = c[n]
      /\ Done(text) \in Seq(ParsedEvent)
  BY EndedType DEF Last
<1>2. Done(text) = FlattenSeq(Parsed(c, n - 2))
  BY DEF Done
<1>3. l = IF Last(c) = << >> THEN Front(c) ELSE c
  BY DEF Lines
<1>4. ParseSession(text) = FlattenSeq(Parsed(l, Len(l) - 1))
  BY DEF ParseSession, Parsed
<1> HIDE DEF c, l
<1>5. CASE c[n] = << >>
  <2>1. l = SubSeq(c, 1, n - 1)
    BY <1>1, <1>3, <1>5 DEF Front
  <2>2. Len(l) = n - 1 /\ \A i \in 1..n - 1 : l[i] = c[i]
    <3> DEFINE m == n - 1
    <3>1. m \in Int /\ 1 \in Int /\ 1 <= m /\ m - 1 + 1 = m
          /\ \A i \in 1..m : i \in 1..n /\ 1 + i - 1 = i
      BY <1>1
    <3>2. \A i \in 1..m : c[i] \in S
      BY <1>1, <3>1, ElementOfSeq
    <3> HIDE DEF m, S
    <3>3. /\ Len(SubSeq(c, 1, m)) = IF 1 <= m THEN m - 1 + 1 ELSE 0
          /\ \A i \in 1..m - 1 + 1 : SubSeq(c, 1, m)[i] = c[1 + i - 1]
      BY <3>1, <3>2, SubSeqProperties
    <3>4. Len(SubSeq(c, 1, m)) = m /\ \A i \in 1..m : SubSeq(c, 1, m)[i] = c[i]
      BY <3>1, <3>3
    <3> QED
      BY <2>1, <3>4 DEF m
  <2>3. Parsed(l, n - 2) = Parsed(c, n - 2)
    <3>1. \A k \in 1..n - 2 : k + 1 \in 1..n - 1
      BY <1>1
    <3>2. \A k \in 1..n - 2 : l[k + 1] = c[k + 1]
      BY <2>2, <3>1
    <3> HIDE DEF n
    <3> QED
      BY <3>2 DEF Parsed
  <2>4. Len(l) - 1 = n - 2
    BY <1>1, <2>2
  <2>5. ParseEventLine(Rest(text)) = << >>
    <3>1. << >> \in S /\ Len(<< >>) < 4
      OBVIOUS
    <3> QED
      BY <1>1, <1>5, <3>1, ParseType
  <2>6. Done(text) \o << >> = Done(text)
    BY <1>1, ConcatEmptySeq
  <2> QED
    BY <1>2, <1>4, <2>3, <2>4, <2>5, <2>6
<1>6. CASE c[n] # << >>
  <2>1. l = c
    BY <1>1, <1>3, <1>6
  <2>2. Parsed(c, n - 1) = Append(Parsed(c, n - 2), ParseEventLine(c[n]))
    <3> DEFINE m == n - 1
    <3>1. m \in Nat /\ m + 1 <= Len(c) /\ m >= 1 /\ m - 1 = n - 2 /\ m + 1 = n
      BY <1>1
    <3> HIDE DEF m
    <3>2. Parsed(c, m) = Append(Parsed(c, m - 1), ParseEventLine(c[m + 1]))
      BY <1>1, <3>1, ParsedGrows
    <3> QED
      BY <3>1, <3>2 DEF m
  <2>3. ParseEventLine(c[n]) \in Seq(ParsedEvent)
    BY <1>1, ParseType
  <2>4. FlattenSeq(Parsed(c, n - 1)) = Done(text) \o ParseEventLine(c[n])
    BY <1>1, <1>2, <2>2, <2>3, FlattenAppend
  <2> QED
    BY <1>1, <1>4, <2>1, <2>4
<1> QED
  BY <1>5, <1>6

-----------------------------------------------------------------------------
\* The line of an event.

LineText(event) == FlattenSeq(Line(event))

\* A byte is two digits.
LEMMA HexType ==
    ASSUME NEW data \in Seq(Bytes)
    PROVE  /\ HexEncode(data) \in Seq(Tokens)
           /\ Len(HexEncode(data)) = 2 * Len(data)
           /\ \A i \in 1..Len(data) :
                /\ HexEncode(data)[2*i - 1] = Digit(data[i] \div 16)
                /\ HexEncode(data)[2*i] = Digit(data[i] % 16)
           /\ \A i \in 1..2 * Len(data) : HexEncode(data)[i].kind = "digit"
<1> DEFINE n == Len(data)
           nibble(i) == IF i % 2 = 1 THEN data[(i + 1) \div 2] \div 16
                                     ELSE data[(i + 1) \div 2] % 16
           hex == [i \in 1..2 * n |-> Digit(nibble(i))]
<1>1. n \in Nat /\ \A i \in 1..n : data[i] \in 0..255
  BY BytesAssumption, LenProperties, ElementOfSeq
<1> HIDE DEF n
<1>2. \A i \in 1..2 * n : (i + 1) \div 2 \in 1..n
  BY <1>1
<1>3. \A b \in 0..255 : b \div 16 \in Nat /\ b % 16 \in Nat
  OBVIOUS
<1>4. \A i \in 1..2 * n : nibble(i) \in Nat
  BY <1>1, <1>2, <1>3
<1>5. \A i \in 1..n : /\ 2*i - 1 \in 1..2 * n /\ (2*i - 1) % 2 = 1 /\ (2*i - 1 + 1) \div 2 = i
                      /\ 2*i \in 1..2 * n /\ (2*i) % 2 = 0 /\ (2*i + 1) \div 2 = i
  BY <1>1
<1>6. \A i \in 1..n : nibble(2*i - 1) = data[i] \div 16 /\ nibble(2*i) = data[i] % 16
  BY <1>5
<1>7. HexEncode(data) = hex
  BY DEF HexEncode, n
<1> HIDE DEF nibble
<1>8. \A i \in 1..2 * n : Digit(nibble(i)) \in Tokens /\ Digit(nibble(i)).kind = "digit"
  BY <1>4 DEF Digit, Token, Tokens, Kinds
<1>9. 2 * n \in Nat
  BY <1>1
<1>10. hex \in Seq(Tokens) /\ Len(hex) = 2 * n
  BY <1>8, <1>9
<1>11. \A i \in 1..n : hex[2*i - 1] = Digit(data[i] \div 16) /\ hex[2*i] = Digit(data[i] % 16)
  <2>1. \A i \in 1..n : hex[2*i - 1] = Digit(nibble(2*i - 1)) /\ hex[2*i] = Digit(nibble(2*i))
    BY <1>5
  <2> QED
    BY <1>6, <2>1
<1>12. \A i \in 1..2 * n : hex[i].kind = "digit"
  BY <1>8
<1> HIDE DEF hex
<1> QED
  BY <1>7, <1>10, <1>11, <1>12 DEF n

\* The pieces of a line are sequences of tokens.
LEMMA LineType ==
    ASSUME NEW event \in Event
    PROVE  Line(event) \in Seq(Seq(Tokens))
<1> DEFINE p == <<Letter(event.direction), Space>>
           q == <<Number(event.elapsed)>>
           r == <<Space>>
           h == HexEncode(event.data)
           z == <<Newline>>
<1>1. event.direction \in {"I", "O"} /\ event.elapsed \in Nat /\ event.data \in Seq(Bytes)
  BY DEF Event
<1>2. /\ Letter(event.direction) \in Tokens /\ Number(event.elapsed) \in Tokens
      /\ Space \in Tokens /\ Newline \in Tokens
  BY <1>1 DEF Letter, Number, Space, Newline, Token, Tokens, Kinds
<1>3. p \in Seq(Tokens) /\ q \in Seq(Tokens) /\ r \in Seq(Tokens) /\ z \in Seq(Tokens)
  BY <1>2
<1>4. h \in Seq(Tokens)
  BY <1>1, HexType
<1>5. Line(event) = <<p, q, r, h, z>>
  BY DEF Line
<1> HIDE DEF p, q, r, h, z
<1> QED
  BY <1>3, <1>4, <1>5

\* A line is a letter, a space, a number, a space, digits and an end of line.
LEMMA LineShape ==
    ASSUME NEW event \in Event
    PROVE  /\ LineText(event) \in Seq(Tokens)
           /\ Len(LineText(event)) = 2 * Len(event.data) + 5
           /\ LineText(event)[1] = Letter(event.direction)
           /\ LineText(event)[2] = Space
           /\ LineText(event)[3] = Number(event.elapsed)
           /\ LineText(event)[4] = Space
           /\ \A i \in 1..2 * Len(event.data) :
                LineText(event)[i + 4] = HexEncode(event.data)[i]
           /\ LineText(event)[2 * Len(event.data) + 5] = Newline
<1> DEFINE p == <<Letter(event.direction), Space>>
           q == <<Number(event.elapsed)>>
           r == <<Space>>
           h == HexEncode(event.data)
           z == <<Newline>>
           pieces_ == Line(event)
           F == Flatten(pieces_)
           a == (p \o q) \o r
           n == 2 * Len(event.data)
<1>1. event.direction \in {"I", "O"} /\ event.elapsed \in Nat /\ event.data \in Seq(Bytes)
  BY DEF Event
<1>2. h \in Seq(Tokens) /\ Len(h) = n /\ n \in Nat
  <2>1. Len(event.data) \in Nat
    BY <1>1, LenProperties
  <2> QED
    BY <1>1, <2>1, HexType
<1>3. /\ Letter(event.direction) \in Tokens /\ Number(event.elapsed) \in Tokens
      /\ Space \in Tokens /\ Newline \in Tokens
  BY <1>1 DEF Letter, Number, Space, Newline, Token, Tokens, Kinds
<1>5. z \in Seq(Tokens) /\ Len(z) = 1 /\ z[1] = Newline
  BY <1>3
<1>4. /\ p \in Seq(Tokens) /\ Len(p) = 2
      /\ p[1] = Letter(event.direction) /\ p[2] = Space
      /\ q \in Seq(Tokens) /\ Len(q) = 1 /\ q[1] = Number(event.elapsed)
      /\ r \in Seq(Tokens) /\ Len(r) = 1 /\ r[1] = Space
  BY <1>3
<1>6. /\ a \in Seq(Tokens) /\ Len(a) = 4
      /\ a[1] = Letter(event.direction) /\ a[2] = Space
      /\ a[3] = Number(event.elapsed) /\ a[4] = Space
  <2> HIDE DEF p, q, r
  <2> DEFINE c == p \o q
  <2>1. /\ c \in Seq(Tokens) /\ Len(c) = Len(p) + Len(q)
        /\ \A i \in 1..Len(p) + Len(q) : c[i] = IF i <= Len(p) THEN p[i] ELSE q[i - Len(p)]
    BY <1>4, ConcatProperties
  <2>2. Len(c) = 3 /\ c[1] = p[1] /\ c[2] = p[2] /\ c[3] = q[1]
    BY <1>4, <2>1
  <2> HIDE DEF c
  <2>3. /\ c \o r \in Seq(Tokens) /\ Len(c \o r) = Len(c) + Len(r)
        /\ \A i \in 1..Len(c) + Len(r) :
              (c \o r)[i] = IF i <= Len(c) THEN c[i] ELSE r[i - Len(c)]
    <3>1. c \in Seq(Tokens) /\ r \in Seq(Tokens)
      BY <1>4, <2>1
    <3> QED
      BY <3>1, ConcatProperties
  <2> DEFINE d == c \o r
  <2> HIDE DEF d
  <2>4. Len(d) = 4 /\ d[1] = c[1] /\ d[2] = c[2] /\ d[3] = c[3] /\ d[4] = r[1]
    BY <1>4, <2>2, <2>3 DEF d
  <2> QED
    BY <1>4, <2>2, <2>3, <2>4 DEF c, d
<1>7. LineText(event) = (a \o h) \o z
  <2>1. pieces_ = <<p, q, r, h, z>>
    BY DEF Line
  <2>2. /\ pieces_ # << >> /\ Len(pieces_) = 5 /\ pieces_[1] = p /\ pieces_[2] = q
        /\ pieces_[3] = r /\ pieces_[4] = h /\ pieces_[5] = z
    <3> HIDE DEF p, q, r, h, z
    <3> QED
      BY <2>1
  <2> HIDE DEF pieces_, F, p, q, r, h, z
  <2>3. pieces_ \in Seq(Seq(Tokens))
    BY LineType DEF pieces_
  <2>4. /\ FlattenSeq(pieces_) = F[5] /\ F[1] = pieces_[1]
        /\ \A i \in 2..5 : F[i] = F[i - 1] \o pieces_[i]
    BY <2>2, <2>3, FlattenUnfolds DEF F
  <2>5. F[2] = F[1] \o q /\ F[3] = F[2] \o r /\ F[4] = F[3] \o h /\ F[5] = F[4] \o z
    <3>1. /\ 2 \in 2..5 /\ 3 \in 2..5 /\ 4 \in 2..5 /\ 5 \in 2..5
          /\ 2 - 1 = 1 /\ 3 - 1 = 2 /\ 4 - 1 = 3 /\ 5 - 1 = 4
      OBVIOUS
    <3> QED
      BY <2>2, <2>4, <3>1
  <2> QED
    BY <2>2, <2>4, <2>5 DEF LineText, pieces_
<1> HIDE DEF a, h, z, n
<1> DEFINE b == a \o h
<1>8. /\ b \in Seq(Tokens) /\ Len(b) = n + 4
      /\ \A i \in 1..n + 4 : b[i] = IF i <= 4 THEN a[i] ELSE h[i - 4]
  <2>1. /\ b \in Seq(Tokens) /\ Len(b) = Len(a) + Len(h)
        /\ \A i \in 1..Len(a) + Len(h) : b[i] = IF i <= Len(a) THEN a[i] ELSE h[i - Len(a)]
    <3>1. a \in Seq(Tokens) /\ h \in Seq(Tokens)
      BY <1>2, <1>6
    <3> QED
      BY <3>1, ConcatProperties
  <2>2. Len(a) = 4 /\ Len(h) = n /\ 4 + n = n + 4
    BY <1>2, <1>6
  <2> HIDE DEF b
  <2> QED
    BY <2>1, <2>2
<1> HIDE DEF b
<1> DEFINE t == b \o z
<1>9. /\ t \in Seq(Tokens) /\ Len(t) = (n + 4) + 1
      /\ \A i \in 1..(n + 4) + 1 : t[i] = IF i <= n + 4 THEN b[i] ELSE z[i - (n + 4)]
  <2>1. /\ t \in Seq(Tokens) /\ Len(t) = Len(b) + Len(z)
        /\ \A i \in 1..Len(b) + Len(z) : t[i] = IF i <= Len(b) THEN b[i] ELSE z[i - Len(b)]
    <3>1. b \in Seq(Tokens) /\ z \in Seq(Tokens)
      BY <1>5, <1>8
    <3> QED
      BY <3>1, ConcatProperties
  <2>2. Len(b) = n + 4 /\ Len(z) = 1
    BY <1>5, <1>8
  <2> HIDE DEF t
  <2> QED
    BY <2>1, <2>2
<1> HIDE DEF t
<1>10. Len(t) = n + 5
  BY <1>2, <1>9
<1>11. t[1] = a[1] /\ t[2] = a[2] /\ t[3] = a[3] /\ t[4] = a[4]
  BY <1>2, <1>8, <1>9
<1>12. \A i \in 1..n : t[i + 4] = h[i]
  BY <1>2, <1>8, <1>9
<1>13. t[n + 5] = Newline
  <2>2. t[n + 5] = z[1]
    <3> DEFINE k == n + 5
    <3>1. k \in 1..(n + 4) + 1 /\ ~(k <= n + 4) /\ k - (n + 4) = 1
      BY <1>2
    <3> HIDE DEF k
    <3>2. t[k] = z[k - (n + 4)]
      BY <1>9, <3>1
    <3> QED
      BY <3>1, <3>2 DEF k
  <2> QED
    BY <1>5, <2>2
<1>14. LineText(event) = t
  BY <1>7 DEF t, b
<1> QED
  BY <1>6, <1>9, <1>10, <1>11, <1>12, <1>13, <1>14 DEF h, n

\* Only the last token of a line is an end of line, and only the first a letter.
LEMMA LineTokens ==
    ASSUME NEW event \in Event, NEW k \in 1..Len(LineText(event))
    PROVE  /\ LineText(event)[k] \in Tokens
           /\ k < Len(LineText(event)) <=> LineText(event)[k] # Newline
           /\ k = 1 <=> LineText(event)[k].kind \in {"I", "O"}
           /\ k > 4 /\ k < Len(LineText(event)) => LineText(event)[k].kind = "digit"
<1> DEFINE t == LineText(event)
           h == HexEncode(event.data)
           n == Len(event.data)
<1>1. event.direction \in {"I", "O"} /\ event.elapsed \in Nat /\ event.data \in Seq(Bytes)
  BY DEF Event
<1>2. n \in Nat /\ \A i \in 1..2 * n : h[i].kind = "digit"
  BY <1>1, LenProperties, HexType
<1>3. t \in Seq(Tokens) /\ Len(t) = 2 * n + 5
      /\ t[1] = Letter(event.direction) /\ t[2] = Space
      /\ t[3] = Number(event.elapsed) /\ t[4] = Space
      /\ (\A i \in 1..2 * n : t[i + 4] = h[i]) /\ t[2 * n + 5] = Newline
  BY LineShape
<1>4. t[k] \in Tokens
  BY <1>3, ElementOfSeq
<1> HIDE DEF t, h, n
<1>5. /\ t[1].kind \in {"I", "O"} /\ t[2].kind = "space" /\ t[3].kind = "number"
      /\ t[4].kind = "space" /\ t[2 * n + 5].kind = "newline" /\ Newline.kind = "newline"
  BY <1>1, <1>3 DEF Letter, Space, Number, Newline, Token
<1>6. ASSUME k > 4, k < 2 * n + 5 PROVE t[k].kind = "digit"
  <2>1. k - 4 \in 1..2 * n /\ k - 4 + 4 = k
    BY <1>2, <1>3, <1>6
  <2> QED
    BY <1>2, <1>3, <2>1
<1>7. k = 1 \/ k = 2 \/ k = 3 \/ k = 4 \/ (k > 4 /\ k < 2 * n + 5) \/ k = 2 * n + 5
  BY <1>2, <1>3 DEF t
<1>8. k < 2 * n + 5 <=> t[k] # Newline
  <2>1. 1 < 2 * n + 5 /\ 2 < 2 * n + 5 /\ 3 < 2 * n + 5 /\ 4 < 2 * n + 5
    BY <1>2
  <2> QED
    BY <1>2, <1>3, <1>5, <1>6, <1>7, <2>1
<1>9. k = 1 <=> t[k].kind \in {"I", "O"}
  <2>1. 2 * n + 5 # 1
    BY <1>2
  <2> QED
    BY <1>2, <1>3, <1>5, <1>6, <1>7, <2>1
<1>10. k > 4 /\ k < Len(t) => t[k].kind = "digit"
  BY <1>3, <1>6
<1>11. k < Len(t) <=> t[k] # Newline
  BY <1>3, <1>8
<1> QED
  BY <1>4, <1>9, <1>10, <1>11 DEF t

\* A line with a letter inside is no event.
LEMMA InnerLetter ==
    ASSUME NEW line \in Seq(Tokens), NEW p \in 2..Len(line),
           line[p].kind \in {"I", "O"}
    PROVE  ParseEventLine(line) = << >>
<1> DEFINE n == Len(line)
           hex == SubSeq(line, 5, n)
<1>1. n \in Nat /\ \A i \in 1..n : line[i] \in Tokens
  BY LenProperties, ElementOfSeq
<1>2. p = 2 => line[2] # Space
  BY DEF Space, Token
<1>3. p = 3 => line[3].kind # "number"
  OBVIOUS
<1>4. p = 4 => line[4] # Space
  BY DEF Space, Token
<1>5. p > 4 => ~IsHex(hex)
  <2> SUFFICES ASSUME p > 4 PROVE ~IsHex(hex)
    OBVIOUS
  <2>1. \A i \in 5..n : line[i] \in Tokens
    BY <1>1
  <2>2. p - 4 \in 1..n - 5 + 1 /\ 5 + (p - 4) - 1 = p /\ 5 <= n /\ 5 \in Int /\ n \in Int
    BY <1>1
  <2> HIDE DEF n
  <2>3. /\ hex \in Seq(Tokens)
        /\ Len(hex) = IF 5 <= n THEN n - 5 + 1 ELSE 0
        /\ \A i \in 1..n - 5 + 1 : hex[i] = line[5 + i - 1]
    BY <2>1, <2>2, SubSeqProperties
  <2> HIDE DEF hex
  <2>4. hex[p - 4] = line[p] /\ p - 4 \in 1..Len(hex)
    BY <2>2, <2>3
  <2>5. DOMAIN hex = 1..Len(hex)
    BY <2>3, LenProperties
  <2> QED
    BY <2>4, <2>5 DEF IsHex
<1>6. p = 2 \/ p = 3 \/ p = 4 \/ p > 4
  BY <1>1
<1> HIDE DEF hex
<1> QED
  BY <1>2, <1>3, <1>4, <1>5, <1>6 DEF ParseEventLine, hex

\* The event with the first j of its bytes.
Beginning(event, j) ==
    [direction |-> event.direction, elapsed |-> event.elapsed,
     data |-> SubSeq(event.data, 1, j)]

\* A beginning of a line is no event or the event with a beginning of its bytes, and the
\* whole line, but for its end, the whole event.
LEMMA ParsePrefix ==
    ASSUME NEW event \in Event, NEW m \in Nat, m < Len(LineText(event))
    PROVE  LET line == SubSeq(LineText(event), 1, m)
           IN  /\ \/ ParseEventLine(line) = << >>
                  \/ \E j \in 0..Len(event.data) :
                        ParseEventLine(line) = << Beginning(event, j) >>
               /\ m = Len(LineText(event)) - 1 => ParseEventLine(line) = << event >>
<1> DEFINE t == LineText(event)
           h == HexEncode(event.data)
           d == event.data
           n == Len(d)
           line == SubSeq(t, 1, m)
           hex == SubSeq(line, 5, m)
           j == (m - 4) \div 2
<1>1. event.direction \in {"I", "O"} /\ event.elapsed \in Nat /\ d \in Seq(Bytes)
  BY DEF Event
<1>2. /\ n \in Nat
      /\ \A i \in 1..2 * n : h[i].kind = "digit"
      /\ \A i \in 1..n : h[2*i - 1] = Digit(d[i] \div 16) /\ h[2*i] = Digit(d[i] % 16)
      /\ \A i \in 1..n : d[i] \in 0..255 /\ d[i] \in Bytes
  BY <1>1, BytesAssumption, LenProperties, ElementOfSeq, HexType
<1>3. t \in Seq(Tokens) /\ Len(t) = 2 * n + 5
      /\ t[1] = Letter(event.direction) /\ t[2] = Space
      /\ t[3] = Number(event.elapsed) /\ t[4] = Space
      /\ \A i \in 1..2 * n : t[i + 4] = h[i]
  BY LineShape
<1> HIDE DEF t, h, n
<1>4. m <= 2 * n + 4
  BY <1>2, <1>3 DEF t
<1>5. line \in Seq(Tokens) /\ Len(line) = m /\ \A i \in 1..m : line[i] = t[i]
  <2>1. \A i \in 1..m : i \in 1..Len(t)
    BY <1>2, <1>3, <1>4
  <2>2. \A i \in 1..m : t[i] \in Tokens
    BY <1>3, <2>1, ElementOfSeq
  <2>3. 1 \in Int /\ m \in Int /\ m - 1 + 1 = m /\ (~(1 <= m) => m = 0)
    OBVIOUS
  <2>4. /\ line \in Seq(Tokens)
        /\ Len(line) = IF 1 <= m THEN m - 1 + 1 ELSE 0
        /\ \A i \in 1..m - 1 + 1 : line[i] = t[1 + i - 1]
    BY <2>2, <2>3, SubSeqProperties
  <2>5. \A i \in 1..m : 1 + i - 1 = i
    OBVIOUS
  <2> HIDE DEF line
  <2> QED
    BY <2>3, <2>4, <2>5
<1> HIDE DEF line, d
<1>6. CASE m < 4
  <2>1. ParseEventLine(line) = << >>
    BY <1>5, <1>6, ParseType
  <2>2. m # Len(t) - 1
    BY <1>2, <1>3, <1>6
  <2> QED
    BY <2>1, <2>2 DEF line, t
<1>7. CASE m >= 4
  <2>1. /\ line[1].kind = event.direction /\ line[2] = Space /\ line[3].kind = "number"
        /\ line[3].n = event.elapsed /\ line[4] = Space
    <3>1. 1 \in 1..m /\ 2 \in 1..m /\ 3 \in 1..m /\ 4 \in 1..m
      BY <1>7
    <3>2. line[1] = t[1] /\ line[2] = t[2] /\ line[3] = t[3] /\ line[4] = t[4]
      BY <1>5, <3>1
    <3> QED
      BY <1>3, <3>2 DEF Letter, Number, Token
  <2>2. hex \in Seq(Tokens) /\ Len(hex) = m - 4 /\ \A i \in 1..m - 4 : hex[i] = h[i]
    <3>1. \A i \in 5..m : i \in 1..m
      OBVIOUS
    <3>2. \A i \in 5..m : line[i] \in Tokens
      BY <1>5, <3>1, ElementOfSeq
    <3>3. 5 \in Int /\ m \in Int /\ m - 5 + 1 = m - 4 /\ (~(5 <= m) => m - 4 = 0)
      BY <1>7
    <3>4. /\ hex \in Seq(Tokens)
          /\ Len(hex) = IF 5 <= m THEN m - 5 + 1 ELSE 0
          /\ \A i \in 1..m - 5 + 1 : hex[i] = line[5 + i - 1]
      BY <3>2, <3>3, SubSeqProperties
    <3>5. \A i \in 1..m - 4 : /\ i \in 1..m - 5 + 1 /\ 5 + i - 1 = i + 4
                              /\ i + 4 \in 1..m /\ i \in 1..2 * n
      BY <1>2, <1>4
    <3> HIDE DEF hex
    <3>6. \A i \in 1..m - 4 : hex[i] = h[i]
      BY <1>3, <1>5, <3>4, <3>5
    <3> QED
      BY <3>3, <3>4, <3>6
  <2>3. m - 4 \in Nat /\ \A i \in 1..m - 4 : i \in 1..2 * n
    BY <1>2, <1>4, <1>7
  <2>4. \A i \in DOMAIN hex : hex[i].kind = "digit"
    <3>1. DOMAIN hex = 1..m - 4
      BY <2>2, LenProperties
    <3> QED
      BY <1>2, <2>2, <2>3, <3>1
  <2> HIDE DEF hex
  <2>5. hex = SubSeq(line, 5, Len(line)) /\ Len(line) >= 4
    BY <1>5, <1>7 DEF hex
  <2>6. CASE (m - 4) % 2 # 0
    <3>1. ~IsHex(hex)
      BY <2>2, <2>6 DEF IsHex
    <3>2. ParseEventLine(line) = << >>
      BY <2>5, <3>1 DEF ParseEventLine
    <3>3. m # 2 * n + 4
      BY <1>2, <2>6
    <3>4. m # Len(t) - 1
      BY <1>2, <1>3, <3>3
    <3> QED
      BY <3>2, <3>4 DEF line, t
  <2>7. CASE (m - 4) % 2 = 0
    <3>1. IsHex(hex)
      BY <2>2, <2>4, <2>7 DEF IsHex
    <3>2. /\ j \in 0..n /\ 2 * j = m - 4 /\ (m = 2 * n + 4 => j = n)
          /\ \A i \in 1..j : /\ 2*i - 1 \in 1..m - 4 /\ 2*i \in 1..m - 4 /\ i \in 1..n
      BY <1>2, <1>4, <2>3, <2>7
    <3>3. HexDecode(hex) = SubSeq(d, 1, j)
      <4>1. HexDecode(hex) = [i \in 1..j |-> 16 * hex[2*i - 1].n + hex[2*i].n]
        BY <2>2 DEF HexDecode
      <4>2. \A b \in 0..255 : 16 * (b \div 16) + (b % 16) = b
        OBVIOUS
      <4> HIDE DEF j
      <4>3. \A i \in 1..j : 16 * hex[2*i - 1].n + hex[2*i].n = d[i]
        <5> TAKE i \in 1..j
        <5>1. /\ 2*i - 1 \in 1..m - 4 /\ 2*i \in 1..m - 4 /\ i \in 1..n
          BY <3>2
        <5>2. hex[2*i - 1] = Digit(d[i] \div 16) /\ hex[2*i] = Digit(d[i] % 16)
          BY <1>2, <2>2, <5>1
        <5>3. hex[2*i - 1].n = d[i] \div 16 /\ hex[2*i].n = d[i] % 16
          BY <5>2 DEF Digit, Token
        <5> QED
          BY <1>2, <4>2, <5>1, <5>3
      <4>4. HexDecode(hex) = [i \in 1..j |-> d[i]]
        BY <4>1, <4>3
      <4>5. SubSeq(d, 1, j) = [i \in 1..j |-> d[i]]
        <5>1. j \in Nat
          BY <3>2
        <5> QED
          BY <5>1
      <4> QED
        BY <4>4, <4>5
    <3>4. ParseEventLine(line) = << Beginning(event, j) >>
      BY <1>1, <2>1, <2>5, <3>1, <3>3 DEF ParseEventLine, Beginning, d
    <3> HIDE DEF j
    <3>5. m = Len(t) - 1 => j = n
      BY <1>2, <1>3, <3>2
    <3>6. ASSUME j = n PROVE Beginning(event, j) = event
      <4>1. SubSeq(d, 1, n) = d
        BY <1>1, SubSeqFull DEF n, d
      <4> QED
        BY <3>6, <4>1 DEF Beginning, Event, d
    <3>7. j \in 0..Len(event.data)
      BY <3>2 DEF n, d
    <3> QED
      BY <3>4, <3>5, <3>6, <3>7 DEF line, t
  <2> QED
    BY <2>6, <2>7
<1> QED
  BY <1>6, <1>7

\* A line that is being written adds to the line the text ends in ...
LEMMA WriteOn ==
    ASSUME NEW base \in Seq(Tokens), Ended(base), NEW event \in Event,
           NEW m \in Nat, m < Len(LineText(event))
    PROVE  LET text == base \o SubSeq(LineText(event), 1, m)
           IN  /\ text \in Seq(Tokens) /\ Ended(text)
               /\ Done(text) = Done(base)
               /\ Rest(text) = Rest(base) \o SubSeq(LineText(event), 1, m)
<1> DEFINE t == LineText(event)
           n == Len(t)
           r == Rest(base)
           S(k) == base \o SubSeq(t, 1, k)
           T == {k \in Nat : k < n =>
                   /\ S(k) \in Seq(Tokens) /\ Ended(S(k))
                   /\ Done(S(k)) = Done(base)
                   /\ Rest(S(k)) = r \o SubSeq(t, 1, k)}
<1>1. t \in Seq(Tokens) /\ n \in Nat
  BY LineShape, LenProperties
<1>2. r \in Seq(Tokens)
  BY EndedType
<1>3. \A k \in 1..n : t[k] \in Tokens /\ (k < n => t[k] # Newline)
  BY LineTokens
<1> HIDE DEF t, r
<1>4. 0 \in T
  <2>1. SubSeq(t, 1, 0) = << >>
    BY SubSeqEmpty
  <2>2. base \o << >> = base /\ r \o << >> = r
    BY <1>2, ConcatEmptySeq
  <2> QED
    BY <2>1, <2>2 DEF r
<1>5. ASSUME NEW k \in Nat, k \in T PROVE k + 1 \in T
  <2> DEFINE j == k + 1
  <2> SUFFICES ASSUME j < n
               PROVE  /\ S(j) \in Seq(Tokens) /\ Ended(S(j))
                      /\ Done(S(j)) = Done(base)
                      /\ Rest(S(j)) = r \o SubSeq(t, 1, j)
    OBVIOUS
  <2>1. k < n /\ j \in 1..n /\ j <= n
    BY <1>1
  <2>2. /\ S(k) \in Seq(Tokens) /\ Ended(S(k)) /\ Done(S(k)) = Done(base)
        /\ Rest(S(k)) = r \o SubSeq(t, 1, k)
    BY <1>5, <2>1
  <2>3. S(j) = Append(S(k), t[j])
    BY <1>1, <2>1, GrowPrefix
  <2>4. r \o SubSeq(t, 1, j) = Append(r \o SubSeq(t, 1, k), t[j])
    BY <1>1, <1>2, <2>1, GrowPrefix
  <2>5. t[j] \in Tokens /\ t[j] # Newline
    BY <1>3, <2>1
  <2> HIDE DEF j, S
  <2>6. /\ Ended(Append(S(k), t[j])) /\ Done(Append(S(k), t[j])) = Done(S(k))
        /\ Rest(Append(S(k), t[j])) = Append(Rest(S(k)), t[j])
    BY <2>2, <2>5, ReadOn
  <2>7. Append(S(k), t[j]) \in Seq(Tokens)
    BY <2>2, <2>5
  <2> QED
    BY <2>2, <2>3, <2>4, <2>6, <2>7
<1> HIDE DEF T
<1>6. m \in T
  BY <1>4, <1>5, SetInduction
<1> QED
  BY <1>6 DEF T, t, r

\* ... and is parsed, together with what that line held before, when it is complete.
LEMMA WriteEnd ==
    ASSUME NEW base \in Seq(Tokens), Ended(base), NEW event \in Event
    PROVE  LET text == base \o LineText(event)
               line == SubSeq(LineText(event), 1, Len(LineText(event)) - 1)
           IN  /\ text \in Seq(Tokens) /\ Ended(text)
               /\ Done(text) = Done(base) \o ParseEventLine(Rest(base) \o line)
               /\ Rest(text) = << >>
<1> DEFINE t == LineText(event)
           n == Len(t)
           m == n - 1
           line == SubSeq(t, 1, m)
           before == base \o line
<1>1. t \in Seq(Tokens) /\ n \in Nat /\ n >= 5
  <2>1. Len(event.data) \in Nat
    BY LenProperties DEF Event
  <2> QED
    BY <2>1, LineShape
<1>2. t[n] = Newline /\ Newline \in Tokens
  BY <1>1, LineTokens
<1>3. m \in Nat /\ m < n /\ m + 1 <= n /\ m + 1 = n
  BY <1>1
<1>4. /\ before \in Seq(Tokens) /\ Ended(before) /\ Done(before) = Done(base)
      /\ Rest(before) = Rest(base) \o line
  <2> HIDE DEF m
  <2> QED
    BY <1>3, WriteOn
<1>5. SubSeq(t, 1, n) = t
  BY <1>1, SubSeqFull
<1> HIDE DEF n, t
<1>6. base \o SubSeq(t, 1, m + 1) = Append(base \o SubSeq(t, 1, m), t[m + 1])
  <2> HIDE DEF m
  <2> QED
    BY <1>1, <1>3, GrowPrefix DEF n
<1>7. base \o t = Append(before, Newline)
  BY <1>2, <1>3, <1>5, <1>6
<1> HIDE DEF before, line
<1>8. /\ Append(before, Newline) \in Seq(Tokens) /\ Ended(Append(before, Newline))
      /\ Done(Append(before, Newline)) = Done(before) \o ParseEventLine(Rest(before))
      /\ Rest(Append(before, Newline)) = << >>
  <2>1. Append(before, Newline) \in Seq(Tokens)
    BY <1>2, <1>4
  <2> QED
    BY <1>2, <1>4, <2>1, ReadOn
<1>9. /\ base \o t \in Seq(Tokens) /\ Ended(base \o t)
      /\ Done(base \o t) = Done(base) \o ParseEventLine(Rest(base) \o line)
      /\ Rest(base \o t) = << >>
  BY <1>4, <1>7, <1>8
<1> QED
  BY <1>9 DEF line, m, n, t

-----------------------------------------------------------------------------
\* What a reader may get.

ReadOf(text) == IF HasHeader(text) THEN ParseSession(text) ELSE << >>

\* ReadIsGenuine and ReplayIsPrefix of any text, the second event by event.
Genuine(read, events) ==
    \A i \in DOMAIN read :
        LET event == read[i]
        IN  /\ i > 1 => read[i - 1].elapsed < event.elapsed
            /\ event.elapsed \in DOMAIN events
            /\ LET original == events[event.elapsed]
               IN  /\ event.direction = original.direction
                   /\ IsPrefix(event.data, original.data)
                   /\ (i < Len(read) => event.data = original.data)

CutShort(read, events) ==
    /\ Len(read) \in 0..Len(events)
    /\ \A k \in 1..Len(read) : k < Len(read) => read[k] = events[k]
    /\ Len(read) > 0 => \E j \in 0..Len(events[Len(read)].data) :
                            read[Len(read)] = Beginning(events[Len(read)], j)

Fine(text, events, lost) ==
    /\ Genuine(ReadOf(text), events)
    /\ lost = 0 => CutShort(ReadOf(text), events)

\* Events that were recorded one after the other.
Timed(events) ==
    /\ events \in Seq(Event)
    /\ \A i \in 1..Len(events) : events[i].elapsed = i

\* Some of the first i events, whole and in order.
Kept(read, events, i) ==
    /\ \A k \in 1..Len(read) :
        read[k].elapsed \in 1..i /\ read[k] = events[read[k].elapsed]
    /\ \A k \in 2..Len(read) : read[k - 1].elapsed < read[k].elapsed

\* The line a text ends in: none, one of several run together, or the beginning of one
\* event's that is later than all that have been read.
Begun(rest, read, events, i) ==
    \/ rest = << >>
    \/ \E p \in 2..Len(rest) : rest[p].kind \in {"I", "O"}
    \/ \E j \in 1..i, m \in Nat :
        /\ m < Len(LineText(events[j])) /\ rest = SubSeq(LineText(events[j]), 1, m)
        /\ \A k \in 1..Len(read) : read[k].elapsed < j

\* A beginning of a sequence is a prefix of it.
LEMMA BeginningIsPrefix ==
    ASSUME NEW S, NEW s \in Seq(S), NEW j \in 0..Len(s)
    PROVE  IsPrefix(SubSeq(s, 1, j), s)
<1> DEFINE n == Len(s)
           p == SubSeq(s, 1, j)
<1>1. n \in Nat /\ \A i \in 1..n : s[i] \in S
  BY LenProperties, ElementOfSeq
<1>2. 1 \in Int /\ j \in Int /\ j <= n /\ j - 1 + 1 = j /\ (~(1 <= j) => j = 0)
      /\ \A i \in 1..j : i \in 1..n /\ 1 + i - 1 = i
  BY <1>1
<1>3. p \in Seq(S) /\ Len(p) = j
  <2>1. \A i \in 1..j : s[i] \in S
    BY <1>1, <1>2
  <2>2. p \in Seq(S) /\ Len(p) = IF 1 <= j THEN j - 1 + 1 ELSE 0
    BY <1>2, <2>1, SubSeqProperties
  <2> HIDE DEF p
  <2> QED
    BY <1>2, <2>2
<1> HIDE DEF p, n
<1>4. SubSeq(p, 1, j) = p
  BY <1>3, SubSeqFull
<1>5. IsPrefix(p, s)
  BY <1>2, <1>3, <1>4 DEF IsPrefix, p, n
<1> QED
  BY <1>5 DEF p

\* A text that ends so is read as events of the session.
LEMMA GenuineText ==
    ASSUME NEW text \in Seq(Tokens), HasHeader(text), Ended(text),
           NEW events, Timed(events), NEW i \in 0..Len(events),
           Kept(Done(text), events, i),
           Begun(Rest(text), Done(text), events, i)
    PROVE  Genuine(ReadOf(text), events)
<1> DEFINE done == Done(text)
           rest == Rest(text)
           n == Len(done)
<1>1. done \in Seq(ParsedEvent) /\ rest \in Seq(Tokens) /\ n \in Nat
  BY EndedType, LenProperties
<1>2. ReadOf(text) = done \o ParseEventLine(rest)
  BY ParseReads DEF ReadOf
<1>3. /\ events \in Seq(Event) /\ DOMAIN events = 1..Len(events) /\ Len(events) \in Nat
      /\ \A k \in 1..Len(events) : events[k] \in Event /\ events[k].elapsed = k
  BY LenProperties, ElementOfSeq DEF Timed
<1>4. /\ \A k \in 1..n : /\ done[k].elapsed \in 1..i
                         /\ done[k] = events[done[k].elapsed]
                         /\ done[k].elapsed \in DOMAIN events
      /\ \A k \in 2..n : done[k - 1].elapsed < done[k].elapsed
  <2>1. \A e \in 1..i : e \in DOMAIN events
    BY <1>3
  <2> QED
    BY <2>1 DEF Kept
<1>5. \A k \in 1..n : IsPrefix(done[k].data, done[k].data)
  <2>1. \A k \in 1..n : done[k] \in ParsedEvent
    BY <1>1, ElementOfSeq
  <2>2. \A k \in 1..n : done[k].data \in Seq(Nat)
    BY <2>1 DEF ParsedEvent
  <2>3. \A s \in Seq(Nat) : IsPrefix(s, s)
    BY DEF IsPrefix
  <2> QED
    BY <2>2, <2>3
<1>6. DOMAIN done = 1..n
  BY <1>1, LenProperties
<1>7. Begun(rest, done, events, i)
  OBVIOUS
<1> HIDE DEF done, rest, n
<1>8. CASE ParseEventLine(rest) = << >>
  <2>1. ReadOf(text) = done
    BY <1>1, <1>2, <1>8, ConcatEmptySeq
  <2>2. \A k \in 1..n : k > 1 => k \in 2..n
    BY <1>1
  <2> QED
    BY <1>4, <1>5, <1>6, <2>1, <2>2 DEF Genuine
<1>9. CASE \E j \in 1..i, m \in Nat :
              /\ m < Len(LineText(events[j])) /\ rest = SubSeq(LineText(events[j]), 1, m)
              /\ \A k \in 1..Len(done) : done[k].elapsed < j
  <2>1. PICK j \in 1..i, m \in Nat :
              /\ m < Len(LineText(events[j])) /\ rest = SubSeq(LineText(events[j]), 1, m)
              /\ \A k \in 1..Len(done) : done[k].elapsed < j
    BY <1>9
  <2> DEFINE e == events[j]
  <2>2. j \in DOMAIN events /\ j \in 1..Len(events) /\ e \in Event /\ e.elapsed = j
    BY <1>3
  <2>3. CASE ParseEventLine(rest) = << >>
    BY <1>8, <2>3
  <2>4. CASE \E c \in 0..Len(e.data) : ParseEventLine(rest) = << Beginning(e, c) >>
    <3>1. PICK c \in 0..Len(e.data) : ParseEventLine(rest) = << Beginning(e, c) >>
      BY <2>4
    <3> DEFINE b == Beginning(e, c)
               read == Append(done, b)
    <3>2. /\ b.direction = e.direction /\ b.elapsed = j
          /\ b.data = SubSeq(e.data, 1, c)
      BY <2>2 DEF Beginning
    <3>3. IsPrefix(b.data, e.data)
      <4>1. e.data \in Seq(Bytes)
        BY <2>2 DEF Event
      <4> QED
        BY <3>2, <4>1, BeginningIsPrefix
    <3>4. << b >> \in Seq(ParsedEvent) /\ b \in ParsedEvent
      <4>1. ParseEventLine(rest) \in Seq(ParsedEvent)
        BY <1>1, ParseType
      <4> HIDE DEF b, e
      <4>2. << b >> \in Seq(ParsedEvent)
        BY <3>1, <4>1 DEF b
      <4> QED
        BY <4>2, ElementOfSeq
    <3> HIDE DEF b, e
    <3>5. ReadOf(text) = read
      <4>1. Append(done, b) = done \o << b >>
        BY <1>1, <3>4, AppendIsConcat
      <4> QED
        BY <1>2, <3>1, <4>1 DEF b
    <3>6. /\ Len(read) = n + 1 /\ DOMAIN read = 1..n + 1
          /\ \A k \in 1..n : read[k] = done[k]
          /\ read[n + 1] = b
      <4>1. /\ read \in Seq(ParsedEvent) /\ Len(read) = Len(done) + 1
            /\ \A k \in 1..Len(done) : read[k] = done[k]
            /\ read[Len(done) + 1] = b
        BY <1>1, <3>4, AppendProperties
      <4>2. DOMAIN read = 1..Len(read)
        BY <4>1, LenProperties
      <4> QED
        BY <4>1, <4>2 DEF n
    <3> HIDE DEF read
    <3>7. ASSUME NEW k \in 1..n
          PROVE  /\ k > 1 => read[k - 1].elapsed < read[k].elapsed
                 /\ read[k].elapsed \in DOMAIN events
                 /\ read[k].direction = events[read[k].elapsed].direction
                 /\ IsPrefix(read[k].data, events[read[k].elapsed].data)
                 /\ read[k].data = events[read[k].elapsed].data
      <4>1. read[k] = done[k] /\ (k > 1 => k \in 2..n /\ read[k - 1] = done[k - 1])
        BY <1>1, <3>6
      <4> QED
        BY <1>4, <1>5, <4>1
    <3>8. /\ n + 1 > 1 => read[n].elapsed < b.elapsed
          /\ b.elapsed \in DOMAIN events
          /\ b.direction = events[b.elapsed].direction
          /\ IsPrefix(b.data, events[b.elapsed].data)
      <4>1. n + 1 > 1 => n \in 1..n /\ read[n] = done[n]
        BY <1>1, <3>6
      <4>2. n + 1 > 1 => done[n].elapsed < j
        BY <2>1, <4>1 DEF n
      <4> QED
        BY <2>2, <3>2, <3>3, <4>1, <4>2 DEF e
    <3>9. \A k \in 1..n + 1 : k \in 1..n \/ (k = n + 1 /\ k - 1 = n /\ ~(k < n + 1))
      BY <1>1
    <3> QED
      BY <3>5, <3>6, <3>7, <3>8, <3>9 DEF Genuine
  <2> QED
    BY <2>1, <2>2, <2>3, <2>4, ParsePrefix
<1>10. CASE rest = << >>
  <2>1. << >> \in Seq(Tokens) /\ Len(<< >>) < 4
    OBVIOUS
  <2> QED
    BY <1>8, <1>10, <2>1, ParseType
<1>11. CASE \E p \in 2..Len(rest) : rest[p].kind \in {"I", "O"}
  BY <1>1, <1>8, <1>11, InnerLetter
<1> QED
  BY <1>7, <1>9, <1>10, <1>11 DEF Begun

\* All of the first i events.
Whole(read, events, i) == Len(read) = i /\ \A k \in 1..i : read[k] = events[k]

\* Without a lost event a text is read as a beginning of the session.
LEMMA CutShortText ==
    ASSUME NEW text \in Seq(Tokens), HasHeader(text), Ended(text),
           NEW events, Timed(events), NEW i \in 0..Len(events),
           Whole(Done(text), events, i),
           \/ Rest(text) = << >>
           \/ /\ i < Len(events)
              /\ \E m \in Nat : /\ m < Len(LineText(events[i + 1]))
                                /\ Rest(text) = SubSeq(LineText(events[i + 1]), 1, m)
    PROVE  CutShort(ReadOf(text), events)
<1> DEFINE done == Done(text)
           rest == Rest(text)
<1>1. /\ done \in Seq(ParsedEvent) /\ rest \in Seq(Tokens)
      /\ Len(done) = i /\ \A k \in 1..i : done[k] = events[k]
  BY EndedType DEF Whole
<1>2. ReadOf(text) = done \o ParseEventLine(rest)
  BY ParseReads DEF ReadOf
<1>3. /\ events \in Seq(Event) /\ Len(events) \in Nat
      /\ \A k \in 1..Len(events) : events[k] \in Event
  BY LenProperties, ElementOfSeq DEF Timed
<1>4. \/ rest = << >>
      \/ /\ i < Len(events)
         /\ \E m \in Nat : /\ m < Len(LineText(events[i + 1]))
                           /\ rest = SubSeq(LineText(events[i + 1]), 1, m)
  OBVIOUS
<1> HIDE DEF done, rest
<1>5. CASE ParseEventLine(rest) = << >>
  <2>1. ReadOf(text) = done
    BY <1>1, <1>2, <1>5, ConcatEmptySeq
  <2>2. ASSUME i > 0
        PROVE  \E j \in 0..Len(events[i].data) : done[i] = Beginning(events[i], j)
    <3> DEFINE e == events[i]
    <3>1. i \in 1..i /\ i \in 1..Len(events)
      BY <1>3, <2>2
    <3>2. e \in Event /\ done[i] = e
      BY <1>1, <1>3, <3>1
    <3> HIDE DEF e
    <3>3. e.data \in Seq(Bytes) /\ Len(e.data) \in 0..Len(e.data)
      BY <3>2, LenProperties DEF Event
    <3>4. Beginning(e, Len(e.data)) = e
      <4>1. SubSeq(e.data, 1, Len(e.data)) = e.data
        BY <3>3, SubSeqFull
      <4> QED
        BY <3>2, <4>1 DEF Beginning, Event
    <3> QED
      BY <3>2, <3>3, <3>4 DEF e
  <2> QED
    BY <1>1, <1>3, <2>1, <2>2 DEF CutShort
<1>6. ASSUME i < Len(events),
             NEW c \in 0..Len(events[i + 1].data),
             ParseEventLine(rest) = << Beginning(events[i + 1], c) >>
      PROVE  CutShort(ReadOf(text), events)
  <2> DEFINE b == Beginning(events[i + 1], c)
             read == Append(done, b)
  <2>1. << b >> \in Seq(ParsedEvent) /\ b \in ParsedEvent
    <3>1. ParseEventLine(rest) \in Seq(ParsedEvent)
      BY <1>1, ParseType
    <3> HIDE DEF b
    <3>2. << b >> \in Seq(ParsedEvent)
      BY <1>6, <3>1 DEF b
    <3> QED
      BY <3>2, ElementOfSeq
  <2> HIDE DEF b
  <2>2. ReadOf(text) = read
    <3>1. Append(done, b) = done \o << b >>
      BY <1>1, <2>1, AppendIsConcat
    <3> QED
      BY <1>2, <1>6, <3>1 DEF b
  <2>3. /\ Len(read) = i + 1
        /\ \A k \in 1..i : read[k] = done[k]
        /\ read[i + 1] = b
    <3>1. /\ Len(read) = Len(done) + 1
          /\ \A k \in 1..Len(done) : read[k] = done[k]
          /\ read[Len(done) + 1] = b
      BY <1>1, <2>1, AppendProperties
    <3> QED
      BY <1>1, <3>1
  <2> HIDE DEF read
  <2>4. Len(read) \in 0..Len(events) /\ Len(read) > 0
    BY <1>3, <1>6, <2>3
  <2>5. \A k \in 1..Len(read) : k < Len(read) => read[k] = events[k]
    <3>1. \A k \in 1..i + 1 : k < i + 1 => k \in 1..i
      OBVIOUS
    <3> QED
      BY <1>1, <2>3, <3>1
  <2>6. \E j \in 0..Len(events[Len(read)].data) :
            read[Len(read)] = Beginning(events[Len(read)], j)
    BY <2>3 DEF b
  <2> QED
    BY <2>2, <2>4, <2>5, <2>6 DEF CutShort
<1>7. CASE rest = << >>
  <2>1. << >> \in Seq(Tokens) /\ Len(<< >>) < 4
    OBVIOUS
  <2> QED
    BY <1>5, <1>7, <2>1, ParseType
<1>8. CASE /\ i < Len(events)
           /\ \E m \in Nat : /\ m < Len(LineText(events[i + 1]))
                             /\ rest = SubSeq(LineText(events[i + 1]), 1, m)
  <2> DEFINE e == events[i + 1]
  <2>1. PICK m \in Nat : m < Len(LineText(e)) /\ rest = SubSeq(LineText(e), 1, m)
    BY <1>8
  <2>2. e \in Event
    <3>1. i + 1 \in 1..Len(events)
      BY <1>3, <1>8
    <3> QED
      BY <1>3, <3>1
  <2>3. \/ ParseEventLine(rest) = << >>
        \/ \E c \in 0..Len(e.data) : ParseEventLine(rest) = << Beginning(e, c) >>
    <3> HIDE DEF e
    <3> QED
      BY <2>1, <2>2, ParsePrefix
  <2> QED
    BY <1>5, <1>6, <1>8, <2>3
<1> QED
  BY <1>4, <1>7, <1>8

-----------------------------------------------------------------------------
\* Texts to which whole and unfinished lines are added.

\* A text that i events have gone into, of which some lines were left unfinished.
Legible(text, events, i, lost) ==
    /\ text \in Seq(Tokens) /\ HasHeader(text) /\ Ended(text)
    /\ Kept(Done(text), events, i)
    /\ Begun(Rest(text), Done(text), events, i)
    /\ Rest(text) = << >> => i - Len(Done(text)) <= 2 * lost
    /\ Rest(text) # << >> => i - Len(Done(text)) + 1 <= 2 * lost
    /\ lost = 0 => Whole(Done(text), events, i)
    /\ \A k \in 0..Len(text) : Fine(SubSeq(text, 1, k), events, lost)

\* A beginning of a beginning.
LEMMA PrefixOfPrefix ==
    ASSUME NEW S, NEW s \in Seq(S), NEW m \in 0..Len(s), NEW k \in 0..m
    PROVE  /\ SubSeq(s, 1, m) \in Seq(S) /\ Len(SubSeq(s, 1, m)) = m
           /\ \A i \in 1..m : SubSeq(s, 1, m)[i] = s[i]
           /\ SubSeq(SubSeq(s, 1, m), 1, k) = SubSeq(s, 1, k)
<1> DEFINE n == Len(s)
           T(j) == SubSeq(s, 1, j)
<1>1. n \in Nat /\ \A i \in 1..n : s[i] \in S
  BY LenProperties, ElementOfSeq
<1>2. ASSUME NEW u, NEW j \in Nat, \A i \in 1..j : u[i] \in S
      PROVE  /\ SubSeq(u, 1, j) \in Seq(S) /\ Len(SubSeq(u, 1, j)) = j
             /\ \A i \in 1..j : SubSeq(u, 1, j)[i] = u[i]
  <2>1. 1 \in Int /\ j \in Int /\ j - 1 + 1 = j /\ (~(1 <= j) => j = 0)
        /\ \A i \in 1..j : 1 + i - 1 = i
    OBVIOUS
  <2>2. /\ SubSeq(u, 1, j) \in Seq(S)
        /\ Len(SubSeq(u, 1, j)) = IF 1 <= j THEN j - 1 + 1 ELSE 0
        /\ \A i \in 1..j - 1 + 1 : SubSeq(u, 1, j)[i] = u[1 + i - 1]
    BY <1>2, <2>1, SubSeqProperties
  <2> DEFINE v == SubSeq(u, 1, j)
  <2> HIDE DEF v
  <2>3. v \in Seq(S) /\ Len(v) = j /\ \A i \in 1..j : v[i] = u[i]
    BY <2>1, <2>2 DEF v
  <2> QED
    BY <2>3 DEF v
<1>3. m \in Nat /\ k \in Nat /\ k <= m /\ m <= n
  BY <1>1
<1>4. /\ \A i \in 1..m : i \in 1..n
      /\ \A i \in 1..k : i \in 1..n /\ i \in 1..m
  BY <1>3
<1>5. T(m) \in Seq(S) /\ Len(T(m)) = m /\ \A i \in 1..m : T(m)[i] = s[i]
  BY <1>1, <1>2, <1>3, <1>4
<1>6. T(k) \in Seq(S) /\ Len(T(k)) = k /\ \A i \in 1..k : T(k)[i] = s[i]
  BY <1>1, <1>2, <1>3, <1>4
<1> DEFINE a == T(m)
           b == T(k)
           c == SubSeq(a, 1, k)
<1>7. \A i \in 1..k : a[i] = s[i] /\ a[i] \in S
  BY <1>1, <1>4, <1>5
<1> HIDE DEF a
<1>8. c \in Seq(S) /\ Len(c) = k /\ \A i \in 1..k : c[i] = a[i]
  BY <1>2, <1>3, <1>7
<1> HIDE DEF b, c
<1>9. c = b
  <2>1. /\ b \in Seq(S) /\ Len(c) = Len(b) /\ Len(c) = k
        /\ \A i \in 1..k : c[i] = b[i]
    BY <1>6, <1>7, <1>8 DEF b
  <2> QED
    BY <1>8, <2>1, SeqEqual
<1> QED
  BY <1>5, <1>9 DEF a, b, c

\* A beginning of two texts, one after the other.
LEMMA PrefixOfConcat ==
    ASSUME NEW S, NEW a \in Seq(S), NEW b \in Seq(S), NEW k \in 0..Len(a) + Len(b)
    PROVE  SubSeq(a \o b, 1, k) = IF k <= Len(a) THEN SubSeq(a, 1, k)
                                  ELSE a \o SubSeq(b, 1, k - Len(a))
<1> DEFINE p == Len(a)
           q == Len(b)
           c == a \o b
           left == SubSeq(c, 1, k)
<1>1. p \in Nat /\ q \in Nat
  BY LenProperties
<1>2. /\ c \in Seq(S) /\ Len(c) = p + q
      /\ \A i \in 1..p + q : c[i] = IF i <= p THEN a[i] ELSE b[i - p]
  BY ConcatProperties
<1> HIDE DEF c
<1>3. left \in Seq(S) /\ Len(left) = k /\ \A i \in 1..k : left[i] = c[i]
  <2>1. k \in 0..Len(c) /\ k \in 0..k
    BY <1>1, <1>2
  <2> QED
    BY <1>2, <2>1, PrefixOfPrefix
<1> HIDE DEF left
<1>4. ASSUME k <= p PROVE left = SubSeq(a, 1, k)
  <2> DEFINE r == SubSeq(a, 1, k)
  <2>1. k \in 0..p /\ k \in 0..k
    BY <1>1, <1>4
  <2>2. r \in Seq(S) /\ Len(r) = k /\ \A i \in 1..k : r[i] = a[i]
    BY <2>1, PrefixOfPrefix
  <2> HIDE DEF r, p, q
  <2>3. \A i \in 1..k : i \in 1..p + q /\ i <= p
    BY <1>1, <1>4
  <2>4. \A i \in 1..k : left[i] = r[i]
    BY <1>2, <1>3, <2>2, <2>3
  <2>5. left = r
    BY <1>3, <2>2, <2>4, SeqEqual
  <2> QED
    BY <2>5 DEF r
<1>5. ASSUME ~(k <= p) PROVE left = a \o SubSeq(b, 1, k - p)
  <2> DEFINE m == k - p
             s == SubSeq(b, 1, m)
             r == a \o s
  <2>1. m \in 0..q /\ m \in 0..m /\ m \in Nat /\ p + m = k
    BY <1>1, <1>5
  <2> HIDE DEF m
  <2>2. s \in Seq(S) /\ Len(s) = m /\ \A i \in 1..m : s[i] = b[i]
    BY <2>1, PrefixOfPrefix
  <2> HIDE DEF s
  <2>3. /\ r \in Seq(S) /\ Len(r) = Len(a) + Len(s)
        /\ \A i \in 1..Len(a) + Len(s) : r[i] = IF i <= Len(a) THEN a[i] ELSE s[i - Len(a)]
    BY <2>2, ConcatProperties
  <2> HIDE DEF r, p, q
  <2>4. Len(r) = k /\ \A i \in 1..k : r[i] = IF i <= p THEN a[i] ELSE s[i - p]
    BY <1>1, <2>1, <2>2, <2>3 DEF p
  <2>5. \A i \in 1..k : i \in 1..p + q /\ (~(i <= p) => i - p \in 1..m)
    BY <1>1, <2>1
  <2>6. \A i \in 1..k : left[i] = r[i]
    BY <1>2, <1>3, <2>2, <2>4, <2>5
  <2>7. left = r
    BY <1>3, <2>3, <2>4, <2>6, SeqEqual
  <2> QED
    BY <2>7 DEF r, s, m
<1> QED
  BY <1>4, <1>5 DEF left, c

\* A line that is appended to an unfinished one has a letter inside.
LEMMA JoinedLine ==
    ASSUME NEW rest \in Seq(Tokens), rest # << >>, NEW event \in Event,
           NEW m \in 1..Len(LineText(event))
    PROVE  /\ rest \o SubSeq(LineText(event), 1, m) \in Seq(Tokens)
           /\ \E p \in 2..Len(rest \o SubSeq(LineText(event), 1, m)) :
                (rest \o SubSeq(LineText(event), 1, m))[p].kind \in {"I", "O"}
<1> DEFINE t == LineText(event)
           s == SubSeq(t, 1, m)
           j == rest \o s
           q == Len(rest)
<1>1. t \in Seq(Tokens) /\ 1 \in 1..Len(t) /\ m \in 0..Len(t) /\ m \in 0..m
  <2>1. t \in Seq(Tokens) /\ Len(t) \in Nat
    BY LineShape, LenProperties
  <2> QED
    BY <2>1
<1>2. s \in Seq(Tokens) /\ Len(s) = m /\ s[1] = t[1]
  <2>1. /\ s \in Seq(Tokens) /\ Len(s) = m /\ \A i \in 1..m : s[i] = t[i]
    <3> HIDE DEF t
    <3> QED
      BY <1>1, PrefixOfPrefix
  <2>2. 1 \in 1..m
    OBVIOUS
  <2> QED
    BY <2>1, <2>2
<1>3. t[1].kind \in {"I", "O"}
  BY <1>1, LineTokens
<1>4. q \in Nat /\ q # 0
  BY EmptySeq
<1> HIDE DEF s, t
<1>5. /\ j \in Seq(Tokens) /\ Len(j) = Len(rest) + Len(s)
      /\ \A i \in 1..Len(rest) + Len(s) :
            j[i] = IF i <= Len(rest) THEN rest[i] ELSE s[i - Len(rest)]
  BY <1>2, ConcatProperties
<1> HIDE DEF j
<1>6. j[q + 1] = s[1]
  <2> DEFINE p == q + 1
  <2>1. p \in 1..q + m /\ ~(p <= q) /\ p - q = 1
    BY <1>4
  <2> HIDE DEF p, q
  <2>2. j[p] = s[p - q]
    BY <1>2, <1>5, <2>1 DEF q
  <2> QED
    BY <2>1, <2>2 DEF p
<1>7. q + 1 \in 2..Len(j)
  <2>1. Len(j) = q + m
    BY <1>2, <1>5
  <2> HIDE DEF q
  <2> QED
    BY <1>4, <2>1
<1> QED
  BY <1>2, <1>3, <1>5, <1>6, <1>7 DEF j, s, t

\* The header stays where it is.
LEMMA HeaderStays ==
    ASSUME NEW base \in Seq(Tokens), HasHeader(base), NEW more \in Seq(Tokens)
    PROVE  HasHeader(base \o more)
<1> DEFINE p == Len(base)
           q == Len(more)
           c == base \o more
<1>1. p \in Nat /\ q \in Nat /\ p >= 2
  BY LenProperties DEF HasHeader
<1>2. /\ Len(c) = p + q
      /\ \A i \in 1..p + q : c[i] = IF i <= p THEN base[i] ELSE more[i - p]
  BY ConcatProperties
<1> HIDE DEF c
<1>3. base[1].kind = "PTYX" /\ base[2].kind = "v1"
  BY DEF HasHeader
<1> HIDE DEF p, q
<1>4. Len(c) >= 2 /\ c[1] = base[1] /\ c[2] = base[2]
  BY <1>1, <1>2
<1> QED
  BY <1>3, <1>4 DEF HasHeader, c

\* What is true of a text is true with a line that is being written.
LEMMA OnLine ==
    ASSUME NEW events, Timed(events), NEW i \in Nat, i + 1 <= Len(events),
           NEW lost \in Nat, NEW base, Legible(base, events, i, lost),
           NEW m \in Nat, m < Len(LineText(events[i + 1]))
    PROVE  LET text == base \o SubSeq(LineText(events[i + 1]), 1, m)
           IN  /\ text \in Seq(Tokens) /\ HasHeader(text) /\ Ended(text)
               /\ Done(text) = Done(base)
               /\ Kept(Done(text), events, i + 1)
               /\ Begun(Rest(text), Done(text), events, i + 1)
               /\ Fine(text, events, lost)
<1> DEFINE event == events[i + 1]
           t == LineText(event)
           s == SubSeq(t, 1, m)
           text == base \o s
           done == Done(base)
           rest == Rest(base)
<1>1. /\ base \in Seq(Tokens) /\ HasHeader(base) /\ Ended(base)
      /\ Kept(done, events, i) /\ Begun(rest, done, events, i)
  BY DEF Legible
<1>2. /\ lost = 0 => Whole(done, events, i)
      /\ lost = 0 => rest = << >>
  <2>1. lost = 0 => Whole(done, events, i)
    BY DEF Legible
  <2>2. ASSUME lost = 0, rest # << >> PROVE FALSE
    <3>1. Len(done) = i
      BY <2>1, <2>2 DEF Whole
    <3>2. i - Len(done) + 1 <= 2 * lost
      BY <2>2 DEF Legible
    <3> HIDE DEF done
    <3> QED
      BY <2>2, <3>1, <3>2
  <2> QED
    BY <2>1, <2>2
<1>3. events \in Seq(Event) /\ Len(events) \in Nat /\ i + 1 \in 1..Len(events) /\ i + 1 \in 0..Len(events)
  <2>1. events \in Seq(Event) /\ Len(events) \in Nat
    BY LenProperties DEF Timed
  <2> QED
    BY <2>1
<1>4. event \in Event
  BY <1>3, ElementOfSeq
<1>5. t \in Seq(Tokens) /\ Len(t) \in Nat /\ m \in 0..Len(t) /\ m \in 0..m
  <2>1. t \in Seq(Tokens) /\ Len(t) \in Nat
    BY <1>4, LineShape, LenProperties
  <2> QED
    BY <2>1
<1>6. s \in Seq(Tokens)
  <2> HIDE DEF t
  <2> QED
    BY <1>5, PrefixOfPrefix
<1> HIDE DEF event
<1>7. text \in Seq(Tokens) /\ Ended(text) /\ Done(text) = done /\ Rest(text) = rest \o s
  BY <1>1, <1>4, WriteOn DEF event
<1>8. HasHeader(text)
  BY <1>1, <1>6, HeaderStays
<1>9. rest \in Seq(Tokens) /\ done \in Seq(ParsedEvent) /\ Len(done) \in Nat
  BY <1>1, EndedType, LenProperties
<1> HIDE DEF done, rest, s
<1>10. Kept(done, events, i + 1)
  <2>1. \A e \in 1..i : e \in 1..i + 1
    OBVIOUS
  <2> QED
    BY <1>1, <2>1 DEF Kept
<1>11. Begun(rest \o s, done, events, i + 1)
  <2>1. CASE rest = << >>
    <3>1. rest \o s = s
      BY <1>6, <2>1, ConcatEmptySeq
    <3>2. \A k \in 1..Len(done) : done[k].elapsed < i + 1
      <4>1. \A e \in 1..i : e < i + 1
        OBVIOUS
      <4> QED
        BY <1>1, <4>1 DEF Kept
    <3>3. i + 1 \in 1..i + 1
      OBVIOUS
    <3> QED
      BY <3>1, <3>2, <3>3 DEF Begun, s, t, event
  <2>2. CASE rest # << >> /\ m = 0
    <3>1. s = << >>
      BY <2>2, SubSeqEmpty DEF s
    <3>2. rest \o s = rest
      BY <1>9, <3>1, ConcatEmptySeq
    <3>3. \A j \in 1..i : j \in 1..i + 1
      OBVIOUS
    <3> QED
      BY <1>1, <3>2, <3>3 DEF Begun
  <2>3. CASE rest # << >> /\ m # 0
    <3>1. m \in 1..Len(t)
      BY <1>5, <2>3
    <3>2. \E p \in 2..Len(rest \o s) : (rest \o s)[p].kind \in {"I", "O"}
      BY <1>4, <1>9, <2>3, <3>1, JoinedLine DEF s
    <3> QED
      BY <3>2 DEF Begun
  <2> QED
    BY <2>1, <2>2, <2>3
<1>12. Fine(text, events, lost)
  <2>1. Genuine(ReadOf(text), events)
    <3> HIDE DEF text
    <3> QED
      BY <1>3, <1>7, <1>8, <1>10, <1>11, GenuineText
  <2>2. ASSUME lost = 0 PROVE CutShort(ReadOf(text), events)
    <3>1. Rest(text) = s
      BY <1>2, <1>6, <1>7, <2>2, ConcatEmptySeq
    <3>2. Whole(Done(text), events, i) /\ i < Len(events) /\ i \in 0..Len(events)
      BY <1>2, <1>3, <1>7, <2>2
    <3>3. m < Len(LineText(events[i + 1])) /\ Rest(text) = SubSeq(LineText(events[i + 1]), 1, m)
      BY <3>1 DEF s, t, event
    <3> HIDE DEF text
    <3> QED
      BY <1>7, <1>8, <3>2, <3>3, CutShortText
  <2> QED
    BY <2>1, <2>2 DEF Fine
<1> QED
  BY <1>7, <1>8, <1>10, <1>11, <1>12 DEF text, s, t, event, done

\* A whole line is one event more, unless it was appended to an unfinished one.
LEMMA LineEnd ==
    ASSUME NEW events, Timed(events), NEW i \in Nat, i + 1 <= Len(events),
           NEW lost \in Nat, NEW base, Legible(base, events, i, lost)
    PROVE  LET text == base \o LineText(events[i + 1])
           IN  /\ text \in Seq(Tokens) /\ HasHeader(text) /\ Ended(text)
               /\ Kept(Done(text), events, i + 1)
               /\ Rest(text) = << >>
               /\ i + 1 - Len(Done(text)) <= 2 * lost
               /\ lost = 0 => Whole(Done(text), events, i + 1)
               /\ Fine(text, events, lost)
<1> DEFINE event == events[i + 1]
           t == LineText(event)
           line == SubSeq(t, 1, Len(t) - 1)
           text == base \o t
           done == Done(base)
           rest == Rest(base)
           n == Len(done)
<1>1. /\ base \in Seq(Tokens) /\ HasHeader(base) /\ Ended(base)
      /\ Kept(done, events, i)
      /\ lost = 0 => Whole(done, events, i)
  BY DEF Legible
<1>2. events \in Seq(Event) /\ i + 1 \in 1..Len(events) /\ i + 1 \in 0..Len(events)
  <2>1. events \in Seq(Event) /\ Len(events) \in Nat
    BY LenProperties DEF Timed
  <2> QED
    BY <2>1
<1>3. event \in Event /\ event.elapsed = i + 1
  BY <1>2, ElementOfSeq DEF Timed
<1>4. t \in Seq(Tokens) /\ Len(t) \in Nat /\ Len(t) - 1 \in Nat /\ Len(t) - 1 < Len(t)
      /\ Len(t) - 1 \in 1..Len(t)
  <2>1. Len(event.data) \in Nat
    BY <1>3, LenProperties DEF Event
  <2>2. t \in Seq(Tokens) /\ Len(t) = 2 * Len(event.data) + 5
    BY <1>3, LineShape
  <2> HIDE DEF t, event
  <2> QED
    BY <2>1, <2>2
<1> HIDE DEF event
<1>5. /\ text \in Seq(Tokens) /\ Ended(text)
      /\ Done(text) = done \o ParseEventLine(rest \o line)
      /\ Rest(text) = << >>
  BY <1>1, <1>3, WriteEnd
<1>6. HasHeader(text)
  BY <1>1, <1>4, HeaderStays
<1>7. rest \in Seq(Tokens) /\ done \in Seq(ParsedEvent) /\ n \in Nat
  BY <1>1, EndedType, LenProperties
<1>8. /\ rest = << >> => i - n <= 2 * lost
      /\ rest # << >> => i - n + 1 <= 2 * lost
  BY DEF Legible
<1>9. line \in Seq(Tokens)
  <2> DEFINE m == Len(t) - 1
  <2>1. m \in 0..Len(t) /\ m \in 0..m
    BY <1>4
  <2> HIDE DEF m, t
  <2>2. SubSeq(t, 1, m) \in Seq(Tokens)
    BY <1>4, <2>1, PrefixOfPrefix
  <2> QED
    BY <2>2 DEF m
<1> HIDE DEF t, text, done, rest
<1>10. /\ Kept(Done(text), events, i + 1)
       /\ i + 1 - Len(Done(text)) <= 2 * lost
       /\ lost = 0 => Whole(Done(text), events, i + 1)
  <2>1. CASE rest = << >>
    <3>1. rest \o line = line
      BY <1>9, <2>1, ConcatEmptySeq
    <3>2. ParseEventLine(line) = << event >>
      <4> DEFINE m == Len(t) - 1
      <4>1. m \in Nat /\ m < Len(t)
        BY <1>4
      <4> HIDE DEF m
      <4>2. m = Len(LineText(event)) - 1 => ParseEventLine(SubSeq(LineText(event), 1, m)) = << event >>
        BY <1>3, <4>1, ParsePrefix DEF t
      <4> QED
        BY <4>2 DEF m, t
    <3>3. event \in ParsedEvent
      <4>1. << event >> \in Seq(ParsedEvent)
        BY <1>9, <3>2, ParseType
      <4> QED
        BY <4>1, ElementOfSeq
    <3> DEFINE more == Append(done, event)
    <3>4. Done(text) = more
      <4>1. more = done \o << event >>
        BY <1>7, <3>3, AppendIsConcat
      <4> QED
        BY <1>5, <3>1, <3>2, <4>1
    <3>5. /\ Len(more) = n + 1 /\ more[n + 1] = event
          /\ \A k \in 1..n : more[k] = done[k]
      BY <1>7, <3>3, AppendProperties
    <3> HIDE DEF more, n
    <3>6. /\ \A k \in 1..n : done[k].elapsed \in 1..i /\ done[k] = events[done[k].elapsed]
          /\ \A k \in 2..n : done[k - 1].elapsed < done[k].elapsed
      BY <1>1 DEF Kept, n
    <3>7. /\ \A k \in 1..n + 1 : k \in 1..n \/ k = n + 1
          /\ \A k \in 2..n + 1 : k - 1 \in 1..n /\ (k \in 2..n \/ k = n + 1)
          /\ n + 1 - 1 = n
          /\ \A e \in 1..i : e \in 1..i + 1 /\ e < i + 1
      BY <1>7
    <3>8. \A k \in 1..n + 1 : more[k].elapsed \in 1..i + 1 /\ more[k] = events[more[k].elapsed]
      <4>1. i + 1 \in 1..i + 1 /\ event = events[event.elapsed]
        BY <1>3 DEF event
      <4> QED
        BY <1>3, <3>5, <3>6, <3>7, <4>1
    <3>9. \A k \in 2..n + 1 : more[k - 1].elapsed < more[k].elapsed
      <4> TAKE k \in 2..n + 1
      <4>1. k - 1 \in 1..n /\ more[k - 1] = done[k - 1]
        BY <3>5, <3>7
      <4>2. CASE k \in 2..n
        <5>1. k \in 1..n /\ more[k] = done[k]
          BY <3>5, <4>2, <1>7
        <5> QED
          BY <3>6, <4>1, <4>2, <5>1
      <4>3. CASE k = n + 1
        <5>1. done[k - 1].elapsed < i + 1
          BY <3>6, <3>7, <4>1
        <5> QED
          BY <1>3, <3>5, <4>1, <4>3, <5>1
      <4> QED
        BY <3>7, <4>2, <4>3
    <3>10. Kept(more, events, i + 1)
      BY <3>5, <3>8, <3>9 DEF Kept
    <3>11. i + 1 - Len(more) <= 2 * lost
      BY <1>7, <1>8, <2>1, <3>5
    <3>12. ASSUME lost = 0 PROVE Whole(more, events, i + 1)
      <4>1. n = i /\ \A k \in 1..i : done[k] = events[k]
        BY <1>1, <3>12 DEF Whole, n
      <4> QED
        BY <3>5, <3>7, <4>1 DEF Whole, event
    <3> QED
      BY <3>4, <3>10, <3>11, <3>12
  <2>2. CASE rest # << >>
    <3>1. /\ rest \o line \in Seq(Tokens)
          /\ \E p \in 2..Len(rest \o line) : (rest \o line)[p].kind \in {"I", "O"}
      BY <1>3, <1>4, <1>7, <2>2, JoinedLine DEF t
    <3>2. ParseEventLine(rest \o line) = << >>
      <4> HIDE DEF line
      <4> QED
        BY <3>1, InnerLetter
    <3>3. Done(text) = done
      BY <1>5, <1>7, <3>2, ConcatEmptySeq
    <3>4. Kept(done, events, i + 1)
      <4>1. \A e \in 1..i : e \in 1..i + 1
        OBVIOUS
      <4> QED
        BY <1>1, <4>1 DEF Kept
    <3> HIDE DEF n
    <3>5. i + 1 - n <= 2 * lost
      BY <1>7, <1>8, <2>2
    <3>6. lost # 0
      <4>1. lost = 0 => n = i
        BY <1>1 DEF Whole, n
      <4> QED
        BY <1>7, <3>5, <4>1
    <3> QED
      BY <3>3, <3>4, <3>5, <3>6 DEF n
  <2> QED
    BY <2>1, <2>2
<1>11. Fine(text, events, lost)
  <2>1. Begun(Rest(text), Done(text), events, i + 1)
    BY <1>5 DEF Begun
  <2>2. Genuine(ReadOf(text), events)
    BY <1>2, <1>5, <1>6, <1>10, <2>1, GenuineText
  <2>3. lost = 0 => CutShort(ReadOf(text), events)
    BY <1>2, <1>5, <1>6, <1>10, CutShortText
  <2> QED
    BY <2>2, <2>3 DEF Fine
<1> QED
  BY <1>5, <1>6, <1>10, <1>11 DEF text, t, event

\* However much of the line has reached the text, it can be read.
LEMMA LinePrefixes ==
    ASSUME NEW events, Timed(events), NEW i \in Nat, i + 1 <= Len(events),
           NEW lost \in Nat, NEW base, Legible(base, events, i, lost),
           NEW k \in 0..Len(base \o LineText(events[i + 1]))
    PROVE  Fine(SubSeq(base \o LineText(events[i + 1]), 1, k), events, lost)
<1> DEFINE event == events[i + 1]
           t == LineText(event)
           p == Len(base)
           n == Len(t)
           text == base \o t
<1>1. base \in Seq(Tokens) /\ \A j \in 0..p : Fine(SubSeq(base, 1, j), events, lost)
  BY DEF Legible
<1>2. event \in Event
  <2>1. events \in Seq(Event) /\ Len(events) \in Nat
    BY LenProperties DEF Timed
  <2>2. i + 1 \in 1..Len(events)
    BY <2>1
  <2> QED
    BY <2>1, <2>2, ElementOfSeq
<1>3. t \in Seq(Tokens) /\ n \in Nat /\ p \in Nat
  BY <1>1, <1>2, LineShape, LenProperties
<1> HIDE DEF t
<1>4. text \in Seq(Tokens) /\ Len(text) = p + n
  BY <1>1, <1>3, ConcatProperties
<1>5. k \in 0..p + n
  BY <1>4 DEF t
<1>6. SubSeq(text, 1, k) = IF k <= p THEN SubSeq(base, 1, k) ELSE base \o SubSeq(t, 1, k - p)
  BY <1>1, <1>3, <1>5, PrefixOfConcat
<1>7. CASE k <= p
  <2>1. k \in 0..p
    BY <1>3, <1>5, <1>7
  <2> QED
    BY <1>1, <1>6, <1>7, <2>1 DEF t
<1>8. CASE ~(k <= p) /\ k - p < n
  <2> DEFINE m == k - p
  <2>1. m \in Nat /\ m < n
    BY <1>3, <1>5, <1>8
  <2> HIDE DEF m, p
  <2>2. Fine(base \o SubSeq(t, 1, m), events, lost)
    BY <2>1, OnLine DEF t
  <2>3. SubSeq(text, 1, k) = base \o SubSeq(t, 1, m)
    BY <1>6, <1>8 DEF m
  <2> QED
    BY <2>2, <2>3 DEF t
<1>9. CASE ~(k <= p) /\ ~(k - p < n)
  <2>1. k = Len(text)
    <3> HIDE DEF p, n, text
    <3> QED
      BY <1>3, <1>4, <1>5, <1>9
  <2>2. SubSeq(text, 1, k) = text
    <3> HIDE DEF text
    <3> QED
      BY <1>4, <2>1, SubSeqFull
  <2>3. Fine(text, events, lost)
    BY LineEnd DEF t
  <2> QED
    BY <2>2, <2>3 DEF t
<1> QED
  BY <1>7, <1>8, <1>9

\* A whole line loses nothing ...
LEMMA WholeLine ==
    ASSUME NEW events, Timed(events), NEW i \in Nat, i + 1 <= Len(events),
           NEW lost \in Nat, NEW base, Legible(base, events, i, lost)
    PROVE  Legible(base \o LineText(events[i + 1]), events, i + 1, lost)
<1> DEFINE text == base \o LineText(events[i + 1])
<1>1. /\ text \in Seq(Tokens) /\ HasHeader(text) /\ Ended(text)
      /\ Kept(Done(text), events, i + 1)
      /\ Rest(text) = << >>
      /\ i + 1 - Len(Done(text)) <= 2 * lost
      /\ lost = 0 => Whole(Done(text), events, i + 1)
  BY LineEnd
<1>2. \A k \in 0..Len(text) : Fine(SubSeq(text, 1, k), events, lost)
  BY LinePrefixes
<1> HIDE DEF text
<1>3. Begun(Rest(text), Done(text), events, i + 1)
  BY <1>1 DEF Begun
<1>4. Legible(text, events, i + 1, lost)
  BY <1>1, <1>2, <1>3 DEF Legible
<1> QED
  BY <1>4 DEF text

\* ... and an unfinished one at most itself and the next.
LEMMA CutLine ==
    ASSUME NEW events, Timed(events), NEW i \in Nat, i + 1 <= Len(events),
           NEW lost \in Nat, NEW base, Legible(base, events, i, lost),
           NEW m \in 0..Len(LineText(events[i + 1]))
    PROVE  Legible(base \o SubSeq(LineText(events[i + 1]), 1, m), events, i + 1, lost + 1)
<1> DEFINE event == events[i + 1]
           t == LineText(event)
           text == base \o SubSeq(t, 1, m)
           all == base \o t
           p == Len(base)
<1>1. event \in Event
  <2>1. events \in Seq(Event) /\ Len(events) \in Nat
    BY LenProperties DEF Timed
  <2>2. i + 1 \in 1..Len(events)
    BY <2>1
  <2> QED
    BY <2>1, <2>2, ElementOfSeq
<1>2. base \in Seq(Tokens)
  BY DEF Legible
<1>3. t \in Seq(Tokens) /\ Len(t) \in Nat /\ p \in Nat
  BY <1>1, <1>2, LineShape, LenProperties
<1>4. all \in Seq(Tokens) /\ Len(all) = p + Len(t)
  BY <1>2, <1>3, ConcatProperties
<1>5. text = SubSeq(all, 1, p + m)
  <2> DEFINE k == p + m
  <2>1. k \in 0..p + Len(t) /\ k - p = m /\ (k <= p => m = 0 /\ k = p)
    BY <1>3
  <2> HIDE DEF k, t, all
  <2>2. SubSeq(all, 1, k) = IF k <= p THEN SubSeq(base, 1, k) ELSE base \o SubSeq(t, 1, k - p)
    BY <1>2, <1>3, <2>1, PrefixOfConcat DEF all
  <2>3. ASSUME k <= p PROVE SubSeq(base, 1, k) = base \o SubSeq(t, 1, m)
    <3>1. SubSeq(base, 1, p) = base
      BY <1>2, SubSeqFull
    <3>2. SubSeq(t, 1, 0) = << >> /\ base \o << >> = base
      BY <1>2, SubSeqEmpty, ConcatEmptySeq
    <3> QED
      BY <2>1, <2>3, <3>1, <3>2
  <2> QED
    BY <2>1, <2>2, <2>3 DEF k
<1>6. \A k \in 0..Len(all) : Fine(SubSeq(all, 1, k), events, lost)
  BY LinePrefixes
<1>7. /\ Len(text) = p + m
      /\ \A k \in 0..p + m : Fine(SubSeq(text, 1, k), events, lost + 1)
  <2> DEFINE j == p + m
  <2>1. j \in 0..Len(all) /\ j \in 0..j
    <3> HIDE DEF all, p, t
    <3> QED
      BY <1>3, <1>4 DEF t
  <2> HIDE DEF j, all
  <2>2. Len(SubSeq(all, 1, j)) = j
    BY <1>4, <2>1, PrefixOfPrefix
  <2>3. ASSUME NEW k \in 0..j PROVE Fine(SubSeq(text, 1, k), events, lost + 1)
    <3>1. SubSeq(SubSeq(all, 1, j), 1, k) = SubSeq(all, 1, k)
      BY <1>4, <2>1, PrefixOfPrefix
    <3>2. k \in 0..Len(all)
      BY <2>1
    <3>3. Fine(SubSeq(all, 1, k), events, lost)
      BY <1>6, <3>2
    <3>4. lost + 1 # 0
      OBVIOUS
    <3>5. Fine(SubSeq(all, 1, k), events, lost + 1)
      BY <3>3, <3>4 DEF Fine
    <3> QED
      BY <1>5, <3>1, <3>5 DEF j
  <2> QED
    BY <1>5, <2>2, <2>3 DEF j
<1>8. CASE m < Len(t)
  <2>1. m \in Nat
    OBVIOUS
  <2>2. /\ text \in Seq(Tokens) /\ HasHeader(text) /\ Ended(text)
        /\ Done(text) = Done(base)
        /\ Kept(Done(text), events, i + 1)
        /\ Begun(Rest(text), Done(text), events, i + 1)
    BY <1>8, <2>1, OnLine
  <2> HIDE DEF text
  <2> DEFINE n == Len(Done(base))
  <2>3. n \in Nat /\ i - n <= 2 * lost
    <3>1. n \in Nat
      BY <1>2, EndedType, LenProperties DEF Legible
    <3>2. i - n <= 2 * lost \/ i - n + 1 <= 2 * lost
      BY DEF Legible
    <3> HIDE DEF n
    <3> QED
      BY <3>1, <3>2
  <2>4. i + 1 - n + 1 <= 2 * (lost + 1) /\ i + 1 - n <= 2 * (lost + 1) /\ lost + 1 # 0
    <3> HIDE DEF n
    <3> QED
      BY <2>3
  <2>5. Legible(text, events, i + 1, lost + 1)
    BY <1>7, <2>2, <2>4 DEF Legible
  <2> QED
    BY <2>5 DEF text
<1>9. CASE ~(m < Len(t))
  <2>1. m = Len(t)
    BY <1>3, <1>9
  <2>2. SubSeq(t, 1, m) = t
    BY <1>3, <2>1, SubSeqFull
  <2>3. Legible(all, events, i + 1, lost)
    BY WholeLine
  <2>4. text = all
    BY <2>2
  <2> HIDE DEF text, all
  <2>5. lost + 1 # 0 /\ 2 * lost <= 2 * (lost + 1) /\ lost \in Nat
    OBVIOUS
  <2> DEFINE n == Len(Done(text))
  <2>6. n \in Nat /\ (Rest(text) = << >> => i + 1 - n <= 2 * lost)
        /\ (Rest(text) # << >> => i + 1 - n + 1 <= 2 * lost)
    <3>1. n \in Nat
      BY <2>3, <2>4, EndedType, LenProperties DEF Legible
    <3> QED
      BY <2>3, <2>4, <3>1 DEF Legible
  <2>7. /\ Rest(text) = << >> => i + 1 - n <= 2 * (lost + 1)
        /\ Rest(text) # << >> => i + 1 - n + 1 <= 2 * (lost + 1)
    <3> HIDE DEF n
    <3> QED
      BY <2>5, <2>6
  <2>8. Legible(text, events, i + 1, lost + 1)
    BY <1>7, <2>3, <2>4, <2>5, <2>7 DEF Legible
  <2> QED
    BY <2>8 DEF text
<1> QED
  BY <1>8, <1>9

\* One more event recorded takes nothing from what is there.
LEMMA MoreRecorded ==
    ASSUME NEW events, Timed(events), NEW event \in Event, event.elapsed = Len(events) + 1
    PROVE  /\ Timed(Append(events, event))
           /\ \A text, lost : Fine(text, events, lost) => Fine(text, Append(events, event), lost)
           /\ \A text, lost : \A i \in 0..Len(events) :
                Legible(text, events, i, lost) => Legible(text, Append(events, event), i, lost)
<1> DEFINE more == Append(events, event)
           n == Len(events)
<1>1. events \in Seq(Event) /\ n \in Nat /\ DOMAIN events = 1..n
      /\ \A k \in 1..n : events[k].elapsed = k
  BY LenProperties DEF Timed
<1>2. /\ more \in Seq(Event) /\ Len(more) = n + 1
      /\ \A k \in 1..n : more[k] = events[k]
      /\ more[n + 1] = event
  BY <1>1, AppendProperties
<1>3. DOMAIN more = 1..n + 1
  BY <1>2, LenProperties
<1> HIDE DEF more, n
<1>4. /\ \A k \in 1..n + 1 : k \in 1..n \/ k = n + 1
      /\ \A k \in 1..n : k \in 1..n + 1
  BY <1>1
<1>5. Timed(more)
  BY <1>1, <1>2, <1>4 DEF Timed, n
<1>6. ASSUME NEW text, NEW lost, Fine(text, events, lost)
      PROVE  Fine(text, more, lost)
  <2> DEFINE read == ReadOf(text)
  <2> HIDE DEF read
  <2>1. Genuine(read, more)
    <3>1. Genuine(read, events)
      BY <1>6 DEF Fine, read
    <3> QED
      BY <1>1, <1>2, <1>3, <1>4, <3>1 DEF Genuine
  <2>2. ASSUME lost = 0 PROVE CutShort(read, more)
    <3> DEFINE r == Len(read)
    <3>1. CutShort(read, events)
      BY <1>6, <2>2 DEF Fine, read
    <3>2. /\ r \in 0..n
          /\ \A k \in 1..r : k < r => read[k] = events[k]
          /\ r > 0 => \E j \in 0..Len(events[r].data) : read[r] = Beginning(events[r], j)
      BY <3>1 DEF CutShort, n
    <3> HIDE DEF r
    <3>4. /\ r \in 0..n + 1 /\ (r > 0 => r \in 1..n)
          /\ \A k \in 1..r : k \in 1..n
      BY <1>1, <3>2
    <3>5. \A k \in 1..r : k < r => read[k] = more[k]
      BY <1>2, <3>2, <3>4
    <3>6. r > 0 => \E j \in 0..Len(more[r].data) : read[r] = Beginning(more[r], j)
      BY <1>2, <3>2, <3>4
    <3> QED
      BY <1>2, <3>4, <3>5, <3>6 DEF CutShort, r
  <2> QED
    BY <2>1, <2>2 DEF Fine, read
<1>7. ASSUME NEW text, NEW lost, NEW i \in 0..n, Legible(text, events, i, lost)
      PROVE  Legible(text, more, i, lost)
  <2>1. \A k \in 1..i : k \in 1..n /\ more[k] = events[k]
    BY <1>1, <1>2
  <2>2. \A k \in 0..Len(text) : Fine(SubSeq(text, 1, k), more, lost)
    BY <1>6, <1>7 DEF Legible
  <2>3. Kept(Done(text), more, i)
    <3>1. Kept(Done(text), events, i)
      BY <1>7 DEF Legible
    <3> QED
      BY <2>1, <3>1 DEF Kept
  <2>4. Begun(Rest(text), Done(text), more, i)
    <3>1. Begun(Rest(text), Done(text), events, i)
      BY <1>7 DEF Legible
    <3> QED
      BY <2>1, <3>1 DEF Begun
  <2>5. lost = 0 => Whole(Done(text), more, i)
    <3>1. lost = 0 => Whole(Done(text), events, i)
      BY <1>7 DEF Legible
    <3> QED
      BY <2>1, <3>1 DEF Whole
  <2> QED
    BY <1>7, <2>2, <2>3, <2>4, <2>5 DEF Legible
<1> QED
  BY <1>5, <1>6, <1>7 DEF more, n

\* A text that is still in its first line has no events.
LEMMA FirstLine ==
    ASSUME NEW text \in Seq(Tokens), Len(Cut(text)) = 1
    PROVE  ParseSession(text) = << >>
<1> DEFINE c == Cut(text)
           l == Lines(text)
<1>1. l = IF Last(c) = << >> THEN SubSeq(c, 1, 0) ELSE c
  BY DEF Lines, Front
<1>2. SubSeq(c, 1, 0) = << >>
  BY SubSeqEmpty
<1>3. Len(l) \in {0, 1}
  <2> HIDE DEF c
  <2> QED
    BY <1>1, <1>2 DEF c
<1> HIDE DEF l
<1>4. Parsed(l, Len(l) - 1) = << >>
  <2>1. 1..Len(l) - 1 = {}
    <3>1. Len(l) - 1 = -1 \/ Len(l) - 1 = 0
      BY <1>3
    <3>2. 1..-1 = {} /\ 1..0 = {}
      OBVIOUS
    <3> QED
      BY <3>1, <3>2
  <2>2. Parsed(l, Len(l) - 1) = [j \in {} |-> ParseEventLine(l[j + 1])]
    BY <2>1 DEF Parsed
  <2> QED
    BY <2>2
<1>5. ParseSession(text) = FlattenSeq(Parsed(l, Len(l) - 1))
  BY DEF ParseSession, Parsed, l
<1> QED
  BY <1>4, <1>5, FlattenEmpty

\* What a reader gets is a sequence of events.
LEMMA ReadType ==
    ASSUME NEW text \in Seq(Tokens)
    PROVE  ReadOf(text) \in Seq(ParsedEvent)
<1>1. << >> \in Seq(ParsedEvent)
  OBVIOUS
<1>2. CASE Ended(text)
  <2>1. Done(text) \in Seq(ParsedEvent) /\ ParseEventLine(Rest(text)) \in Seq(ParsedEvent)
    BY <1>2, EndedType, ParseType
  <2>2. Done(text) \o ParseEventLine(Rest(text)) \in Seq(ParsedEvent)
    BY <2>1, ConcatProperties
  <2> QED
    BY <1>1, <1>2, <2>2, ParseReads DEF ReadOf
<1>3. CASE ~Ended(text)
  <2> DEFINE n == Len(Cut(text))
  <2>1. n \in Nat /\ n # 0
    BY CutType, EmptySeq DEF Cutting
  <2>2. ~(n > 1)
    BY <1>3 DEF Ended
  <2> HIDE DEF n
  <2>3. n = 1
    BY <2>1, <2>2
  <2> QED
    BY <1>1, <2>3, FirstLine DEF ReadOf, n
<1> QED
  BY <1>2, <1>3

\* The header alone is a session without events, and a part of it none.
LEMMA HeaderLegible == Timed(<< >>) /\ Legible(Header, << >>, 0, 0)
<1> DEFINE h == Header
           p(k) == SubSeq(h, 1, k)
           T == {k \in Nat : k <= 3 => Len(Cut(p(k))) = 1}
<1>1. /\ h \in Seq(Tokens) /\ Len(h) = 4 /\ h[4] = Newline
      /\ h[1].kind = "PTYX" /\ h[2].kind = "v1"
      /\ h[1] # Newline /\ h[2] # Newline /\ h[3] # Newline
      /\ \A k \in 1..4 : h[k] \in Tokens
  <2>1. /\ Token("PTYX", 0) \in Tokens /\ Token("v1", 0) \in Tokens
        /\ Number(0) \in Tokens /\ Newline \in Tokens
    BY DEF Token, Number, Newline, Tokens, Kinds
  <2>2. h = <<Token("PTYX", 0), Token("v1", 0), Number(0), Newline>>
    BY DEF Header
  <2>3. /\ h \in Seq(Tokens) /\ Len(h) = 4 /\ h[4] = Newline
        /\ h[1] = Token("PTYX", 0) /\ h[2] = Token("v1", 0) /\ h[3] = Number(0)
    <3> HIDE DEF h
    <3> QED
      BY <2>1, <2>2
  <2> HIDE DEF h
  <2>4. \A k \in 1..4 : h[k] \in Tokens
    BY <2>3, ElementOfSeq
  <2> QED
    BY <2>3, <2>4 DEF Token, Number, Newline
<1> HIDE DEF h
<1>2. \A k \in 0..4 : p(k) \in Seq(Tokens) /\ Len(p(k)) = k
  <2> TAKE k \in 0..4
  <2>1. k \in 0..Len(h) /\ k \in 0..k
    BY <1>1
  <2> QED
    BY <1>1, <2>1, PrefixOfPrefix
<1>3. \A k \in 0..3 : p(k + 1) = Append(p(k), h[k + 1])
  <2> TAKE k \in 0..3
  <2>1. k \in Nat /\ k + 1 <= Len(h) /\ k \in 0..4 /\ k + 1 \in 0..4
    BY <1>1
  <2>2. << >> \o p(k + 1) = Append(<< >> \o p(k), h[k + 1])
    <3>1. << >> \in Seq(Tokens)
      OBVIOUS
    <3> QED
      BY <1>1, <2>1, <3>1, GrowPrefix
  <2>3. << >> \o p(k + 1) = p(k + 1) /\ << >> \o p(k) = p(k)
    <3> HIDE DEF p
    <3>1. p(k) \in Seq(Tokens) /\ p(k + 1) \in Seq(Tokens)
      BY <1>2, <2>1
    <3> QED
      BY <3>1, ConcatEmptySeq
  <2> HIDE DEF p
  <2> QED
    BY <2>2, <2>3
<1>4. p(0) = << >>
  BY SubSeqEmpty
<1> HIDE DEF p
<1>5. 0 \in T
  BY <1>4, CutEmpty
<1>6. ASSUME NEW k \in Nat, k \in T PROVE k + 1 \in T
  <2> SUFFICES ASSUME k + 1 <= 3 PROVE Len(Cut(p(k + 1))) = 1
    OBVIOUS
  <2> DEFINE c == Cut(p(k))
             e == h[k + 1]
  <2>1. k \in 0..3 /\ k \in 0..4 /\ k + 1 \in 1..4 /\ k <= 3 /\ k + 1 \in {1, 2, 3}
    OBVIOUS
  <2>2. Len(c) = 1
    BY <1>6, <2>1
  <2>3. p(k) \in Seq(Tokens) /\ e \in Tokens /\ e # Newline
    BY <1>1, <1>2, <2>1
  <2>4. Cut(p(k + 1)) = CutBy(c, e)
    BY <1>3, <2>1, <2>3, CutAppend
  <2>5. c \in Seq(Seq(Tokens))
    BY <2>3, CutType DEF Cutting
  <2> HIDE DEF c, e
  <2>6. c[1] \in Seq(Tokens) /\ 1 \in 1..Len(c)
    BY <2>2, <2>5, ElementOfSeq
  <2>7. Append(c[1], e) \in Seq(Tokens)
    BY <2>3, <2>6
  <2>8. Len([c EXCEPT ![1] = Append(c[1], e)]) = 1
    <3> DEFINE S == Seq(Tokens)
    <3> HIDE DEF S
    <3>1. c \in Seq(S) /\ Append(c[1], e) \in S
      BY <2>5, <2>7 DEF S
    <3> QED
      BY <2>2, <2>6, <3>1, ExceptSeq
  <2> QED
    BY <2>2, <2>3, <2>4, <2>8 DEF CutBy
<1>7. \A k \in 0..3 : Len(Cut(p(k))) = 1
  <2> HIDE DEF T
  <2>1. \A k \in Nat : k \in T
    BY <1>5, <1>6, SetInduction
  <2> QED
    BY <2>1 DEF T
<1>8. \A k \in 0..3 : ReadOf(p(k)) = << >>
  <2> TAKE k \in 0..3
  <2>1. p(k) \in Seq(Tokens) /\ Len(Cut(p(k))) = 1
    BY <1>2, <1>7
  <2> QED
    BY <2>1, FirstLine DEF ReadOf
<1>9. /\ Ended(h) /\ Done(h) = << >> /\ Rest(h) = << >>
  <2> DEFINE c == Cut(p(3))
             d == Cut(h)
  <2>1. p(4) = h
    BY <1>1, SubSeqFull DEF p
  <2>2. p(3) \in Seq(Tokens) /\ Newline \in Tokens /\ 3 + 1 = 4 /\ 3 \in 0..3 /\ 3 \in 0..4
    <3>1. 3 \in 0..4 /\ 4 \in 1..4
      OBVIOUS
    <3> QED
      BY <1>1, <1>2, <3>1
  <2>3. h = Append(p(3), Newline)
    <3>1. p(3 + 1) = Append(p(3), h[3 + 1])
      BY <1>3, <2>2
    <3> QED
      BY <1>1, <2>1, <2>2, <3>1
  <2>4. d = Append(c, << >>)
    <3>1. Cut(Append(p(3), Newline)) = CutBy(c, Newline)
      BY <2>2, CutAppend
    <3> QED
      BY <2>3, <3>1 DEF CutBy
  <2>5. c \in Seq(Seq(Tokens)) /\ Len(c) = 1
    BY <1>7, <2>2, CutType DEF Cutting
  <2>6. Len(d) = 2 /\ d[2] = << >>
    <3> DEFINE S == Seq(Tokens)
    <3>1. << >> \in S
      OBVIOUS
    <3> HIDE DEF c, d, S
    <3>2. /\ Len(Append(c, << >>)) = Len(c) + 1
          /\ Append(c, << >>)[Len(c) + 1] = << >>
      BY <2>5, <3>1, AppendProperties DEF S
    <3>3. Len(c) + 1 = 2
      BY <2>5
    <3> QED
      BY <2>4, <3>2, <3>3
  <2> HIDE DEF d
  <2>7. Done(h) = FlattenSeq(Parsed(d, 0))
    BY <2>6 DEF Done, d
  <2>8. Parsed(d, 0) = << >>
    BY DEF Parsed
  <2> QED
    BY <2>6, <2>7, <2>8, FlattenEmpty DEF Ended, Rest, Last, d
<1>10. HasHeader(h) /\ ReadOf(h) = << >>
  <2>1. HasHeader(h)
    BY <1>1 DEF HasHeader
  <2>2. ReadOf(h) = Done(h) \o ParseEventLine(Rest(h))
    BY <1>1, <1>9, <2>1, ParseReads DEF ReadOf
  <2>3. << >> \in Seq(Tokens) /\ Len(<< >>) < 4
    OBVIOUS
  <2>4. ParseEventLine(<< >>) = << >>
    BY <2>3, ParseType
  <2>5. << >> \o << >> = << >>
    BY <2>3, ConcatEmptySeq
  <2> QED
    BY <1>9, <2>1, <2>2, <2>4, <2>5
<1>11. \A text : ReadOf(text) = << >> => Fine(text, << >>, 0)
  <2>1. Genuine(<< >>, << >>) /\ CutShort(<< >>, << >>)
    BY DEF Genuine, CutShort
  <2> QED
    BY <2>1 DEF Fine
<1>12. \A k \in 0..4 : Fine(p(k), << >>, 0)
  <2>1. p(4) = h
    BY <1>1, SubSeqFull DEF p
  <2>2. \A k \in 0..4 : k \in 0..3 \/ k = 4
    OBVIOUS
  <2> QED
    BY <1>8, <1>10, <1>11, <2>1, <2>2
<1>13. Timed(<< >>)
  BY DEF Timed
<1>14. Kept(<< >>, << >>, 0) /\ Whole(<< >>, << >>, 0) /\ Begun(<< >>, << >>, << >>, 0)
  BY DEF Kept, Whole, Begun
<1>15. 0 - Len(<< >>) <= 2 * 0
  OBVIOUS
<1>16. Legible(h, << >>, 0, 0)
  BY <1>1, <1>9, <1>10, <1>12, <1>14, <1>15 DEF Legible, p
<1> QED
  BY <1>13, <1>16 DEF h

-----------------------------------------------------------------------------
\* What is replayed.

\* What an event shows.
Show(event) == IF event.direction = "O" THEN event.data ELSE << >>
Shows(events) == [i \in DOMAIN events |-> Show(events[i])]

\* What a text begins with is a prefix of it.
LEMMA ConcatPrefix ==
    ASSUME NEW S, NEW s \in Seq(S), NEW t \in Seq(S)
    PROVE  IsPrefix(s, s \o t)
<1> DEFINE p == Len(s)
           q == Len(t)
           c == s \o t
<1>1. p \in Nat /\ q \in Nat
  BY LenProperties
<1>2. p \in 0..p + q /\ p <= p + q /\ p <= p
  BY <1>1
<1>3. Len(c) = p + q
  BY ConcatProperties
<1>4. SubSeq(c, 1, p) = SubSeq(s, 1, p)
  BY <1>2, PrefixOfConcat
<1> HIDE DEF c, p
<1>5. IsPrefix(s, c)
  BY <1>2, <1>3, <1>4 DEF IsPrefix, p
<1> QED
  BY <1>5 DEF c

\* What is shown, grouped otherwise.
LEMMA BytesAssociative == \A a, b, c \in Seq(Nat) : (a \o b) \o c = a \o (b \o c)
BY ConcatAssociative

\* A session that is cut short shows a beginning of what it showed.
LEMMA ShownPrefix ==
    ASSUME NEW events \in Seq(Event), NEW read \in Seq(ParsedEvent), CutShort(read, events)
    PROVE  IsPrefix(Shown(read), Shown(events))
<1> DEFINE n == Len(read)
           m == Len(events)
           D == Seq(Nat)
           e == events[n]
           f == read[n]
           A == [k \in 1..n - 1 |-> Show(events[k])]
           B == [k \in 1..m - n |-> Show(events[n + k])]
           x == Show(f)
           y == Show(e)
<1>1. /\ n \in 0..m /\ m \in Nat /\ n \in Nat
      /\ \A k \in 1..n : k < n => read[k] = events[k]
      /\ n > 0 => \E j \in 0..Len(e.data) : f = Beginning(e, j)
      /\ DOMAIN read = 1..n /\ DOMAIN events = 1..m
      /\ \A k \in 1..m : events[k] \in Event
  BY LenProperties, ElementOfSeq DEF CutShort
<1>2. \A ev \in Event : Show(ev) \in D
  <2>1. \A ev \in Event : ev.data \in Seq(Bytes)
    BY DEF Event
  <2>2. Bytes \subseteq Nat
    BY BytesAssumption
  <2>3. \A s \in Seq(Bytes) : s \in Seq(Nat)
    BY <2>2, SeqMonotonic
  <2>4. << >> \in Seq(Nat)
    OBVIOUS
  <2> QED
    BY <2>1, <2>3, <2>4 DEF Show
<1>3. Shown(read) = FlattenSeq(Shows(read)) /\ Shown(events) = FlattenSeq(Shows(events))
  BY DEF Shown, Shows, Show
<1>4. Shows(events) \in Seq(D) /\ Len(Shows(events)) = m
      /\ \A k \in 1..m : Shows(events)[k] = Show(events[k])
  <2> HIDE DEF D, m
  <2>1. Shows(events) = [k \in 1..m |-> Show(events[k])]
    BY <1>1 DEF Shows
  <2>2. \A k \in 1..m : Show(events[k]) \in D
    BY <1>1, <1>2
  <2>3. [k \in 1..m |-> Show(events[k])] \in Seq(D)
    BY <1>1, <2>2
  <2> QED
    BY <1>1, <2>1, <2>3
<1>5. CASE n = 0
  <2>1. Shows(read) = << >>
    BY <1>1, <1>5 DEF Shows
  <2>2. Shown(read) = << >>
    BY <1>3, <2>1, FlattenEmpty
  <2>3. Shown(events) \in D /\ << >> \in D
    BY <1>3, <1>4, FlattenType
  <2>4. << >> \o Shown(events) = Shown(events)
    BY <2>3, ConcatEmptySeq
  <2>5. IsPrefix(<< >>, << >> \o Shown(events))
    BY <2>3, ConcatPrefix
  <2> QED
    BY <2>2, <2>4, <2>5
<1>6. CASE n # 0
  <2>1. PICK j \in 0..Len(e.data) : f = Beginning(e, j)
    BY <1>1, <1>6
  <2>2. e \in Event
    <3>1. n \in 1..m
      BY <1>1, <1>6
    <3> QED
      BY <1>1, <3>1
  <2>3. \E z \in D : y = x \o z /\ x \in D /\ y \in D
    <3> DEFINE d == e.data
               a == SubSeq(d, 1, j)
               b == SubSeq(d, j + 1, Len(d))
    <3>1. d \in Seq(Nat) /\ Len(d) \in Nat
      <4>1. d \in Seq(Bytes) /\ Bytes \subseteq Nat
        BY <2>2, BytesAssumption DEF Event
      <4> QED
        BY <4>1, SeqMonotonic, LenProperties
    <3>2. CASE e.direction = "O"
      <4>1. x = a /\ y = d
        BY <2>1, <3>2 DEF Show, Beginning
      <4>2. a \in D
        <5>1. j \in 0..j
          OBVIOUS
        <5> HIDE DEF d
        <5> QED
          BY <3>1, <5>1, PrefixOfPrefix DEF d
      <4>3. b \in D
        <5>1. \A i \in j + 1..Len(d) : d[i] \in Nat
          <6>1. \A i \in j + 1..Len(d) : i \in 1..Len(d)
            BY <3>1
          <6> QED
            BY <3>1, <6>1, ElementOfSeq
        <5>2. j + 1 \in Int /\ Len(d) \in Int
          BY <3>1
        <5> HIDE DEF d
        <5> QED
          BY <5>1, <5>2, SubSeqProperties
      <4>4. a \o b = d
        <5>1. 1 \in 1..Len(d) + 1 /\ j \in 1 - 1..Len(d) /\ Len(d) \in j..Len(d)
          BY <3>1
        <5>2. SubSeq(d, 1, j) \o SubSeq(d, j + 1, Len(d)) = SubSeq(d, 1, Len(d))
          <6> HIDE DEF d
          <6> QED
            BY <3>1, <5>1, ConcatAdjacentSubSeq
        <5>3. SubSeq(d, 1, Len(d)) = d
          BY <3>1, SubSeqFull
        <5> QED
          BY <5>2, <5>3
      <4> HIDE DEF a, b, d, x, y
      <4> QED
        BY <3>1, <4>1, <4>2, <4>3, <4>4
    <3>3. CASE e.direction # "O"
      <4>1. x = << >> /\ y = << >>
        BY <2>1, <3>3 DEF Show, Beginning
      <4>2. << >> \in D /\ << >> \o << >> = << >>
        <5>1. << >> \in D
          OBVIOUS
        <5> QED
          BY <5>1, ConcatEmptySeq
      <4> HIDE DEF x, y, D
      <4> QED
        BY <4>1, <4>2
    <3> QED
      BY <3>2, <3>3
  <2>4. PICK z \in D : y = x \o z /\ x \in D /\ y \in D
    BY <2>3
  <2> HIDE DEF x, y
  <2>5. A \in Seq(D) /\ Len(A) = n - 1 /\ \A k \in 1..n - 1 : A[k] = Show(events[k])
    <3>1. \A k \in 1..n - 1 : k \in 1..m
      BY <1>1
    <3>2. \A k \in 1..n - 1 : Show(events[k]) \in D
      BY <1>1, <1>2, <3>1
    <3>3. n - 1 \in Nat
      BY <1>1, <1>6
    <3> HIDE DEF n, D
    <3> QED
      BY <3>2, <3>3
  <2>6. B \in Seq(D) /\ Len(B) = m - n /\ \A k \in 1..m - n : B[k] = Show(events[n + k])
    <3>1. \A k \in 1..m - n : n + k \in 1..m
      BY <1>1
    <3>2. \A k \in 1..m - n : Show(events[n + k]) \in D
      BY <1>1, <1>2, <3>1
    <3>3. m - n \in Nat
      BY <1>1
    <3> HIDE DEF n, m, D
    <3> QED
      BY <3>2, <3>3
  <2> HIDE DEF A, B
  <2>7. Shows(read) = Append(A, x)
    <3>1. /\ Append(A, x) \in Seq(D) /\ Len(Append(A, x)) = Len(A) + 1
          /\ \A i \in 1..Len(A) : Append(A, x)[i] = A[i]
          /\ Append(A, x)[Len(A) + 1] = x
      <4> HIDE DEF D
      <4> QED
        BY <2>4, <2>5, AppendProperties
    <3>2. Len(A) + 1 = n /\ \A k \in 1..n : k \in 1..n - 1 \/ k = n
      <4>1. n \in Nat /\ n >= 1
        BY <1>1, <1>6
      <4>2. Len(A) = n - 1
        BY <2>5
      <4> DEFINE l == Len(A)
      <4> HIDE DEF n, l
      <4>3. l = n - 1
        BY <4>2 DEF l
      <4>4. l + 1 = n
        BY <4>1, <4>3
      <4>5. \A k \in 1..n : k \in 1..n - 1 \/ k = n
        BY <4>1
      <4> QED
        BY <4>4, <4>5 DEF l
    <3>3. \A k \in 1..n - 1 : k \in 1..n /\ k < n
      BY <1>1
    <3> DEFINE s == Shows(read)
               u == Append(A, x)
    <3>4. /\ s = [k \in 1..n |-> Show(read[k])]
      BY <1>1 DEF Shows
    <3>5. /\ u \in Seq(D) /\ Len(u) = n /\ u[n] = x
          /\ \A k \in 1..n - 1 : u[k] = A[k]
      <4> HIDE DEF u
      <4> QED
        BY <2>5, <3>1, <3>2 DEF u
    <3>6. DOMAIN u = 1..n /\ u = [k \in 1..n |-> u[k]]
      BY <3>5, LenProperties
    <3>7. \A k \in 1..n : Show(read[k]) = u[k]
      <4> HIDE DEF u
      <4>1. \A k \in 1..n - 1 : Show(read[k]) = u[k]
        BY <1>1, <2>5, <3>3, <3>5
      <4>2. Show(read[n]) = u[n]
        BY <3>5 DEF x
      <4> QED
        BY <3>2, <4>1, <4>2
    <3> HIDE DEF u, s, n
    <3>8. s = u
      BY <3>4, <3>6, <3>7
    <3> QED
      BY <3>8 DEF s, u
  <2> DEFINE Ay == Append(A, y)
             c == Ay \o B
  <2>8. Ay \in Seq(D) /\ c \in Seq(D) /\ Shows(events) = c
    <3>1. /\ Ay \in Seq(D) /\ Len(Ay) = Len(A) + 1
          /\ \A i \in 1..Len(A) : Ay[i] = A[i]
          /\ Ay[Len(A) + 1] = y
      <4> HIDE DEF D
      <4> QED
        BY <2>4, <2>5, AppendProperties
    <3> HIDE DEF Ay
    <3>2. /\ c \in Seq(D) /\ Len(c) = Len(Ay) + Len(B)
          /\ \A i \in 1..Len(Ay) + Len(B) : c[i] = IF i <= Len(Ay) THEN Ay[i] ELSE B[i - Len(Ay)]
      <4> HIDE DEF D
      <4> QED
        BY <2>6, <3>1, ConcatProperties
    <3> HIDE DEF c, n, m
    <3>3. Len(A) + 1 = n /\ Len(Ay) = n /\ Len(c) = m
      BY <1>1, <2>5, <2>6, <3>1, <3>2
    <3>4. \A k \in 1..m : c[k] = Show(events[k])
      <4> TAKE k \in 1..m
      <4>0. c[k] = IF k <= n THEN Ay[k] ELSE B[k - n]
        BY <1>1, <2>6, <3>2, <3>3
      <4>1. CASE k < n
        <5>1. k \in 1..n - 1 /\ k <= n /\ k \in 1..Len(A)
          BY <1>1, <3>3, <4>1
        <5> QED
          BY <2>5, <3>1, <4>0, <5>1
      <4>2. CASE k = n
        <5>1. k <= n
          BY <1>1, <4>2
        <5> QED
          BY <3>1, <3>3, <4>0, <4>2, <5>1 DEF y
      <4>3. CASE k > n
        <5>1. k - n \in 1..m - n /\ n + (k - n) = k /\ ~(k <= n)
          BY <1>1, <4>3
        <5>2. B[k - n] = Show(events[n + (k - n)])
          BY <2>6, <5>1
        <5> QED
          BY <4>0, <5>1, <5>2
      <4> QED
        BY <1>1, <4>1, <4>2, <4>3
    <3>5. Shows(events) = c
      <4> DEFINE s == Shows(events)
      <4>1. s \in Seq(D) /\ Len(s) = Len(c) /\ \A k \in 1..Len(s) : s[k] = c[k]
        BY <1>4, <3>3, <3>4 DEF m
      <4> HIDE DEF s, D
      <4> QED
        BY <3>2, <4>1, SeqEqual DEF s
    <3> QED
      BY <3>1, <3>2, <3>5
  <2> DEFINE FA == FlattenSeq(A)
             FB == FlattenSeq(B)
  <2>9. FA \in D /\ FB \in D
    BY <2>5, <2>6, FlattenType
  <2>10. Shown(read) = FA \o x
    BY <1>3, <2>4, <2>5, <2>7, FlattenAppend
  <2>11. Shown(events) = (FA \o y) \o FB
    <3>1. FlattenSeq(Ay) = FA \o y
      BY <2>4, <2>5, FlattenAppend
    <3> HIDE DEF Ay, FA
    <3>2. FlattenSeq(c) = FlattenSeq(Ay) \o FB
      BY <2>6, <2>8, FlattenConcat
    <3> QED
      BY <1>3, <2>8, <3>1, <3>2
  <2> HIDE DEF FA, FB
  <2>12. (FA \o y) \o FB = (FA \o x) \o (z \o FB)
    <3>1. FA \in Seq(Nat) /\ FB \in Seq(Nat) /\ x \in Seq(Nat) /\ z \in Seq(Nat)
      BY <2>4, <2>9
    <3>2. y = x \o z
      BY <2>4
    <3> HIDE DEF D
    <3>4. (FA \o (x \o z)) \o FB = (FA \o x) \o (z \o FB)
      <4>1. FA \o x \in Seq(Nat)
        BY <3>1, ConcatProperties
      <4>2. (FA \o x) \o z = FA \o (x \o z)
        BY <3>1, BytesAssociative
      <4>3. \A u \in Seq(Nat) : (u \o z) \o FB = u \o (z \o FB)
        BY <3>1, BytesAssociative, Zenon
      <4> QED
        BY <4>1, <4>2, <4>3, Zenon
    <3> QED
      BY <3>2, <3>4, Zenon
  <2>13. FA \o x \in D /\ z \o FB \in D
    BY <2>4, <2>9, ConcatProperties
  <2>14. IsPrefix(FA \o x, (FA \o x) \o (z \o FB))
    BY <2>13, ConcatPrefix
  <2> QED
    BY <2>10, <2>11, <2>12, <2>14
<1> QED
  BY <1>5, <1>6

-----------------------------------------------------------------------------
\* The types.

LEMMA HeaderType == Header \in Seq(Tokens) /\ Len(Header) = 4
<1>1. Header \in Seq(Tokens)
  BY HeaderLegible DEF Legible
<1>2. Len(Header) = 4
  BY DEF Header
<1> QED
  BY <1>1, <1>2

\* What is recorded is an event, with the time it is recorded at.
LEMMA RecordedEvent ==
    ASSUME TypeOK, NEW direction \in {"I", "O"}, NEW data \in Chunks
    PROVE  [direction |-> direction, elapsed |-> Len(recorded) + 1, data |-> data] \in Event
<1>1. recorded \in Seq(Event) /\ Len(recorded) \in Nat
  BY LenProperties DEF TypeOK
<1>2. data \in Seq(Bytes)
  BY LogBoundAssumption DEF Chunks
<1> QED
  BY <1>1, <1>2 DEF Event

\* A step that writes has a first piece.
LEMMA PieceType ==
    ASSUME NEW list \in Seq(Seq(Tokens)), list # << >>
    PROVE  Head(list) \in Seq(Tokens) /\ Tail(list) \in Seq(Seq(Tokens))
<1> DEFINE S == Seq(Tokens)
<1> HIDE DEF S
<1>1. list \in Seq(S)
  BY DEF S
<1>2. Head(list) \in S /\ Tail(list) \in Seq(S)
  BY <1>1, HeadTailProperties
<1> QED
  BY <1>2 DEF S

\* Every variable keeps its type, and the buffer its capacity.
THEOREM LogTypeCorrect == Spec => []TypeOK
<1>1. Init => TypeOK
  <2> SUFFICES ASSUME Init PROVE TypeOK
    OBVIOUS
  <2>1. << >> \in Seq(Tokens) /\ << >> \in Seq(Seq(Tokens)) /\ << >> \in Seq(Event)
    OBVIOUS
  <2>2. Len(Header) <= Capacity
    BY HeaderType, CapacityAssumption
  <2>3. 0 \in 0..0 /\ 0 \in 0..MaxFaults
    BY LogBoundAssumption
  <2> QED
    BY <2>1, <2>2, <2>3, HeaderType DEF Init, TypeOK
<1>2. TypeOK /\ [Next]_vars => TypeOK'
  <2> SUFFICES ASSUME TypeOK, [Next]_vars PROVE TypeOK'
    OBVIOUS
  <2>1. /\ phase \in {"open", "closed", "dead"}
        /\ file \in Seq(Tokens) /\ buffer \in Seq(Tokens)
        /\ pieces \in Seq(Seq(Tokens)) /\ recorded \in Seq(Event)
        /\ failed \in 0..faults /\ faults \in 0..MaxFaults
        /\ Len(buffer) <= Capacity
        /\ phase # "open" => buffer = << >> /\ pieces = << >>
        /\ Len(file) \in Nat /\ Len(buffer) \in Nat /\ Capacity \in Nat /\ MaxFaults \in Nat
    BY LenProperties, CapacityAssumption, LogBoundAssumption DEF TypeOK
  <2>2. << >> \in Seq(Tokens) /\ << >> \in Seq(Seq(Tokens)) /\ Len(<< >>) <= Capacity
    BY <2>1
  <2>3. ASSUME NEW direction \in {"I", "O"}, NEW data \in Chunks, Record(direction, data)
        PROVE  TypeOK'
    <3> DEFINE event == [direction |-> direction, elapsed |-> Len(recorded) + 1,
                         data |-> data]
    <3>1. event \in Event
      BY RecordedEvent
    <3> HIDE DEF event
    <3>2. recorded' = Append(recorded, event) /\ pieces' = Line(event)
          /\ UNCHANGED <<phase, file, buffer, failed, faults>> /\ phase = "open"
      BY <2>3 DEF Record, event
    <3>3. recorded' \in Seq(Event) /\ pieces' \in Seq(Seq(Tokens))
      BY <2>1, <3>1, <3>2, LineType
    <3> QED
      BY <2>1, <3>2, <3>3 DEF TypeOK
  <2>4. CASE PutPiece
    <3>1. Head(pieces) \in Seq(Tokens) /\ Tail(pieces) \in Seq(Seq(Tokens))
      BY <2>1, <2>4, PieceType DEF PutPiece
    <3> DEFINE head == Head(pieces)
    <3>2. head \in Seq(Tokens)
      BY <3>1
    <3> HIDE DEF head
    <3>3. buffer \o head \in Seq(Tokens) /\ Len(buffer \o head) = Len(buffer) + Len(head)
      BY <2>1, <3>2, ConcatProperties
    <3>4. Len(buffer) + Len(head) <= Capacity
      BY <2>4 DEF PutPiece, Fits, head
    <3>5. buffer' \in Seq(Tokens) /\ Len(buffer') <= Capacity
      BY <2>4, <3>3, <3>4 DEF PutPiece, head
    <3> QED
      BY <2>1, <2>4, <3>1, <3>5 DEF PutPiece, TypeOK
  <2>5. CASE FlushBuffer
    <3>1. file \o buffer \in Seq(Tokens)
      BY <2>1, ConcatProperties
    <3> QED
      BY <2>1, <2>2, <2>5, <3>1 DEF FlushBuffer, TypeOK
  <2>6. CASE PutDirectly
    <3>1. Head(pieces) \in Seq(Tokens) /\ Tail(pieces) \in Seq(Seq(Tokens))
      BY <2>1, <2>6, PieceType DEF PutDirectly
    <3>2. file \o Head(pieces) \in Seq(Tokens)
      BY <2>1, <3>1, ConcatProperties
    <3> QED
      BY <2>1, <2>6, <3>1, <3>2 DEF PutDirectly, TypeOK
  <2>7. CASE WriteFails
    <3> DEFINE all == IF buffer # << >> THEN buffer ELSE Head(pieces)
    <3>1. all \in Seq(Tokens) /\ Len(all) \in Nat
      <4>1. Head(pieces) \in Seq(Tokens)
        BY <2>1, <2>7, PieceType DEF WriteFails
      <4>2. all \in Seq(Tokens)
        BY <2>1, <4>1
      <4> HIDE DEF all
      <4> QED
        BY <4>2, LenProperties
    <3>2. PICK n \in 0..Len(all) - 1 :
            /\ file' = file \o SubSeq(all, 1, n)
            /\ buffer' = IF buffer # << >> THEN SubSeq(buffer, n + 1, Len(buffer)) ELSE << >>
      BY <2>7 DEF WriteFails
    <3>3. buffer # << >> => n \in 0..Len(buffer) - 1
      BY <3>2
    <3> HIDE DEF all
    <3>4. n \in 0..Len(all)
      BY <3>1, <3>2
    <3>5. SubSeq(all, 1, n) \in Seq(Tokens)
      BY <3>1, <3>4, PrefixOfPrefix
    <3>6. file' \in Seq(Tokens)
      BY <2>1, <3>2, <3>5, ConcatProperties
    <3>7. buffer' \in Seq(Tokens) /\ Len(buffer') <= Capacity
      <4>1. CASE buffer # << >>
        <5>1. \A i \in n + 1..Len(buffer) : i \in 1..Len(buffer)
          BY <2>1, <3>2
        <5>2. \A i \in n + 1..Len(buffer) : buffer[i] \in Tokens
          BY <2>1, <5>1, ElementOfSeq
        <5>3. n + 1 \in Int /\ Len(buffer) \in Int
          BY <2>1, <3>2
        <5>4. /\ SubSeq(buffer, n + 1, Len(buffer)) \in Seq(Tokens)
              /\ Len(SubSeq(buffer, n + 1, Len(buffer))) =
                    IF n + 1 <= Len(buffer) THEN Len(buffer) - (n + 1) + 1 ELSE 0
          BY <5>2, <5>3, SubSeqProperties
        <5> DEFINE k == Len(buffer)
                   r == Len(SubSeq(buffer, n + 1, Len(buffer)))
        <5>5. k \in Nat /\ k <= Capacity /\ r = IF n + 1 <= k THEN k - (n + 1) + 1 ELSE 0
          BY <2>1, <5>4
        <5> HIDE DEF k, r
        <5>6. r <= Capacity
          BY <2>1, <3>2, <5>5
        <5> QED
          BY <3>2, <4>1, <5>4, <5>6 DEF r
      <4>2. CASE buffer = << >>
        BY <2>2, <3>2, <4>2
      <4> QED
        BY <4>1, <4>2
    <3>8. failed' \in 0..faults' /\ faults' \in 0..MaxFaults
      BY <2>1, <2>7 DEF WriteFails
    <3> QED
      BY <2>1, <2>2, <2>7, <3>6, <3>7, <3>8 DEF WriteFails, TypeOK
  <2>8. CASE Drop
    <3>1. file \o buffer \in Seq(Tokens)
      BY <2>1, ConcatProperties
    <3> QED
      BY <2>1, <2>2, <2>8, <3>1 DEF Drop, TypeOK
  <2>9. CASE DropFails
    <3>1. PICK n \in 0..Len(buffer) - 1 : file' = file \o SubSeq(buffer, 1, n)
      BY <2>9 DEF DropFails
    <3>2. n \in 0..Len(buffer)
      BY <2>1, <3>1
    <3>3. SubSeq(buffer, 1, n) \in Seq(Tokens)
      BY <2>1, <3>2, PrefixOfPrefix
    <3>4. file' \in Seq(Tokens)
      BY <2>1, <3>1, <3>3, ConcatProperties
    <3>5. failed' \in 0..faults' /\ faults' \in 0..MaxFaults
      BY <2>1, <2>9 DEF DropFails
    <3> QED
      BY <2>1, <2>2, <2>9, <3>4, <3>5 DEF DropFails, TypeOK
  <2>10. CASE Kill
    BY <2>1, <2>2, <2>10 DEF Kill, TypeOK
  <2>11. CASE PowerLoss
    <3>1. PICK n \in 0..Len(file) : file' = SubSeq(file, 1, n)
      BY <2>11 DEF PowerLoss
    <3>2. file' \in Seq(Tokens)
      BY <2>1, <3>1, PrefixOfPrefix
    <3> QED
      BY <2>1, <2>2, <2>11, <3>2 DEF PowerLoss, TypeOK
  <2>12. CASE UNCHANGED vars
    BY <2>12 DEF vars, TypeOK
  <2> QED
    BY <2>3, <2>4, <2>5, <2>6, <2>7, <2>8, <2>9, <2>10, <2>11, <2>12 DEF Next
<1> QED
  BY <1>1, <1>2, PTL DEF Spec

-----------------------------------------------------------------------------
\* A line that is being written.

LEMMA TokensAssociative == \A a, b, c \in Seq(Tokens) : (a \o b) \o c = a \o (b \o c)
BY ConcatAssociative

LEMMA TokensConcat == \A a, b \in Seq(Tokens) : a \o b \in Seq(Tokens)
BY ConcatProperties

\* A beginning that is as long as the first of two sequences or longer.
LEMMA PrefixJoins ==
    ASSUME NEW S, NEW a \in Seq(S), NEW b \in Seq(S), NEW n \in 0..Len(b)
    PROVE  SubSeq(a \o b, 1, Len(a) + n) = a \o SubSeq(b, 1, n)
<1> DEFINE p == Len(a)
           k == p + n
<1>1. p \in Nat /\ Len(b) \in Nat
  BY LenProperties
<1>2. k \in 0..p + Len(b) /\ k - p = n /\ (k <= p <=> n = 0)
  BY <1>1
<1>3. SubSeq(a \o b, 1, k) = IF k <= p THEN SubSeq(a, 1, k) ELSE a \o SubSeq(b, 1, k - p)
  <2> HIDE DEF k
  <2> QED
    BY <1>2, PrefixOfConcat
<1>4. CASE n = 0
  <2>1. SubSeq(b, 1, n) = << >>
    BY <1>4, SubSeqEmpty
  <2>2. k = p
    BY <1>1, <1>4
  <2>3. SubSeq(a, 1, p) = a /\ a \o << >> = a
    BY SubSeqFull, ConcatEmptySeq
  <2> HIDE DEF k, p
  <2>4. SubSeq(a \o b, 1, k) = a
    BY <1>2, <1>3, <1>4, <2>2, <2>3
  <2> QED
    BY <2>1, <2>3, <2>4 DEF k, p
<1>5. CASE n # 0
  <2>1. SubSeq(a \o b, 1, k) = a \o SubSeq(b, 1, k - p)
    BY <1>2, <1>3, <1>5
  <2> HIDE DEF k, p
  <2>2. SubSeq(a \o b, 1, k) = a \o SubSeq(b, 1, n)
    BY <1>2, <2>1
  <2> QED
    BY <2>2 DEF k, p
<1> QED
  BY <1>4, <1>5

\* stream is a legible text and a part of the line of the last event, of which list is left.
IsUnderway(i, base, written, stream, list, events, lost) ==
    /\ Len(events) = i + 1
    /\ Legible(base, events, i, lost)
    /\ stream = base \o written
    /\ written \o FlattenSeq(list) = LineText(events[i + 1])

Underway(stream, list, events, lost) ==
    \E i \in Nat, base \in Seq(Tokens), written \in Seq(Tokens) :
        IsUnderway(i, base, written, stream, list, events, lost)

\* What one knows of the parts.
LEMMA UnderwayType ==
    ASSUME NEW events, Timed(events), NEW lost \in Nat, NEW stream,
           NEW list \in Seq(Seq(Tokens)), NEW i \in Nat, NEW base \in Seq(Tokens),
           NEW written \in Seq(Tokens),
           IsUnderway(i, base, written, stream, list, events, lost)
    PROVE  /\ stream \in Seq(Tokens) /\ FlattenSeq(list) \in Seq(Tokens)
           /\ LineText(events[i + 1]) \in Seq(Tokens)
           /\ i + 1 <= Len(events)
<1> DEFINE t == LineText(events[i + 1])
           f == FlattenSeq(list)
<1>1. i + 1 \in 1..Len(events) /\ i + 1 <= Len(events)
  BY DEF IsUnderway
<1>2. events[i + 1] \in Event
  BY <1>1, ElementOfSeq DEF Timed
<1>3. t \in Seq(Tokens)
  BY <1>2, LineShape
<1>4. f \in Seq(Tokens)
  BY FlattenType
<1>5. stream = base \o written
  BY DEF IsUnderway
<1>6. stream \in Seq(Tokens)
  BY <1>5, TokensConcat
<1> QED
  BY <1>1, <1>3, <1>4, <1>6

\* A line begins after a legible text.
LEMMA UnderwayStart ==
    ASSUME NEW events, Timed(events), NEW lost \in Nat, NEW stream,
           Legible(stream, events, Len(events), lost),
           NEW event \in Event, event.elapsed = Len(events) + 1
    PROVE  Underway(stream, Line(event), Append(events, event), lost)
<1> DEFINE i == Len(events)
           more == Append(events, event)
<1>1. i \in Nat /\ i \in 0..i /\ events \in Seq(Event) /\ stream \in Seq(Tokens)
  BY LenProperties DEF Timed, Legible
<1>2. Legible(stream, more, i, lost)
  BY <1>1, MoreRecorded
<1>3. Len(more) = i + 1 /\ more[i + 1] = event
  BY <1>1, AppendProperties
<1>4. << >> \in Seq(Tokens) /\ stream = stream \o << >>
  BY <1>1, ConcatEmptySeq
<1>5. << >> \o FlattenSeq(Line(event)) = LineText(event)
  <2>1. FlattenSeq(Line(event)) \in Seq(Tokens)
    BY LineShape DEF LineText
  <2> QED
    BY <2>1, ConcatEmptySeq DEF LineText
<1> HIDE DEF i, more
<1>6. IsUnderway(i, stream, << >>, stream, Line(event), more, lost)
  BY <1>2, <1>3, <1>4, <1>5 DEF IsUnderway
<1>7. Underway(stream, Line(event), more, lost)
  BY <1>1, <1>4, <1>6 DEF Underway
<1> QED
  BY <1>7 DEF more

\* All beginnings of a text that is being written are fine.
LEMMA UnderwayFine ==
    ASSUME NEW events, Timed(events), NEW lost \in Nat, NEW stream,
           NEW list \in Seq(Seq(Tokens)), Underway(stream, list, events, lost)
    PROVE  /\ stream \in Seq(Tokens)
           /\ \A k \in 0..Len(stream) : Fine(SubSeq(stream, 1, k), events, lost)
<1>1. PICK i \in Nat, base \in Seq(Tokens), written \in Seq(Tokens) :
            IsUnderway(i, base, written, stream, list, events, lost)
  BY DEF Underway
<1> DEFINE t == LineText(events[i + 1])
           f == FlattenSeq(list)
           all == base \o t
<1>2. /\ stream \in Seq(Tokens) /\ f \in Seq(Tokens) /\ t \in Seq(Tokens)
      /\ all = stream \o f /\ i + 1 <= Len(events)
  <2>1. /\ stream \in Seq(Tokens) /\ f \in Seq(Tokens) /\ t \in Seq(Tokens)
        /\ i + 1 <= Len(events)
    BY <1>1, UnderwayType
  <2>2. stream = base \o written /\ written \o f = t
    BY <1>1 DEF IsUnderway
  <2> HIDE DEF f, t
  <2>3. (base \o written) \o f = base \o (written \o f)
    BY <2>1, TokensAssociative
  <2> QED
    BY <2>1, <2>2, <2>3
<1>3. Legible(base, events, i, lost)
  BY <1>1 DEF IsUnderway
<1>4. \A k \in 0..Len(all) : Fine(SubSeq(all, 1, k), events, lost)
  BY <1>2, <1>3, LinePrefixes
<1> HIDE DEF f, t, all
<1>5. Len(all) = Len(stream) + Len(f) /\ Len(stream) \in Nat /\ Len(f) \in Nat
  BY <1>2, ConcatProperties, LenProperties
<1>6. ASSUME NEW k \in 0..Len(stream)
      PROVE  Fine(SubSeq(stream, 1, k), events, lost)
  <2>1. k \in 0..Len(stream) + Len(f) /\ k <= Len(stream) /\ k \in 0..Len(all)
    BY <1>5
  <2>2. SubSeq(all, 1, k) = SubSeq(stream, 1, k)
    BY <1>2, <2>1, PrefixOfConcat
  <2> QED
    BY <1>4, <2>1, <2>2
<1> QED
  BY <1>2, <1>6

\* One more piece is written, which may be the last.
LEMMA UnderwayPiece ==
    ASSUME NEW events, Timed(events), NEW lost \in Nat, NEW stream,
           NEW list \in Seq(Seq(Tokens)), list # << >>,
           Underway(stream, list, events, lost)
    PROVE  /\ Underway(stream \o Head(list), Tail(list), events, lost)
           /\ Tail(list) = << >> =>
                Legible(stream \o Head(list), events, Len(events), lost)
<1>1. PICK i \in Nat, base \in Seq(Tokens), written \in Seq(Tokens) :
            IsUnderway(i, base, written, stream, list, events, lost)
  BY DEF Underway
<1> DEFINE t == LineText(events[i + 1])
           h == Head(list)
           r == Tail(list)
           f == FlattenSeq(r)
<1>2. /\ stream \in Seq(Tokens) /\ t \in Seq(Tokens) /\ i + 1 <= Len(events)
  BY <1>1, UnderwayType
<1>3. /\ h \in Seq(Tokens) /\ r \in Seq(Seq(Tokens)) /\ FlattenSeq(list) = h \o f
  BY FlattenHead
<1>4. f \in Seq(Tokens)
  BY <1>3, FlattenType
<1>5. /\ Len(events) = i + 1 /\ Legible(base, events, i, lost)
      /\ stream = base \o written /\ written \o FlattenSeq(list) = t
  BY <1>1 DEF IsUnderway
<1>6. r = << >> => f = << >>
  BY FlattenEmpty
<1> HIDE DEF h, f
<1>7. /\ written \o h \in Seq(Tokens)
      /\ (written \o h) \o f = t
      /\ stream \o h = base \o (written \o h)
  <2>1. (written \o h) \o f = written \o (h \o f)
    BY <1>3, <1>4, TokensAssociative
  <2>2. (base \o written) \o h = base \o (written \o h)
    BY <1>3, TokensAssociative
  <2>3. written \o h \in Seq(Tokens)
    BY <1>3, TokensConcat
  <2> HIDE DEF t
  <2> QED
    BY <1>3, <1>5, <2>1, <2>2, <2>3
<1> HIDE DEF r
<1>8. IsUnderway(i, base, written \o h, stream \o h, r, events, lost)
  <2>1. f = FlattenSeq(r)
    BY DEF f, r
  <2> DEFINE w == written \o h
  <2> HIDE DEF w
  <2> QED
    BY <1>5, <1>7, <2>1 DEF IsUnderway, w
<1>9. Underway(stream \o h, r, events, lost)
  BY <1>7, <1>8 DEF Underway
<1>10. ASSUME r = << >>
       PROVE  Legible(stream \o h, events, Len(events), lost)
  <2>1. (written \o h) \o << >> = written \o h
    BY <1>7, ConcatEmptySeq
  <2>2. written \o h = t
    BY <1>6, <1>7, <1>10, <2>1 DEF r
  <2>3. Legible(base \o t, events, i + 1, lost)
    BY <1>2, <1>5, WholeLine
  <2> HIDE DEF t
  <2> QED
    BY <1>5, <1>7, <2>2, <2>3
<1> QED
  BY <1>9, <1>10 DEF h, r

\* Of the next piece only a part is written, and the rest of the line is given up.
LEMMA UnderwayCut ==
    ASSUME NEW events, Timed(events), NEW lost \in Nat, NEW stream,
           NEW list \in Seq(Seq(Tokens)), list # << >>,
           Underway(stream, list, events, lost), NEW n \in 0..Len(Head(list))
    PROVE  Legible(stream \o SubSeq(Head(list), 1, n), events, Len(events), lost + 1)
<1>1. PICK i \in Nat, base \in Seq(Tokens), written \in Seq(Tokens) :
            IsUnderway(i, base, written, stream, list, events, lost)
  BY DEF Underway
<1> DEFINE t == LineText(events[i + 1])
           h == Head(list)
           f == FlattenSeq(Tail(list))
           part == SubSeq(h, 1, n)
           p == Len(written)
           m == p + n
<1>2. /\ stream \in Seq(Tokens) /\ t \in Seq(Tokens) /\ i + 1 <= Len(events)
  BY <1>1, UnderwayType
<1>3. h \in Seq(Tokens) /\ f \in Seq(Tokens) /\ FlattenSeq(list) = h \o f
  <2>1. /\ h \in Seq(Tokens) /\ Tail(list) \in Seq(Seq(Tokens))
        /\ FlattenSeq(list) = h \o f
    BY FlattenHead
  <2> QED
    BY <2>1, FlattenType
<1>4. /\ Len(events) = i + 1 /\ Legible(base, events, i, lost)
      /\ stream = base \o written /\ written \o FlattenSeq(list) = t
  BY <1>1 DEF IsUnderway
<1>5. part \in Seq(Tokens)
  BY <1>3, PrefixOfPrefix
<1> DEFINE g == h \o f
<1>6. g \in Seq(Tokens) /\ Len(g) = Len(h) + Len(f) /\ Len(h) \in Nat /\ Len(f) \in Nat
      /\ p \in Nat
  BY <1>3, ConcatProperties, LenProperties
<1>7. n \in 0..Len(h) + Len(f) /\ n <= Len(h) /\ n \in 0..Len(g)
  BY <1>6
<1>8. SubSeq(g, 1, n) = part
  BY <1>3, <1>7, PrefixOfConcat
<1> HIDE DEF h, f, g, part
<1>9. written \o g = t
  BY <1>3, <1>4 DEF g
<1>10. Len(t) = p + Len(g)
  BY <1>6, <1>9, ConcatProperties
<1>11. SubSeq(t, 1, m) = written \o part
  <2>1. SubSeq(written \o g, 1, m) = written \o SubSeq(g, 1, n)
    BY <1>6, <1>7, PrefixJoins
  <2> HIDE DEF t, m
  <2> QED
    BY <1>8, <1>9, <2>1
<1>12. m \in 0..Len(t)
  <2> HIDE DEF t, p
  <2> QED
    BY <1>6, <1>7, <1>10
<1>13. Legible(base \o SubSeq(t, 1, m), events, i + 1, lost + 1)
  <2> HIDE DEF m
  <2> QED
    BY <1>2, <1>4, <1>12, CutLine
<1>14. (base \o written) \o part = base \o (written \o part)
  BY <1>5, TokensAssociative
<1> HIDE DEF t, m
<1> QED
  BY <1>4, <1>11, <1>13, <1>14 DEF h, part

\* Nothing more of the line is written.
LEMMA UnderwayStops ==
    ASSUME NEW events, Timed(events), NEW lost \in Nat, NEW stream,
           NEW list \in Seq(Seq(Tokens)), list # << >>,
           Underway(stream, list, events, lost)
    PROVE  Legible(stream, events, Len(events), lost + 1)
<1> DEFINE h == Head(list)
<1>1. h \in Seq(Tokens) /\ stream \in Seq(Tokens)
  BY FlattenHead, UnderwayFine
<1>2. 0 \in 0..Len(h)
  BY <1>1, LenProperties
<1>3. Legible(stream \o SubSeq(h, 1, 0), events, Len(events), lost + 1)
  BY <1>2, UnderwayCut
<1>4. SubSeq(h, 1, 0) = << >> /\ stream \o << >> = stream
  BY <1>1, SubSeqEmpty, ConcatEmptySeq
<1> HIDE DEF h
<1> QED
  BY <1>3, <1>4

-----------------------------------------------------------------------------
\* The inductive invariant.  What is on the disk and in the buffer together is a legible
\* text, or one and a part of the line that is being written; and every beginning of what is
\* on the disk alone, which is all that a crash may leave, is fine.
FileFine == \A k \in 0..Len(file) : Fine(SubSeq(file, 1, k), recorded, failed)

LogInv ==
    /\ Timed(recorded)
    /\ phase = "open" /\ pieces = << >> =>
            Legible(file \o buffer, recorded, Len(recorded), failed)
    /\ phase = "open" /\ pieces # << >> =>
            Underway(file \o buffer, pieces, recorded, failed)
    /\ phase = "closed" => Legible(file, recorded, Len(recorded), failed)
    /\ FileFine

\* A text that is fine for so many lost events is for one more.
LEMMA FineStays ==
    ASSUME NEW text, NEW events, NEW lost \in Nat, Fine(text, events, lost)
    PROVE  Fine(text, events, lost + 1)
<1>1. lost + 1 # 0
  OBVIOUS
<1> QED
  BY <1>1 DEF Fine

\* A beginning of a text whose beginnings are fine is such a text.
LEMMA BeginningFine ==
    ASSUME NEW s \in Seq(Tokens), NEW events, NEW lost,
           \A k \in 0..Len(s) : Fine(SubSeq(s, 1, k), events, lost),
           NEW m \in 0..Len(s)
    PROVE  \A k \in 0..Len(SubSeq(s, 1, m)) : Fine(SubSeq(SubSeq(s, 1, m), 1, k), events, lost)
<1>1. m \in 0..m /\ Len(s) \in Nat
  BY LenProperties
<1>2. Len(SubSeq(s, 1, m)) = m
  BY <1>1, PrefixOfPrefix
<1>3. ASSUME NEW k \in 0..m
      PROVE  Fine(SubSeq(SubSeq(s, 1, m), 1, k), events, lost)
  <2>1. k \in 0..Len(s)
    BY <1>1
  <2>2. SubSeq(SubSeq(s, 1, m), 1, k) = SubSeq(s, 1, k)
    BY PrefixOfPrefix
  <2> QED
    BY <2>1, <2>2
<1> QED
  BY <1>2, <1>3

\* What has been written, on the disk or not, can be cut off anywhere.
LEMMA StreamFine ==
    ASSUME TypeOK, LogInv, phase = "open"
    PROVE  /\ file \o buffer \in Seq(Tokens)
           /\ \A k \in 0..Len(file \o buffer) :
                Fine(SubSeq(file \o buffer, 1, k), recorded, failed)
<1> DEFINE stream == file \o buffer
<1>1. failed \in Nat /\ pieces \in Seq(Seq(Tokens)) /\ Timed(recorded)
  BY LogBoundAssumption DEF TypeOK, LogInv
<1>2. CASE pieces = << >>
  <2>1. Legible(stream, recorded, Len(recorded), failed)
    BY <1>2 DEF LogInv
  <2> HIDE DEF stream
  <2> QED
    BY <2>1 DEF Legible, stream
<1>3. CASE pieces # << >>
  <2>1. Underway(stream, pieces, recorded, failed)
    BY <1>3 DEF LogInv
  <2> HIDE DEF stream
  <2>2. /\ stream \in Seq(Tokens)
        /\ \A k \in 0..Len(stream) : Fine(SubSeq(stream, 1, k), recorded, failed)
    BY <1>1, <2>1, UnderwayFine
  <2> QED
    BY <2>2 DEF stream
<1> QED
  BY <1>2, <1>3

\* So can what the disk took of the buffer.
LEMMA PartlyFlushed ==
    ASSUME TypeOK, LogInv, phase = "open", NEW n \in 0..Len(buffer)
    PROVE  \A k \in 0..Len(file \o SubSeq(buffer, 1, n)) :
                Fine(SubSeq(file \o SubSeq(buffer, 1, n), 1, k), recorded, failed)
<1> DEFINE stream == file \o buffer
           m == Len(file) + n
<1>1. file \in Seq(Tokens) /\ buffer \in Seq(Tokens) /\ Len(file) \in Nat /\ Len(buffer) \in Nat
  BY LenProperties DEF TypeOK
<1>2. /\ stream \in Seq(Tokens)
      /\ \A k \in 0..Len(stream) : Fine(SubSeq(stream, 1, k), recorded, failed)
  BY StreamFine
<1>3. SubSeq(stream, 1, m) = file \o SubSeq(buffer, 1, n)
  BY <1>1, PrefixJoins
<1>4. m \in 0..Len(stream)
  <2>1. Len(stream) = Len(file) + Len(buffer)
    BY <1>1, ConcatProperties
  <2> HIDE DEF stream
  <2> QED
    BY <1>1, <2>1
<1> HIDE DEF stream, m
<1>5. \A k \in 0..Len(SubSeq(stream, 1, m)) :
            Fine(SubSeq(SubSeq(stream, 1, m), 1, k), recorded, failed)
  BY <1>2, <1>4, BeginningFine
<1> QED
  BY <1>3, <1>5

LEMMA LogInvInit == Init => LogInv
<1> SUFFICES ASSUME Init PROVE LogInv
  OBVIOUS
<1>1. /\ phase = "open" /\ file = << >> /\ buffer = Header /\ pieces = << >>
      /\ recorded = << >> /\ failed = 0
  BY DEF Init
<1>2. << >> \o Header = Header
  BY HeaderType, ConcatEmptySeq
<1>3. Timed(<< >>) /\ Legible(Header, << >>, 0, 0)
  BY HeaderLegible
<1>4. Len(<< >>) = 0
  OBVIOUS
<1>5. Legible(file \o buffer, recorded, Len(recorded), failed)
  BY <1>1, <1>2, <1>3, <1>4
<1>6. FileFine
  <2>1. 0 \in 0..Len(Header)
    BY HeaderType
  <2>2. Fine(SubSeq(Header, 1, 0), << >>, 0)
    BY <1>3, <2>1 DEF Legible
  <2>3. SubSeq(Header, 1, 0) = << >>
    BY HeaderType, SubSeqEmpty
  <2>4. \A k \in 0..Len(file) : SubSeq(file, 1, k) = << >>
    <3>1. \A k \in 0..0 : k = 0
      OBVIOUS
    <3>2. << >> \in Seq(Tokens) /\ SubSeq(<< >>, 1, 0) = << >>
      BY SubSeqEmpty
    <3> QED
      BY <1>1, <1>4, <3>1, <3>2
  <2> QED
    BY <1>1, <2>2, <2>3, <2>4 DEF FileFine
<1> QED
  BY <1>1, <1>3, <1>5, <1>6 DEF LogInv

\* An event is recorded after a legible text.
LEMMA LogInvRecord ==
    ASSUME TypeOK, LogInv, NEW direction \in {"I", "O"}, NEW data \in Chunks,
           Record(direction, data)
    PROVE  LogInv'
<1> DEFINE event == [direction |-> direction, elapsed |-> Len(recorded) + 1,
                     data |-> data]
           stream == file \o buffer
<1>1. event \in Event /\ event.elapsed = Len(recorded) + 1
  BY RecordedEvent
<1> HIDE DEF event
<1>2. /\ recorded' = Append(recorded, event) /\ pieces' = Line(event)
      /\ file' = file /\ buffer' = buffer /\ failed' = failed
      /\ phase' = phase /\ phase = "open" /\ pieces = << >>
  BY DEF Record, event
<1>3. failed \in Nat /\ Timed(recorded) /\ FileFine
      /\ Legible(stream, recorded, Len(recorded), failed)
  BY <1>2, LogBoundAssumption DEF TypeOK, LogInv
<1> HIDE DEF stream
<1>4. Underway(stream, Line(event), Append(recorded, event), failed)
  BY <1>1, <1>3, UnderwayStart
<1>5. Timed(Append(recorded, event))
  BY <1>1, <1>3, MoreRecorded
<1>6. \A text, lost : Fine(text, recorded, lost) => Fine(text, Append(recorded, event), lost)
  BY <1>1, <1>3, MoreRecorded
<1>7. FileFine'
  BY <1>2, <1>3, <1>6 DEF FileFine
<1>8. Line(event) # << >>
  BY DEF Line
<1> QED
  BY <1>2, <1>4, <1>5, <1>7, <1>8 DEF LogInv, stream

\* A piece more is in the stream, after which the text may be legible.
LEMMA LogInvPiece ==
    ASSUME TypeOK, LogInv, phase = "open", pieces # << >>,
           phase' = phase, recorded' = recorded, failed' = failed, pieces' = Tail(pieces),
           file' \o buffer' = (file \o buffer) \o Head(pieces), FileFine'
    PROVE  LogInv'
<1> DEFINE stream == file \o buffer
<1>1. failed \in Nat /\ Timed(recorded) /\ pieces \in Seq(Seq(Tokens))
      /\ Underway(stream, pieces, recorded, failed)
  BY LogBoundAssumption DEF TypeOK, LogInv
<1> DEFINE more == stream \o Head(pieces)
<1>2. file' \o buffer' = more
  OBVIOUS
<1> HIDE DEF stream
<1>3. /\ Underway(more, Tail(pieces), recorded, failed)
      /\ Tail(pieces) = << >> => Legible(more, recorded, Len(recorded), failed)
  BY <1>1, UnderwayPiece
<1> HIDE DEF more
<1> QED
  BY <1>1, <1>2, <1>3 DEF LogInv

LEMMA LogInvPut ==
    ASSUME TypeOK, LogInv, PutPiece
    PROVE  LogInv'
<1>1. /\ phase = "open" /\ pieces # << >> /\ buffer' = buffer \o Head(pieces)
      /\ pieces' = Tail(pieces) /\ phase' = phase /\ file' = file
      /\ recorded' = recorded /\ failed' = failed
  BY DEF PutPiece
<1>2. file \in Seq(Tokens) /\ buffer \in Seq(Tokens) /\ Head(pieces) \in Seq(Tokens)
  BY <1>1, PieceType DEF TypeOK
<1>3. (file \o buffer) \o Head(pieces) = file \o (buffer \o Head(pieces))
  BY <1>2, TokensAssociative
<1>4. file' \o buffer' = (file \o buffer) \o Head(pieces)
  BY <1>1, <1>3
<1>5. FileFine'
  BY <1>1 DEF LogInv, FileFine
<1> QED
  BY <1>1, <1>4, <1>5, LogInvPiece

LEMMA LogInvFlush ==
    ASSUME TypeOK, LogInv, FlushBuffer
    PROVE  LogInv'
<1> DEFINE stream == file \o buffer
<1>1. /\ phase = "open" /\ pieces # << >> /\ file' = stream /\ buffer' = << >>
      /\ pieces' = pieces /\ phase' = phase /\ recorded' = recorded /\ failed' = failed
  BY DEF FlushBuffer
<1>2. /\ stream \in Seq(Tokens)
      /\ \A k \in 0..Len(stream) : Fine(SubSeq(stream, 1, k), recorded, failed)
  BY <1>1, StreamFine
<1>3. Timed(recorded) /\ Underway(stream, pieces, recorded, failed)
  BY <1>1 DEF LogInv
<1> HIDE DEF stream
<1>4. file' \o buffer' = stream
  BY <1>1, <1>2, ConcatEmptySeq
<1>5. FileFine'
  BY <1>1, <1>2 DEF FileFine
<1> QED
  BY <1>1, <1>3, <1>4, <1>5 DEF LogInv

LEMMA LogInvDirect ==
    ASSUME TypeOK, LogInv, PutDirectly
    PROVE  LogInv'
<1> DEFINE more == file \o Head(pieces)
<1>1. /\ phase = "open" /\ pieces # << >> /\ file' = more /\ buffer = << >>
      /\ buffer' = buffer /\ pieces' = Tail(pieces) /\ phase' = phase
      /\ recorded' = recorded /\ failed' = failed
  BY DEF PutDirectly
<1>2. /\ file \in Seq(Tokens) /\ failed \in Nat /\ Timed(recorded)
      /\ pieces \in Seq(Seq(Tokens)) /\ Head(pieces) \in Seq(Tokens)
  BY <1>1, PieceType, LogBoundAssumption DEF TypeOK, LogInv
<1>3. file \o buffer = file
  BY <1>1, <1>2, ConcatEmptySeq
<1>4. Underway(file, pieces, recorded, failed)
  BY <1>1, <1>3 DEF LogInv
<1>5. Underway(more, Tail(pieces), recorded, failed)
  BY <1>1, <1>2, <1>4, UnderwayPiece
<1>6. Tail(pieces) \in Seq(Seq(Tokens))
  BY <1>1, <1>2, PieceType
<1> HIDE DEF more
<1>7. /\ more \in Seq(Tokens)
      /\ \A k \in 0..Len(more) : Fine(SubSeq(more, 1, k), recorded, failed)
  BY <1>2, <1>5, <1>6, UnderwayFine
<1>8. FileFine'
  BY <1>1, <1>7 DEF FileFine
<1>9. more \o << >> = more
  BY <1>7, ConcatEmptySeq
<1>10. file' \o buffer' = (file \o buffer) \o Head(pieces)
  BY <1>1, <1>3, <1>9 DEF more
<1> QED
  BY <1>1, <1>8, <1>10, LogInvPiece

LEMMA LogInvFails ==
    ASSUME TypeOK, LogInv, WriteFails
    PROVE  LogInv'
<1>1. /\ phase = "open" /\ pieces # << >> /\ pieces' = << >> /\ phase' = phase
      /\ recorded' = recorded /\ failed' = failed + 1
  BY DEF WriteFails
<1>2. /\ file \in Seq(Tokens) /\ buffer \in Seq(Tokens) /\ failed \in Nat /\ Timed(recorded)
      /\ pieces \in Seq(Seq(Tokens)) /\ Head(pieces) \in Seq(Tokens)
      /\ Len(buffer) \in Nat /\ Len(file) \in Nat
      /\ Underway(file \o buffer, pieces, recorded, failed)
  BY <1>1, PieceType, LogBoundAssumption, LenProperties DEF TypeOK, LogInv
<1>3. CASE buffer # << >>
  <2>1. PICK n \in 0..Len(buffer) - 1 :
            /\ file' = file \o SubSeq(buffer, 1, n)
            /\ buffer' = SubSeq(buffer, n + 1, Len(buffer))
    BY <1>3 DEF WriteFails
  <2>2. n \in 0..Len(buffer)
    BY <1>2, <2>1
  <2>3. \A k \in 0..Len(file') : Fine(SubSeq(file', 1, k), recorded, failed)
    BY <1>1, <2>1, <2>2, PartlyFlushed
  <2>4. FileFine'
    BY <1>1, <1>2, <2>3, FineStays DEF FileFine
  <2>5. file' \o buffer' = file \o buffer
    <3> DEFINE a == SubSeq(buffer, 1, n)
               b == SubSeq(buffer, n + 1, Len(buffer))
    <3>1. a \in Seq(Tokens)
      BY <1>2, <2>2, PrefixOfPrefix
    <3>2. b \in Seq(Tokens)
      <4>1. \A i \in n + 1..Len(buffer) : i \in 1..Len(buffer)
        BY <1>2, <2>1
      <4>2. \A i \in n + 1..Len(buffer) : buffer[i] \in Tokens
        BY <1>2, <4>1, ElementOfSeq
      <4>3. n + 1 \in Int /\ Len(buffer) \in Int
        BY <1>2, <2>1
      <4> QED
        BY <4>2, <4>3, SubSeqProperties
    <3>3. a \o b = buffer
      <4>1. 1 \in 1..Len(buffer) + 1 /\ n \in 1 - 1..Len(buffer)
            /\ Len(buffer) \in n..Len(buffer)
        BY <1>2, <2>2
      <4>2. a \o b = SubSeq(buffer, 1, Len(buffer))
        BY <1>2, <4>1, ConcatAdjacentSubSeq
      <4>3. SubSeq(buffer, 1, Len(buffer)) = buffer
        BY <1>2, SubSeqFull
      <4> QED
        BY <4>2, <4>3
    <3> HIDE DEF a, b
    <3>4. (file \o a) \o b = file \o (a \o b)
      BY <1>2, <3>1, <3>2, TokensAssociative
    <3>5. file' = file \o a /\ buffer' = b
      BY <2>1 DEF a, b
    <3> QED
      BY <3>3, <3>4, <3>5
  <2>6. Legible(file \o buffer, recorded, Len(recorded), failed + 1)
    BY <1>1, <1>2, UnderwayStops
  <2> QED
    BY <1>1, <1>2, <2>4, <2>5, <2>6 DEF LogInv
<1>4. CASE buffer = << >>
  <2> DEFINE h == Head(pieces)
  <2>1. PICK n \in 0..Len(h) - 1 : file' = file \o SubSeq(h, 1, n) /\ buffer' = << >>
    BY <1>4 DEF WriteFails
  <2>2. n \in 0..Len(h)
    BY <1>2, <2>1, LenProperties
  <2>3. file \o buffer = file
    BY <1>2, <1>4, ConcatEmptySeq
  <2>4. Underway(file, pieces, recorded, failed)
    BY <1>2, <2>3
  <2> DEFINE now == file \o SubSeq(h, 1, n)
  <2>5. Legible(now, recorded, Len(recorded), failed + 1)
    BY <1>1, <1>2, <2>2, <2>4, UnderwayCut
  <2>6. file' = now /\ buffer' = << >>
    BY <2>1
  <2> HIDE DEF now
  <2>7. now \in Seq(Tokens) /\ FileFine'
    BY <1>1, <2>5, <2>6 DEF Legible, FileFine
  <2>8. file' \o buffer' = now
    BY <2>6, <2>7, ConcatEmptySeq
  <2> QED
    BY <1>1, <1>2, <2>5, <2>7, <2>8 DEF LogInv
<1> QED
  BY <1>3, <1>4

LEMMA LogInvDrop ==
    ASSUME TypeOK, LogInv, Drop
    PROVE  LogInv'
<1> DEFINE stream == file \o buffer
<1>1. /\ phase = "open" /\ phase' = "closed" /\ pieces = << >> /\ file' = stream
      /\ recorded' = recorded /\ failed' = failed
  BY DEF Drop
<1>2. Timed(recorded) /\ Legible(stream, recorded, Len(recorded), failed)
  BY <1>1 DEF LogInv
<1> HIDE DEF stream
<1>3. FileFine'
  BY <1>1, <1>2 DEF FileFine, Legible
<1> QED
  BY <1>1, <1>2, <1>3 DEF LogInv

\* Nothing is on the disk that was not in the stream, or on the disk before.
LEMMA LogInvDead ==
    ASSUME TypeOK, LogInv, DropFails \/ Kill \/ PowerLoss
    PROVE  LogInv'
<1>1. phase' = "dead" /\ recorded' = recorded /\ failed' = failed
  BY DEF DropFails, Kill, PowerLoss
<1>2. Timed(recorded) /\ FileFine
  BY DEF LogInv
<1>3. file \in Seq(Tokens) /\ Len(buffer) \in Nat
  BY LenProperties DEF TypeOK
<1>4. CASE DropFails
  <2>1. PICK n \in 0..Len(buffer) - 1 : file' = file \o SubSeq(buffer, 1, n)
    BY <1>4 DEF DropFails
  <2>2. n \in 0..Len(buffer)
    BY <1>3, <2>1
  <2>3. phase = "open"
    BY <1>4 DEF DropFails
  <2>4. FileFine'
    BY <1>1, <2>1, <2>2, <2>3, PartlyFlushed DEF FileFine
  <2> QED
    BY <1>1, <1>2, <2>4 DEF LogInv
<1>5. CASE Kill
  <2>1. FileFine'
    BY <1>1, <1>2, <1>5 DEF FileFine, Kill
  <2> QED
    BY <1>1, <1>2, <2>1 DEF LogInv
<1>6. CASE PowerLoss
  <2>1. PICK n \in 0..Len(file) : file' = SubSeq(file, 1, n)
    BY <1>6 DEF PowerLoss
  <2>2. FileFine'
    BY <1>1, <1>2, <1>3, <2>1, BeginningFine DEF FileFine
  <2> QED
    BY <1>1, <1>2, <2>2 DEF LogInv
<1> QED
  BY <1>4, <1>5, <1>6

LEMMA LogInvariant == Spec => [](TypeOK /\ LogInv)
<1>1. TypeOK /\ LogInv /\ [Next]_vars => LogInv'
  <2> SUFFICES ASSUME TypeOK, LogInv, [Next]_vars PROVE LogInv'
    OBVIOUS
  <2>1. CASE UNCHANGED vars
    BY <2>1 DEF vars, LogInv, FileFine
  <2> QED
    BY <2>1, LogInvRecord, LogInvPut, LogInvFlush, LogInvDirect, LogInvFails, LogInvDrop,
       LogInvDead DEF Next
<1> QED
  BY <1>1, LogInvInit, LogTypeCorrect, PTL DEF Spec

-----------------------------------------------------------------------------

LEMMA ReadIsReadOf == Read = ReadOf(file)
BY DEF Read, ReadOf

\* All that is on the disk is a beginning of itself.
LEMMA FileIsFine ==
    ASSUME TypeOK, LogInv
    PROVE  Fine(file, recorded, failed)
<1>1. file \in Seq(Tokens) /\ Len(file) \in 0..Len(file)
  BY LenProperties DEF TypeOK
<1>2. SubSeq(file, 1, Len(file)) = file
  BY <1>1, SubSeqFull
<1> QED
  BY <1>1, <1>2 DEF LogInv, FileFine

\* Whatever is cut off and whatever writes fail, what is read are events of the session, in
\* order, none twice, and none altered but the last, which may be cut short.
THEOREM OnlyGenuineRead == Spec => []ReadIsGenuine
<1>1. TypeOK /\ LogInv => ReadIsGenuine
  <2> SUFFICES ASSUME TypeOK, LogInv PROVE ReadIsGenuine
    OBVIOUS
  <2>1. Genuine(Read, recorded)
    BY FileIsFine, ReadIsReadOf DEF Fine
  <2> QED
    BY <2>1 DEF Genuine, ReadIsGenuine
<1> QED
  BY <1>1, LogInvariant, PTL

\* What a session that was closed leaves is read in full, but for what failed.
LEMMA ClosedRead ==
    ASSUME TypeOK, LogInv, phase = "closed"
    PROVE  /\ Read = Done(file) \o ParseEventLine(Rest(file))
           /\ Done(file) \in Seq(ParsedEvent)
           /\ ParseEventLine(Rest(file)) \in Seq(ParsedEvent)
           /\ Legible(file, recorded, Len(recorded), failed)
<1>1. Legible(file, recorded, Len(recorded), failed)
  BY DEF LogInv
<1>2. file \in Seq(Tokens) /\ HasHeader(file) /\ Ended(file)
  BY <1>1 DEF Legible
<1>3. Read = Done(file) \o ParseEventLine(Rest(file))
  BY <1>2, ParseReads DEF Read
<1>4. Done(file) \in Seq(ParsedEvent) /\ Rest(file) \in Seq(Tokens)
  BY <1>2, EndedType
<1> QED
  BY <1>1, <1>3, <1>4, ParseType

\* Without a failed write, a session that is cut off anywhere replays as a beginning of what was
\* shown, and a session that was closed in full.
THEOREM ReplaysABeginning == Spec => []ReplayIsPrefix
<1>1. TypeOK /\ LogInv => ReplayIsPrefix
  <2> SUFFICES ASSUME TypeOK, LogInv, faults = 0 PROVE
            /\ IsPrefix(Shown(Read), Shown(recorded))
            /\ phase = "closed" => Read = recorded
    BY DEF ReplayIsPrefix
  <2>1. failed = 0 /\ recorded \in Seq(Event) /\ file \in Seq(Tokens)
    BY DEF TypeOK
  <2>2. CutShort(Read, recorded)
    BY <2>1, FileIsFine, ReadIsReadOf DEF Fine
  <2>3. Read \in Seq(ParsedEvent)
    BY <2>1, ReadIsReadOf, ReadType
  <2>4. IsPrefix(Shown(Read), Shown(recorded))
    BY <2>1, <2>2, <2>3, ShownPrefix
  <2>5. ASSUME phase = "closed" PROVE Read = recorded
    <3> DEFINE done == Done(file)
               rest == Rest(file)
               n == Len(recorded)
    <3>1. /\ Read = done \o ParseEventLine(rest) /\ done \in Seq(ParsedEvent)
          /\ Legible(file, recorded, n, failed)
      BY <2>5, ClosedRead
    <3>2. Len(done) = n /\ \A k \in 1..n : done[k] = recorded[k]
      BY <2>1, <3>1 DEF Legible, Whole
    <3>3. n \in Nat /\ Len(done) \in Nat
      BY <2>1, <3>1, LenProperties
    <3>4. rest = << >>
      <4>1. rest # << >> => n - Len(done) + 1 <= 2 * failed
        BY <3>1 DEF Legible
      <4> HIDE DEF n, done, rest
      <4> QED
        BY <2>1, <3>2, <3>3, <4>1
    <3>5. ParseEventLine(rest) = << >>
      <4>1. << >> \in Seq(Tokens) /\ Len(<< >>) < 4
        OBVIOUS
      <4> QED
        BY <3>4, <4>1, ParseType
    <3> HIDE DEF done, rest
    <3>6. Read = done
      BY <3>1, <3>5, ConcatEmptySeq
    <3>7. recorded \in Seq(ParsedEvent)
      <4>1. Event \subseteq ParsedEvent
        <5>1. Bytes \subseteq Nat
          BY BytesAssumption
        <5>2. \A s \in Seq(Bytes) : s \in Seq(Nat)
          BY <5>1, SeqMonotonic
        <5> QED
          BY <5>2 DEF Event, ParsedEvent
      <4> QED
        BY <2>1, <4>1, SeqMonotonic
    <3>8. done = recorded
      BY <3>1, <3>2, <3>7, SeqEqual
    <3> QED
      BY <3>6, <3>8
  <2> QED
    BY <2>4, <2>5
<1> QED
  BY <1>1, LogInvariant, PTL

\* Each failed write costs at most two events: its own, and the next, which its line runs into.
THEOREM LossIsBounded == Spec => []LossBounded
<1>1. TypeOK /\ LogInv => LossBounded
  <2> SUFFICES ASSUME TypeOK, LogInv, phase = "closed"
               PROVE  Len(recorded) - Len(Read) <= 2 * failed
    BY DEF LossBounded
  <2> DEFINE done == Done(file)
             last == ParseEventLine(Rest(file))
             n == Len(recorded)
             d == Len(done)
             l == Len(last)
             r == Len(Read)
  <2>1. /\ Read = done \o last /\ done \in Seq(ParsedEvent) /\ last \in Seq(ParsedEvent)
        /\ Legible(file, recorded, n, failed)
    BY ClosedRead
  <2>2. n - d <= 2 * failed \/ n - d + 1 <= 2 * failed
    BY <2>1 DEF Legible
  <2>3. n \in Nat /\ failed \in Nat
    BY LenProperties, LogBoundAssumption DEF TypeOK
  <2> HIDE DEF done, last
  <2>4. d \in Nat /\ l \in Nat /\ r = d + l
    BY <2>1, ConcatProperties, LenProperties
  <2> HIDE DEF n, d, l, r
  <2>5. n - r <= 2 * failed
    BY <2>2, <2>3, <2>4
  <2> QED
    BY <2>5 DEF n, r
<1> QED
  BY <1>1, LogInvariant, PTL
=============================================================================
