------------------------- MODULE EchoPredictionProofs -------------------------
(***************************************************************************)
(* Theorems about EchoPrediction, for every keyboard, every remote side    *)
(* and, but for ScreenTruthful, any number of outstanding guesses.         *)
(***************************************************************************)
EXTENDS EchoPrediction, FoldLemmas

-----------------------------------------------------------------------------
\* Render, glyph by glyph.

\* What one more glyph makes of the screen.
Draw(shown, g) ==
    CASE g = "bs" -> IF shown = << >> \/ Last(shown) = "nl"
                     THEN shown ELSE Front(shown)
      [] g \in {"mb1"} \cup Parts -> shown
      [] OTHER -> Append(shown, g)

\* The function Render is defined by, from a set of indices of text.
Drawn(s, text) ==
    CHOOSE f : f = [I \in SUBSET (DOMAIN text) |->
                      IF I = {} THEN s ELSE Draw(f[I \ {Max(I)}], text[Max(I)])]

\* What shows after the first k glyphs.
After(s, text, k) == Drawn(s, text)[1..k]

\* A glyph keeps a screen a screen.
LEMMA DrawType ==
    ASSUME NEW s \in Seq(Glyphs), NEW g \in Glyphs
    PROVE  Draw(s, g) \in Seq(Glyphs)
<1>1. s # << >> => Front(s) \in Seq(Glyphs)
  <2> SUFFICES ASSUME s # << >> PROVE Front(s) \in Seq(Glyphs)
    OBVIOUS
  <2>1. Len(s) \in Nat /\ Len(s) # 0
    BY EmptySeq, LenProperties
  <2>2. 1 \in 1..Len(s) + 1 /\ Len(s) - 1 \in 0..Len(s)
    BY <2>1
  <2> QED
    BY <2>2, <2>1, SubSeqProperties DEF Front
<1>2. Append(s, g) \in Seq(Glyphs)
  OBVIOUS
<1> HIDE DEF Glyphs
<1> QED
  BY <1>1, <1>2 DEF Draw

\* Render is the drawing of its glyphs one after the other.
LEMMA RenderUnfolds ==
    ASSUME NEW s \in Seq(Glyphs), NEW text \in Seq(Glyphs)
    PROVE  /\ Render(s, text) = After(s, text, Len(text))
           /\ After(s, text, 0) = s
           /\ \A k \in Nat : k + 1 <= Len(text) =>
                After(s, text, k + 1) = Draw(After(s, text, k), text[k + 1])
<1> DEFINE n == Len(text)
           V == Seq(Glyphs)
           step == [i \in 1..n |-> [v \in V |-> Draw(v, text[i])]]
           F == Drawn(s, text)
<1>1. n \in Nat /\ DOMAIN text = 1..n /\ \A i \in 1..n : text[i] \in Glyphs
  BY LenProperties, ElementOfSeq
<1>2. step \in [1..n -> [V -> V]]
  BY <1>1, DrawType
<1>3. PICK f : IsFold(f, V, s, n, step)
  <2> HIDE DEF n, V, step
  <2>1. s \in V
    BY DEF V
  <2> QED
    BY <1>1, <1>2, <2>1, FoldExists
<1>4. /\ f \in [SUBSET (1..n) -> V]
      /\ \A I \in SUBSET (1..n) :
            f[I] = IF I = {} THEN s ELSE step[Max(I)][f[I \ {Max(I)}]]
  BY <1>3 DEF IsFold
<1>5. ASSUME NEW I \in SUBSET (1..n)
      PROVE  f[I] = IF I = {} THEN s ELSE Draw(f[I \ {Max(I)}], text[Max(I)])
  <2>1. CASE I = {}
    BY <1>4, <2>1
  <2>2. CASE I # {}
    <3>1. Max(I) \in 1..n
      <4>1. \E x \in I : \A y \in I : x >= y
        BY <1>1, <2>2, MaxExists
      <4> QED
        BY <4>1 DEF Max
    <3>2. f[I \ {Max(I)}] \in V
      BY <1>4
    <3> QED
      BY <1>4, <2>2, <3>1, <3>2
  <2> QED
    BY <2>1, <2>2
<1>6. f = [I \in SUBSET (DOMAIN text) |->
             IF I = {} THEN s ELSE Draw(f[I \ {Max(I)}], text[Max(I)])]
  <2> HIDE DEF step, n, V
  <2> QED
    BY <1>1, <1>4, <1>5
<1>7. F = [I \in SUBSET (DOMAIN text) |->
             IF I = {} THEN s ELSE Draw(F[I \ {Max(I)}], text[Max(I)])]
  BY <1>6 DEF Drawn
<1>8. Render(s, text) = F[DOMAIN text]
  BY DEF Render, Drawn, Draw, FoldLeft, MapThenFoldSet
<1> HIDE DEF F, step, V
<1>9. F[1..0] = s
  <2>1. 1..0 = {} /\ 1..0 \in SUBSET (DOMAIN text)
    OBVIOUS
  <2> QED
    BY <1>7, <2>1
<1>10. ASSUME NEW k \in Nat, k + 1 <= n
       PROVE  F[1..(k + 1)] = Draw(F[1..k], text[k + 1])
  <2>1. 1..(k + 1) \in SUBSET (DOMAIN text)
    BY <1>1, <1>10
  <2>2. Max(1..(k + 1)) = k + 1 /\ (1..(k + 1)) \ {k + 1} = 1..k /\ 1..(k + 1) # {}
    BY NextPrefix
  <2> QED
    BY <1>7, <2>1, <2>2
<1> QED
  BY <1>1, <1>8, <1>9, <1>10 DEF After, F

\* Whatever text comes, a screen it leaves.
LEMMA AfterType ==
    ASSUME NEW s \in Seq(Glyphs), NEW text \in Seq(Glyphs)
    PROVE  \A k \in Nat : k <= Len(text) => After(s, text, k) \in Seq(Glyphs)
<1> DEFINE T == {k \in Nat : k <= Len(text) => After(s, text, k) \in Seq(Glyphs)}
<1>1. 0 \in T
  BY RenderUnfolds
<1>2. ASSUME NEW k \in Nat, k \in T PROVE k + 1 \in T
  <2> SUFFICES ASSUME k + 1 <= Len(text) PROVE After(s, text, k + 1) \in Seq(Glyphs)
    OBVIOUS
  <2>1. Len(text) \in Nat
    BY LenProperties
  <2>2. k <= Len(text) /\ k + 1 \in 1..Len(text)
    BY <2>1
  <2>3. After(s, text, k) \in Seq(Glyphs) /\ text[k + 1] \in Glyphs
    BY <1>2, <2>2, ElementOfSeq
  <2> QED
    BY <2>3, RenderUnfolds, DrawType
<1> HIDE DEF T
<1>3. \A k \in Nat : k \in T
  BY <1>1, <1>2, SetInduction
<1> QED
  BY <1>3 DEF T

LEMMA RenderType ==
    ASSUME NEW s \in Seq(Glyphs), NEW text \in Seq(Glyphs)
    PROVE  Render(s, text) \in Seq(Glyphs)
<1>1. Len(text) \in Nat /\ Len(text) <= Len(text)
  BY LenProperties
<1> QED
  BY <1>1, AfterType, RenderUnfolds

\* No text changes nothing.
LEMMA RenderEmpty ==
    ASSUME NEW s \in Seq(Glyphs)
    PROVE  Render(s, << >>) = s
<1>1. << >> \in Seq(Glyphs) /\ Len(<< >>) = 0
  OBVIOUS
<1> QED
  BY <1>1, RenderUnfolds

\* What shows after k glyphs depends on these alone.
LEMMA AfterAgrees ==
    ASSUME NEW s \in Seq(Glyphs), NEW t \in Seq(Glyphs), NEW u \in Seq(Glyphs),
           Len(t) <= Len(u), \A i \in 1..Len(t) : t[i] = u[i]
    PROVE  After(s, u, Len(t)) = Render(s, t)
<1> DEFINE n == Len(t)
           T == {k \in Nat : k <= n => After(s, u, k) = After(s, t, k)}
<1>1. n \in Nat /\ Len(u) \in Nat
  BY LenProperties
<1>2. 0 \in T
  BY RenderUnfolds
<1>3. ASSUME NEW k \in Nat, k \in T PROVE k + 1 \in T
  <2> SUFFICES ASSUME k + 1 <= n PROVE After(s, u, k + 1) = After(s, t, k + 1)
    OBVIOUS
  <2>1. k <= n /\ k + 1 \in 1..n /\ k + 1 <= Len(u)
    BY <1>1
  <2>2. After(s, u, k) = After(s, t, k) /\ t[k + 1] = u[k + 1]
    BY <1>3, <2>1
  <2>3. After(s, u, k + 1) = Draw(After(s, u, k), u[k + 1])
    BY <2>1, RenderUnfolds
  <2>4. After(s, t, k + 1) = Draw(After(s, t, k), t[k + 1])
    BY <2>1, RenderUnfolds
  <2> QED
    BY <2>2, <2>3, <2>4
<1>4. n \in T
  <2> HIDE DEF T
  <2> QED
    BY <1>1, <1>2, <1>3, SetInduction
<1>5. After(s, u, n) = After(s, t, n)
  BY <1>1, <1>4
<1> QED
  BY <1>5, RenderUnfolds

\* Two texts one after the other.
LEMMA RenderConcat ==
    ASSUME NEW s \in Seq(Glyphs), NEW t \in Seq(Glyphs), NEW u \in Seq(Glyphs)
    PROVE  Render(s, t \o u) = Render(Render(s, t), u)
<1> DEFINE w == t \o u
           n == Len(t)
           m == Len(u)
           r == Render(s, t)
           T == {k \in Nat : k <= m => After(s, w, n + k) = After(r, u, k)}
<1>1. n \in Nat /\ m \in Nat
  BY LenProperties
<1>2. /\ w \in Seq(Glyphs) /\ Len(w) = n + m
      /\ \A i \in 1..n + m : w[i] = IF i <= n THEN t[i] ELSE u[i - n]
  BY ConcatProperties
<1>3. r \in Seq(Glyphs)
  BY RenderType
<1> HIDE DEF w, r
<1>4. 0 \in T
  <2>1. n <= Len(w) /\ n + 0 = n /\ \A i \in 1..n : t[i] = w[i]
    BY <1>1, <1>2
  <2>2. After(s, w, n) = r
    BY <1>2, <2>1, AfterAgrees DEF r
  <2>3. After(r, u, 0) = r
    BY <1>3, RenderUnfolds
  <2> QED
    BY <2>1, <2>2, <2>3
<1>5. ASSUME NEW k \in Nat, k \in T PROVE k + 1 \in T
  <2> SUFFICES ASSUME k + 1 <= m PROVE After(s, w, n + (k + 1)) = After(r, u, k + 1)
    OBVIOUS
  <2>1. /\ k <= m /\ n + k \in Nat /\ (n + k) + 1 <= Len(w) /\ n + (k + 1) = (n + k) + 1
        /\ (n + k) + 1 \in 1..n + m /\ ~((n + k) + 1 <= n) /\ (n + k) + 1 - n = k + 1
    BY <1>1, <1>2
  <2>2. After(s, w, n + k) = After(r, u, k)
    BY <1>5, <2>1
  <2>3. w[(n + k) + 1] = u[k + 1]
    BY <1>2, <2>1
  <2>4. After(s, w, (n + k) + 1) = Draw(After(s, w, n + k), w[(n + k) + 1])
    BY <1>2, <2>1, RenderUnfolds
  <2>5. After(r, u, k + 1) = Draw(After(r, u, k), u[k + 1])
    BY <1>3, RenderUnfolds
  <2> QED
    BY <2>1, <2>2, <2>3, <2>4, <2>5
<1>6. m \in T
  <2> HIDE DEF T
  <2> QED
    BY <1>1, <1>4, <1>5, SetInduction
<1>7. After(s, w, n + m) = After(r, u, m)
  BY <1>1, <1>6
<1>8. Render(s, w) = After(s, w, Len(w))
  BY <1>2, RenderUnfolds
<1>9. Render(r, u) = After(r, u, m)
  BY <1>3, RenderUnfolds
<1>10. Render(s, w) = Render(r, u)
  BY <1>2, <1>7, <1>8, <1>9
<1> QED
  BY <1>10 DEF w, r

\* The guesses that can be taken back: visible, and all on one line.
Quiet == {"a", "b"}

\* Such text shows as it stands.
LEMMA RenderQuiet ==
    ASSUME NEW s \in Seq(Glyphs), NEW p \in Seq(Quiet)
    PROVE  Render(s, p) = s \o p
<1> DEFINE n == Len(p)
           T == {k \in Nat : k <= n => After(s, p, k) = s \o SubSeq(p, 1, k)}
<1>1. p \in Seq(Glyphs)
  BY SeqMonotonic DEF Quiet, Glyphs, Printable
<1>2. n \in Nat
  BY LenProperties
<1>3. 0 \in T
  <2>1. SubSeq(p, 1, 0) = << >>
    BY SubSeqEmpty
  <2>2. s \o << >> = s
    BY ConcatEmptySeq
  <2> QED
    BY <1>1, <2>1, <2>2, RenderUnfolds
<1>4. ASSUME NEW k \in Nat, k \in T PROVE k + 1 \in T
  <2> SUFFICES ASSUME k + 1 <= n PROVE After(s, p, k + 1) = s \o SubSeq(p, 1, k + 1)
    OBVIOUS
  <2>1. k <= n /\ k + 1 \in 1..n
    BY <1>2
  <2>2. After(s, p, k) = s \o SubSeq(p, 1, k) /\ p[k + 1] \in Quiet
    BY <1>4, <2>1, ElementOfSeq
  <2>3. After(s, p, k + 1) = Draw(After(s, p, k), p[k + 1])
    BY <1>1, RenderUnfolds
  <2>4. Draw(After(s, p, k), p[k + 1]) = Append(After(s, p, k), p[k + 1])
    BY <2>2 DEF Draw, Quiet, Parts
  <2>5. s \o SubSeq(p, 1, k + 1) = Append(s \o SubSeq(p, 1, k), p[k + 1])
    BY <1>1, GrowPrefix
  <2> QED
    BY <2>2, <2>3, <2>4, <2>5
<1>5. n \in T
  <2> HIDE DEF T
  <2> QED
    BY <1>2, <1>3, <1>4, SetInduction
<1>6. After(s, p, n) = s \o SubSeq(p, 1, n)
  BY <1>2, <1>5
<1>7. SubSeq(p, 1, n) = p
  BY SubSeqFull
<1> QED
  BY <1>1, <1>6, <1>7, RenderUnfolds

\* As many erase sequences as it has columns take it back.
LEMMA RenderErase ==
    ASSUME NEW s \in Seq(Glyphs), NEW p \in Seq(Quiet)
    PROVE  /\ Erase(Len(p)) \in Seq(Glyphs)
           /\ Render(s \o p, Erase(Len(p))) = s
<1> DEFINE n == Len(p)
           e == Erase(n)
           x == s \o p
           T == {k \in Nat : k <= n => After(x, e, k) = s \o SubSeq(p, 1, n - k)}
<1>1. p \in Seq(Glyphs) /\ n \in Nat /\ x \in Seq(Glyphs)
  <2>1. p \in Seq(Glyphs)
    BY SeqMonotonic DEF Quiet, Glyphs, Printable
  <2> QED
    BY <2>1, LenProperties, ConcatProperties
<1>2. e \in Seq(Glyphs) /\ Len(e) = n /\ \A i \in 1..n : e[i] = "bs"
  BY <1>1 DEF Erase, Glyphs
<1> HIDE DEF x, e
<1>3. 0 \in T
  <2>1. SubSeq(p, 1, n) = p /\ n - 0 = n
    BY <1>1, SubSeqFull
  <2> QED
    BY <1>1, <1>2, <2>1, RenderUnfolds DEF x
<1>4. ASSUME NEW k \in Nat, k \in T PROVE k + 1 \in T
  <2> DEFINE j == n - (k + 1)
  <2> SUFFICES ASSUME k + 1 <= n PROVE After(x, e, k + 1) = s \o SubSeq(p, 1, j)
    OBVIOUS
  <2>1. /\ j \in Nat /\ j + 1 <= n /\ j + 1 = n - k /\ k <= n
        /\ j + 1 \in 1..n /\ k + 1 \in 1..n
    BY <1>1
  <2>2. After(x, e, k) = s \o SubSeq(p, 1, j + 1)
    BY <1>4, <2>1
  <2> HIDE DEF j
  <2> DEFINE y == s \o SubSeq(p, 1, j)
  <2>3. y \in Seq(Glyphs) /\ s \o SubSeq(p, 1, j + 1) = Append(y, p[j + 1])
    BY <1>1, <2>1, GrowPrefix
  <2>4. p[j + 1] \in Quiet /\ p[j + 1] \in Glyphs
    BY <1>1, <2>1, ElementOfSeq
  <2> HIDE DEF y
  <2>5. /\ Append(y, p[j + 1]) # << >>
        /\ Last(Append(y, p[j + 1])) = p[j + 1]
        /\ Front(Append(y, p[j + 1])) = y
    BY <2>3, <2>4, FrontOfAppend
  <2>6. Draw(Append(y, p[j + 1]), "bs") = y
    BY <2>4, <2>5 DEF Draw, Quiet, Parts
  <2>7. After(x, e, k + 1) = Draw(After(x, e, k), e[k + 1])
    BY <1>1, <1>2, <2>1, RenderUnfolds
  <2> QED
    BY <1>2, <2>1, <2>2, <2>3, <2>6, <2>7 DEF y
<1>5. n \in T
  <2> HIDE DEF T
  <2> QED
    BY <1>1, <1>3, <1>4, SetInduction
<1>6. After(x, e, n) = s \o SubSeq(p, 1, 0)
  <2>1. n <= n /\ n - n = 0
    BY <1>1
  <2> QED
    BY <1>5, <2>1
<1>7. SubSeq(p, 1, 0) = << >> /\ s \o << >> = s
  BY SubSeqEmpty, ConcatEmptySeq
<1>8. Render(x, e) = After(x, e, Len(e))
  BY <1>1, <1>2, RenderUnfolds
<1>9. Render(x, e) = s
  BY <1>2, <1>6, <1>7, <1>8
<1> QED
  BY <1>2, <1>9 DEF x, e

-----------------------------------------------------------------------------
\* VisibleCols, glyph by glyph.

\* The columns after one more glyph.
Widen(n, g) == CASE g = "nl" -> 0
                 [] g = "bs" -> IF n > 0 THEN n - 1 ELSE 0
                 [] g \in Printable -> n + 1
                 [] OTHER -> n

\* The function VisibleCols is defined by, and the columns of k glyphs.
Widths(text) ==
    CHOOSE f : f = [I \in SUBSET (DOMAIN text) |->
                      IF I = {} THEN 0 ELSE Widen(f[I \ {Max(I)}], text[Max(I)])]

ColsOf(text, k) == Widths(text)[1..k]

\* visible_cols counts its glyphs one after the other.
LEMMA ColsUnfold ==
    ASSUME NEW text \in Seq(Glyphs)
    PROVE  /\ VisibleCols(text) = ColsOf(text, Len(text))
           /\ ColsOf(text, 0) = 0
           /\ \A k \in Nat : k + 1 <= Len(text) =>
                ColsOf(text, k + 1) = Widen(ColsOf(text, k), text[k + 1])
<1> DEFINE n == Len(text)
           step == [i \in 1..n |-> [v \in Nat |-> Widen(v, text[i])]]
           F == Widths(text)
<1>1. n \in Nat /\ DOMAIN text = 1..n
  BY LenProperties
<1>2. step \in [1..n -> [Nat -> Nat]]
  <2>1. \A v \in Nat : \A g : Widen(v, g) \in Nat
    BY DEF Widen
  <2> QED
    BY <2>1
<1>3. PICK f : IsFold(f, Nat, 0, n, step)
  <2> HIDE DEF n, step
  <2> QED
    BY <1>1, <1>2, FoldExists
<1>4. /\ f \in [SUBSET (1..n) -> Nat]
      /\ \A I \in SUBSET (1..n) :
            f[I] = IF I = {} THEN 0 ELSE step[Max(I)][f[I \ {Max(I)}]]
  BY <1>3 DEF IsFold
<1>5. ASSUME NEW I \in SUBSET (1..n)
      PROVE  f[I] = IF I = {} THEN 0 ELSE Widen(f[I \ {Max(I)}], text[Max(I)])
  <2>1. CASE I = {}
    BY <1>4, <2>1
  <2>2. CASE I # {}
    <3>1. Max(I) \in 1..n
      <4>1. \E x \in I : \A y \in I : x >= y
        BY <1>1, <2>2, MaxExists
      <4> QED
        BY <4>1 DEF Max
    <3>2. f[I \ {Max(I)}] \in Nat
      BY <1>4
    <3> QED
      BY <1>4, <2>2, <3>1, <3>2
  <2> QED
    BY <2>1, <2>2
<1>6. f = [I \in SUBSET (DOMAIN text) |->
             IF I = {} THEN 0 ELSE Widen(f[I \ {Max(I)}], text[Max(I)])]
  <2> HIDE DEF step, n
  <2> QED
    BY <1>1, <1>4, <1>5
<1>7. F = [I \in SUBSET (DOMAIN text) |->
             IF I = {} THEN 0 ELSE Widen(F[I \ {Max(I)}], text[Max(I)])]
  BY <1>6 DEF Widths
<1>8. VisibleCols(text) = F[DOMAIN text]
  BY DEF VisibleCols, Widths, Widen, FoldLeft, MapThenFoldSet
<1> HIDE DEF F, step
<1>9. F[1..0] = 0
  <2>1. 1..0 = {} /\ 1..0 \in SUBSET (DOMAIN text)
    OBVIOUS
  <2> QED
    BY <1>7, <2>1
<1>10. ASSUME NEW k \in Nat, k + 1 <= n
       PROVE  F[1..(k + 1)] = Widen(F[1..k], text[k + 1])
  <2>1. 1..(k + 1) \in SUBSET (DOMAIN text)
    BY <1>1, <1>10
  <2>2. Max(1..(k + 1)) = k + 1 /\ (1..(k + 1)) \ {k + 1} = 1..k /\ 1..(k + 1) # {}
    BY NextPrefix
  <2> QED
    BY <1>7, <2>1, <2>2
<1> QED
  BY <1>1, <1>8, <1>9, <1>10 DEF ColsOf, F

\* The columns are a number, whatever the text.
LEMMA ColsType ==
    ASSUME NEW text \in Seq(Glyphs)
    PROVE  VisibleCols(text) \in Nat
<1> DEFINE n == Len(text)
           T == {k \in Nat : k <= n => ColsOf(text, k) \in Nat}
<1>1. n \in Nat
  BY LenProperties
<1>2. 0 \in T
  BY ColsUnfold
<1>3. ASSUME NEW k \in Nat, k \in T PROVE k + 1 \in T
  <2> SUFFICES ASSUME k + 1 <= n PROVE ColsOf(text, k + 1) \in Nat
    OBVIOUS
  <2>1. ColsOf(text, k) \in Nat
    BY <1>1, <1>3
  <2>2. ColsOf(text, k + 1) = Widen(ColsOf(text, k), text[k + 1])
    BY ColsUnfold
  <2> QED
    BY <2>1, <2>2 DEF Widen
<1>4. n \in T
  <2> HIDE DEF T
  <2> QED
    BY <1>1, <1>2, <1>3, SetInduction
<1>5. ColsOf(text, n) \in Nat
  BY <1>1, <1>4
<1> QED
  BY <1>5, ColsUnfold

\* Visible text on one line has a column for each glyph.
LEMMA ColsQuiet ==
    ASSUME NEW p \in Seq(Quiet)
    PROVE  VisibleCols(p) = Len(p)
<1> DEFINE n == Len(p)
           T == {k \in Nat : k <= n => ColsOf(p, k) = k}
<1>1. n \in Nat /\ p \in Seq(Glyphs)
  BY LenProperties, SeqMonotonic DEF Quiet, Glyphs, Printable
<1>2. 0 \in T
  BY <1>1, ColsUnfold
<1>3. ASSUME NEW k \in Nat, k \in T PROVE k + 1 \in T
  <2> SUFFICES ASSUME k + 1 <= n PROVE ColsOf(p, k + 1) = k + 1
    OBVIOUS
  <2>1. ColsOf(p, k) = k /\ k + 1 \in 1..n
    BY <1>1, <1>3
  <2>2. ColsOf(p, k + 1) = Widen(ColsOf(p, k), p[k + 1])
    BY <1>1, ColsUnfold
  <2>3. p[k + 1] \in Quiet
    BY <2>1, ElementOfSeq
  <2> QED
    BY <2>1, <2>2, <2>3 DEF Widen, Quiet, Printable
<1>4. n \in T
  <2> HIDE DEF T
  <2> QED
    BY <1>1, <1>2, <1>3, SetInduction
<1>5. ColsOf(p, n) = n
  BY <1>1, <1>4
<1> QED
  BY <1>1, <1>5, ColsUnfold

-----------------------------------------------------------------------------
\* What is predicted, and what is read.

Echoes == {"a", "b", "nl", "bs", "tab"}

\* predict() expects only echoes it knows, and of keys that leave the line
\* alone only visible ones.
LEMMA PredictionType ==
    ASSUME NEW batch \in Seq(Keys)
    PROVE  /\ Prediction(batch) \in Seq(Echoes)
           /\ Prediction(batch) \in Seq(Glyphs)
           /\ (\A i \in 1..Len(batch) : batch[i] \notin {"enter", "del", "tab"})
                => Prediction(batch) \in Seq(Quiet)
<1> DEFINE n == Len(batch)
           parts == [i \in 1..n |-> Echo(batch[i])]
<1>1. n \in Nat /\ \A i \in 1..n : batch[i] \in Keys
  BY LenProperties, ElementOfSeq
<1>2. \A key \in Keys : /\ Echo(key) \in Seq(Echoes)
                        /\ key \notin {"enter", "del", "tab"} => Echo(key) \in Seq(Quiet)
  <2>1. /\ <<"a">> \in Seq(Echoes) /\ <<"b">> \in Seq(Echoes) /\ <<"nl">> \in Seq(Echoes)
        /\ <<"bs">> \in Seq(Echoes) /\ << >> \in Seq(Echoes)
        /\ <<"tab">> \in Seq(Echoes)
        /\ <<"a">> \in Seq(Quiet) /\ <<"b">> \in Seq(Quiet) /\ << >> \in Seq(Quiet)
    BY DEF Echoes, Quiet
  <2>2. /\ Echo("a") = <<"a">> /\ Echo("b") = <<"b">> /\ Echo("ctrl") = << >>
        /\ Echo("enter") = <<"nl">> /\ Echo("del") = <<"bs">>
        /\ Echo("tab") = <<"tab">>
    BY DEF Echo
  <2> QED
    BY <2>1, <2>2 DEF Keys
<1>3. parts \in Seq(Seq(Echoes))
  <2>1. \A i \in 1..n : Echo(batch[i]) \in Seq(Echoes)
    BY <1>1, <1>2
  <2> QED
    BY <1>1, <2>1
<1>4. (\A i \in 1..n : batch[i] \notin {"enter", "del", "tab"}) => parts \in Seq(Seq(Quiet))
  <2> SUFFICES ASSUME \A i \in 1..n : batch[i] \notin {"enter", "del", "tab"}
               PROVE  parts \in Seq(Seq(Quiet))
    OBVIOUS
  <2>1. \A i \in 1..n : Echo(batch[i]) \in Seq(Quiet)
    BY <1>1, <1>2
  <2> QED
    BY <1>1, <2>1
<1>5. Prediction(batch) = FlattenSeq(parts)
  BY DEF Prediction
<1> HIDE DEF parts
<1>6. Prediction(batch) \in Seq(Echoes)
  BY <1>3, <1>5, FlattenType
<1>7. Prediction(batch) \in Seq(Glyphs)
  BY <1>6, SeqMonotonic DEF Echoes, Glyphs, Printable
<1>8. (\A i \in 1..n : batch[i] \notin {"enter", "del", "tab"})
        => Prediction(batch) \in Seq(Quiet)
  BY <1>4, <1>5, FlattenType
<1> QED
  BY <1>6, <1>7, <1>8

\* Each of the two parts is in the text with the other, in this order.
Paired(text, p, q) ==
    \A i \in 1..Len(text) :
        /\ text[i] = p => i + 1 \in 1..Len(text) /\ text[i + 1] = q
        /\ text[i] = q => i - 1 \in 1..Len(text) /\ text[i - 1] = p

\* No multi-byte character and no sequence for the alternate screen is cut.
Whole(text) == Paired(text, "mb1", "mb2")
Sequenced(text) == Paired(text, "on1", "on2")

\* from_utf8_lossy keeps text text, and whole text as it is.
LEMMA LossyType ==
    ASSUME NEW text \in Seq(Glyphs)
    PROVE  /\ Lossy(text) \in Seq(Glyphs)
           /\ Whole(text) => Lossy(text) = text
<1>1. /\ Len(text) \in Nat /\ DOMAIN text = 1..Len(text)
      /\ text \in [1..Len(text) -> Glyphs]
  BY LenProperties
<1>2. Lossy(text) \in Seq(Glyphs)
  <2>1. "bad" \in Glyphs
    BY DEF Glyphs
  <2>2. \A i \in 1..Len(text) :
           (IF \/ text[i] = "mb1" /\ (i = Len(text) \/ text[i+1] # "mb2")
               \/ text[i] = "mb2" /\ (i = 1 \/ text[i-1] # "mb1")
            THEN "bad" ELSE text[i]) \in Glyphs
    BY <1>1, <2>1
  <2> DEFINE out(i) == IF \/ text[i] = "mb1" /\ (i = Len(text) \/ text[i+1] # "mb2")
                          \/ text[i] = "mb2" /\ (i = 1 \/ text[i-1] # "mb1")
                       THEN "bad" ELSE text[i]
             n == Len(text)
  <2>3. n \in Nat /\ \A i \in 1..n : out(i) \in Glyphs
    BY <1>1, <2>2
  <2>4. Lossy(text) = [i \in 1..n |-> out(i)]
    BY DEF Lossy
  <2> HIDE DEF out, n
  <2>5. [i \in 1..n |-> out(i)] \in Seq(Glyphs)
    BY <2>3
  <2> QED
    BY <2>4, <2>5
<1>3. ASSUME Whole(text) PROVE Lossy(text) = text
  <2>1. \A i \in 1..Len(text) :
           ~( \/ text[i] = "mb1" /\ (i = Len(text) \/ text[i+1] # "mb2")
              \/ text[i] = "mb2" /\ (i = 1 \/ text[i-1] # "mb1"))
    <3> TAKE i \in 1..Len(text)
    <3>1. i + 1 \in 1..Len(text) => i # Len(text)
      <4> DEFINE n == Len(text)
      <4>1. n \in Nat /\ i \in 1..n
        BY <1>1
      <4> HIDE DEF n
      <4>2. i + 1 \in 1..n => i # n
        BY <4>1
      <4> QED
        BY <4>2 DEF n
    <3>2. i - 1 \in 1..Len(text) => i # 1
      BY <1>1
    <3> QED
      BY <1>3, <3>1, <3>2 DEF Whole, Paired
  <2>2. Lossy(text) = [i \in 1..Len(text) |-> text[i]]
    BY <2>1 DEF Lossy
  <2> QED
    BY <1>1, <2>2
<1> QED
  BY <1>2, <1>3

-----------------------------------------------------------------------------
\* Type correctness.

\* A part of a text is a text.
LEMMA CutType ==
    ASSUME NEW S, NEW text \in Seq(S), NEW n \in 1..Len(text)
    PROVE  /\ SubSeq(text, 1, n) \in Seq(S) /\ Len(SubSeq(text, 1, n)) = n
           /\ \A i \in 1..n : SubSeq(text, 1, n)[i] = text[i]
           /\ SubSeq(text, n + 1, Len(text)) \in Seq(S)
           /\ Len(SubSeq(text, n + 1, Len(text))) = Len(text) - n
           /\ \A i \in 1..Len(text) - n :
                SubSeq(text, n + 1, Len(text))[i] = text[n + i]
<1> DEFINE l == Len(text)
<1>1. l \in Nat /\ (\A i \in 1..l : text[i] \in S) /\ n \in 1..l
  BY LenProperties, ElementOfSeq
<1> HIDE DEF l
<1>2. /\ SubSeq(text, 1, n) \in Seq(S) /\ Len(SubSeq(text, 1, n)) = n
      /\ \A i \in 1..n : SubSeq(text, 1, n)[i] = text[i]
  <2>1. \A i \in 1..n : text[i] \in S /\ 1 + i - 1 = i
    BY <1>1
  <2>2. 1 <= n /\ n - 1 + 1 = n /\ n \in Int
    BY <1>1
  <2> QED
    BY <2>1, <2>2, SubSeqProperties
<1>3. /\ SubSeq(text, n + 1, l) \in Seq(S)
      /\ Len(SubSeq(text, n + 1, l)) = l - n
      /\ \A i \in 1..l - n : SubSeq(text, n + 1, l)[i] = text[n + i]
  <2>1. \A i \in n + 1..l : text[i] \in S
    BY <1>1
  <2>2. n + 1 \in Int /\ l \in Int /\ l - (n + 1) + 1 = l - n
        /\ (~(n + 1 <= l) => l - n = 0)
    BY <1>1
  <2>3. \A i \in 1..l - n : (n + 1) + i - 1 = n + i
    BY <1>1
  <2>4. /\ SubSeq(text, n + 1, l) \in Seq(S)
        /\ Len(SubSeq(text, n + 1, l)) = IF n + 1 <= l THEN l - (n + 1) + 1 ELSE 0
        /\ \A i \in 1..l - (n + 1) + 1 : SubSeq(text, n + 1, l)[i] = text[(n + 1) + i - 1]
    BY <2>1, <2>2, SubSeqProperties
  <2> QED
    BY <2>2, <2>3, <2>4
<1> QED
  BY <1>2, <1>3 DEF l

\* One read of the PTY, with the text it reads and the guesses it finds.
Reads(n) ==
    LET read == SubSeq(outq, 1, n)
        left == PendingAfterModes(read)
    IN  /\ SplitChars \/ read[n] # "mb1"
        /\ SplitSequences \/ read[n] \notin {"on1", "off1"}
        /\ outq' = SubSeq(outq, n + 1, Len(outq))
        /\ truth' = Render(truth, read)
        /\ alt' = AltAfter(read)
        /\ passthrough' = PassthroughAfter(read)
        /\ forgotten' = (forgotten \/ left # pending)
        /\ IF left = << >>
           THEN Show(read) /\ pending' = left
           ELSE /\ Confirm(read, Head(left)) \/ Mispredict(read, Head(left))
                /\ pending' = Tail(left)
        /\ UNCHANGED <<toServer, counters>>

\* A correction is drawn on a screen and leaves one.
LEMMA CorrectionType ==
    ASSUME NEW s \in Seq(Glyphs), NEW read \in Seq(Glyphs), NEW n \in Nat
    PROVE  Render(s, Erase(n) \o Lossy(read)) \in Seq(Glyphs)
<1>1. Erase(n) \in Seq(Glyphs)
  BY DEF Erase, Glyphs
<1>2. Lossy(read) \in Seq(Glyphs)
  BY LossyType
<1>3. Erase(n) \o Lossy(read) \in Seq(Glyphs)
  BY <1>1, <1>2, ConcatProperties
<1> QED
  BY <1>3, RenderType

\* Every variable keeps its type, whatever is typed, echoed and written: no
\* screen goes wrong by an erase too many, and the miss streak, the columns and
\* the guesses stay what they are.
THEOREM EchoTypeCorrect == Spec => []TypeOK
<1>1. Init => TypeOK
  <2>1. /\ << >> \in Seq(Seq(Echoes)) /\ Len(<< >>) = 0
        /\ << >> \in Seq(Glyphs) /\ << >> \in Seq(Batches)
    OBVIOUS
  <2>2. 0 \in 0..MaxTyped /\ 0 \in 0..MaxTalk /\ 0 \in 0..MaxReconnects
        /\ 0 <= MaxPending /\ 0 \in Nat
    BY BoundAssumption
  <2>3. \A x \in StartRaw : x \in BOOLEAN
    BY BoundAssumption
  <2> SUFFICES ASSUME Init PROVE TypeOK
    OBVIOUS
  <2>4. passthrough \in BOOLEAN
    BY <2>3 DEF Init
  <2> QED
    BY <2>1, <2>2, <2>4 DEF Init, TypeOK, Echoes
<1>2. TypeOK /\ [Next]_vars => TypeOK'
  <2> SUFFICES ASSUME TypeOK, [Next]_vars PROVE TypeOK'
    OBVIOUS
  <2>0. /\ pending \in Seq(Seq(Echoes)) /\ Len(pending) <= MaxPending
        /\ missStreak \in Nat /\ enabled \in BOOLEAN /\ cols \in Nat
        /\ passthrough \in BOOLEAN /\ forgotten \in BOOLEAN /\ alt \in BOOLEAN
        /\ screen \in Seq(Glyphs) /\ truth \in Seq(Glyphs)
        /\ toServer \in Seq(Batches) /\ outq \in Seq(Glyphs)
        /\ typed \in 0..MaxTyped /\ talked \in 0..MaxTalk
        /\ reconnects \in 0..MaxReconnects
    BY DEF TypeOK, Echoes
  <2>1. ASSUME NEW batch \in Batches, Flush(batch) PROVE TypeOK'
    <3> DEFINE guess == Prediction(batch)
    <3>1. guess \in Seq(Echoes) /\ guess \in Seq(Glyphs)
      BY TextAssumption, PredictionType
    <3> HIDE DEF guess
    <3>2. VisibleCols(guess) \in Nat /\ Render(screen, guess) \in Seq(Glyphs)
      BY <2>0, <3>1, ColsType, RenderType
    <3>3. \/ /\ pending' = Append(pending, guess) /\ Len(pending) < MaxPending
             /\ cols' = cols + VisibleCols(guess)
             /\ screen' = Render(screen, guess)
          \/ pending' = pending /\ cols' = cols /\ screen' = screen
      BY <2>1 DEF Flush, guess
    <3>4. /\ Append(pending, guess) \in Seq(Seq(Echoes))
          /\ Len(Append(pending, guess)) = Len(pending) + 1
          /\ Len(pending) \in Nat
      BY <2>0, <3>1, AppendProperties, LenProperties
    <3>5. /\ pending' \in Seq(Seq(Echoes)) /\ cols' \in Nat /\ screen' \in Seq(Glyphs)
      <4>1. cols + VisibleCols(guess) \in Nat
        BY <2>0, <3>2
      <4> QED
        BY <2>0, <3>2, <3>3, <3>4, <4>1
    <3>6. Len(pending') <= MaxPending
      BY <2>0, <3>3, <3>4, BoundAssumption
    <3>7. toServer' \in Seq(Batches)
      BY <2>0, <2>1, AppendProperties DEF Flush
    <3>8. typed' \in 0..MaxTyped
      BY <2>0, <2>1, BoundAssumption DEF Flush
    <3>9. UNCHANGED <<missStreak, enabled, passthrough, forgotten, truth, alt, outq,
                      talked, reconnects>>
      BY <2>1 DEF Flush
    <3> QED
      BY <2>0, <3>5, <3>6, <3>7, <3>8, <3>9 DEF TypeOK, Echoes
  <2>2. ASSUME NEW n \in 1..Len(outq), Reads(n) PROVE TypeOK'
    <3> DEFINE read == SubSeq(outq, 1, n)
               left == PendingAfterModes(read)
    <3>1. read \in Seq(Glyphs) /\ outq' \in Seq(Glyphs)
      BY <2>0, <2>2, CutType DEF Reads
    <3> HIDE DEF read
    <3>2. /\ truth' = Render(truth, read) /\ alt' = AltAfter(read)
          /\ passthrough' = PassthroughAfter(read)
          /\ forgotten' = (forgotten \/ left # pending)
          /\ \/ left = << >> /\ Show(read) /\ pending' = left
             \/ /\ left # << >> /\ pending' = Tail(left)
                /\ Confirm(read, Head(left)) \/ Mispredict(read, Head(left))
          /\ UNCHANGED <<toServer, counters>>
      BY <2>2 DEF Reads, read
    <3>3. truth' \in Seq(Glyphs)
      BY <2>0, <3>1, <3>2, RenderType
    <3>4. alt' \in BOOLEAN /\ passthrough' \in BOOLEAN /\ forgotten' \in BOOLEAN
          /\ EnabledAfterModes(read) \in BOOLEAN
      BY <2>0, <3>2 DEF AltAfter, PassthroughAfter, EnabledAfterModes
    <3>5. left = << >> \/ left = pending
      BY DEF PendingAfterModes
    <3>6. pending' \in Seq(Seq(Echoes)) /\ Len(pending') <= MaxPending
      <4>1. CASE left = << >>
        <5>1. << >> \in Seq(Seq(Echoes)) /\ Len(<< >>) = 0
          OBVIOUS
        <5> QED
          BY <3>2, <4>1, <5>1, BoundAssumption
      <4>2. CASE left # << >>
        <5>1. pending' = Tail(pending) /\ pending # << >>
          BY <3>2, <3>5, <4>2
        <5>2. Tail(pending) \in Seq(Seq(Echoes)) /\ Len(Tail(pending)) = Len(pending) - 1
              /\ Len(pending) \in Nat
          BY <2>0, <5>1, HeadTailProperties, LenProperties
        <5> QED
          BY <2>0, <5>1, <5>2, BoundAssumption
      <4> QED
        BY <4>1, <4>2
    <3>7. /\ missStreak' \in Nat /\ enabled' \in BOOLEAN /\ cols' \in Nat
          /\ screen' \in Seq(Glyphs)
      <4>1. CASE Show(read)
        <5>1. Render(screen, read) \in Seq(Glyphs)
          BY <2>0, <3>1, RenderType
        <5> QED
          BY <2>0, <3>4, <4>1, <5>1 DEF Show
      <4>2. CASE Confirm(read, Head(left))
        BY <2>0, <3>4, <4>2 DEF Confirm
      <4>3. CASE Mispredict(read, Head(left))
        <5>1. Render(screen, Erase(cols) \o Lossy(read)) \in Seq(Glyphs)
          BY <2>0, <3>1, CorrectionType
        <5> QED
          BY <2>0, <3>4, <4>3, <5>1 DEF Mispredict
      <4> QED
        BY <3>2, <4>1, <4>2, <4>3
    <3> QED
      BY <2>0, <3>1, <3>2, <3>3, <3>4, <3>6, <3>7 DEF TypeOK, Echoes, counters
  <2>3. CASE Replace
    <3>1. << >> \in Seq(Seq(Echoes)) /\ Len(<< >>) = 0 /\ << >> \in Seq(Glyphs)
          /\ << >> \in Seq(Batches)
      OBVIOUS
    <3>2. reconnects' \in 0..MaxReconnects
      BY <2>0, <2>3, BoundAssumption DEF Replace
    <3>3. /\ pending' = << >> /\ missStreak' = 0 /\ enabled' = TRUE
          /\ toServer' = << >> /\ outq' = << >>
          /\ forgotten' = (forgotten \/ pending # << >>)
          /\ UNCHANGED <<cols, passthrough, screen, truth, alt, typed, talked>>
      BY <2>3 DEF Replace
    <3>4. forgotten' \in BOOLEAN /\ 0 <= MaxPending
      BY <3>3, BoundAssumption
    <3> QED
      BY <2>0, <3>1, <3>2, <3>3, <3>4 DEF TypeOK, Echoes
  <2>4. CASE Answer
    <3>1. toServer # << >> /\ toServer' = Tail(toServer)
      BY <2>4 DEF Answer
    <3>2. toServer' \in Seq(Batches) /\ Head(toServer) \in Batches
      BY <2>0, <3>1, HeadTailProperties
    <3>3. PICK text \in {Prediction(Head(toServer)), << >>, <<"x">>} :
            outq' = outq \o text
      BY <2>4 DEF Answer
    <3>4. text \in Seq(Glyphs)
      <4>1. Prediction(Head(toServer)) \in Seq(Glyphs)
        BY <3>2, TextAssumption, PredictionType
      <4>2. << >> \in Seq(Glyphs) /\ <<"x">> \in Seq(Glyphs)
        BY DEF Glyphs, Printable
      <4> QED
        BY <4>1, <4>2
    <3>5. outq' \in Seq(Glyphs)
      BY <2>0, <3>3, <3>4, ConcatProperties
    <3>6. UNCHANGED <<predictor, cols, passthrough, forgotten, screen, truth, alt,
                      counters>>
      BY <2>4 DEF Answer
    <3> QED
      BY <2>0, <3>2, <3>5, <3>6 DEF TypeOK, Echoes, predictor, counters
  <2>5. ASSUME NEW text \in Talk, Write(text) PROVE TypeOK'
    <3>1. outq' \in Seq(Glyphs)
      BY <2>0, <2>5, TextAssumption, ConcatProperties DEF Write
    <3>2. talked' \in 0..MaxTalk
      BY <2>0, <2>5, BoundAssumption DEF Write
    <3>3. UNCHANGED <<predictor, cols, passthrough, forgotten, screen, truth, alt,
                      toServer, typed, reconnects>>
      BY <2>5 DEF Write
    <3> QED
      BY <2>0, <3>1, <3>2, <3>3 DEF TypeOK, Echoes, predictor
  <2>6. CASE UNCHANGED vars
    BY <2>0, <2>6 DEF vars, TypeOK, Echoes
  <2>7. Reconcile => \E n \in 1..Len(outq) : Reads(n)
    BY DEF Reconcile, Reads
  <2> QED
    BY <2>1, <2>2, <2>3, <2>4, <2>5, <2>6, <2>7 DEF Next
<1> QED
  BY <1>1, <1>2, PTL DEF Spec

-----------------------------------------------------------------------------

\* What predict() expects has no such parts.
LEMMA EchoesWhole ==
    ASSUME NEW text \in Seq(Echoes)
    PROVE  Whole(text) /\ Sequenced(text)
<1>1. \A i \in 1..Len(text) : text[i] \in Echoes
  BY ElementOfSeq
<1> QED
  BY <1>1 DEF Whole, Sequenced, Paired, Echoes

\* What is paired in two texts is paired in one after the other.
LEMMA PairedConcat ==
    ASSUME NEW t \in Seq(Glyphs), NEW u \in Seq(Glyphs), NEW p, NEW q,
           Paired(t, p, q), Paired(u, p, q)
    PROVE  Paired(t \o u, p, q)
<1> DEFINE w == t \o u
           n == Len(t)
           m == Len(u)
<1>1. /\ n \in Nat /\ m \in Nat /\ Len(w) = n + m
      /\ \A i \in 1..n + m : w[i] = IF i <= n THEN t[i] ELSE u[i - n]
  BY ConcatProperties, LenProperties
<1>2. /\ \A i \in 1..n : /\ t[i] = p => i + 1 \in 1..n /\ t[i + 1] = q
                         /\ t[i] = q => i - 1 \in 1..n /\ t[i - 1] = p
      /\ \A i \in 1..m : /\ u[i] = p => i + 1 \in 1..m /\ u[i + 1] = q
                         /\ u[i] = q => i - 1 \in 1..m /\ u[i - 1] = p
  BY DEF Paired
<1> HIDE DEF w, n, m
<1>3. ASSUME NEW i \in 1..n
      PROVE  /\ w[i] = p => i + 1 \in 1..n + m /\ w[i + 1] = q
             /\ w[i] = q => i - 1 \in 1..n + m /\ w[i - 1] = p
  <2>1. \A j \in 1..n : j \in 1..n + m /\ w[j] = t[j]
    BY <1>1
  <2> QED
    BY <1>2, <2>1
<1>4. ASSUME NEW i \in 1..n + m, ~(i <= n)
      PROVE  /\ w[i] = p => i + 1 \in 1..n + m /\ w[i + 1] = q
             /\ w[i] = q => i - 1 \in 1..n + m /\ w[i - 1] = p
  <2>1. \A j \in 1..m : n + j \in 1..n + m /\ w[n + j] = u[j]
    <3> TAKE j \in 1..m
    <3>1. n + j \in 1..n + m /\ ~(n + j <= n) /\ n + j - n = j
      BY <1>1
    <3> QED
      BY <1>1, <3>1
  <2> DEFINE j == i - n
  <2>2. j \in 1..m /\ n + j = i /\ n + (j + 1) = i + 1 /\ n + (j - 1) = i - 1
    BY <1>1, <1>4
  <2> HIDE DEF j
  <2>3. w[i] = u[j]
    BY <2>1, <2>2
  <2>4. j + 1 \in 1..m => i + 1 \in 1..n + m /\ w[i + 1] = u[j + 1]
    BY <2>1, <2>2
  <2>5. j - 1 \in 1..m => i - 1 \in 1..n + m /\ w[i - 1] = u[j - 1]
    BY <2>1, <2>2
  <2> QED
    BY <1>2, <2>2, <2>3, <2>4, <2>5
<1>5. \A i \in 1..n + m : i \in 1..n \/ ~(i <= n)
  BY <1>1
<1>6. Paired(w, p, q)
  BY <1>1, <1>3, <1>4, <1>5 DEF Paired
<1> QED
  BY <1>6 DEF w

\* A text that is not cut between the two parts is two texts that have them
\* paired.
LEMMA PairedCut ==
    ASSUME NEW text \in Seq(Glyphs), NEW p, NEW q, Paired(text, p, q),
           NEW n \in 1..Len(text), text[n] # p
    PROVE  /\ Paired(SubSeq(text, 1, n), p, q)
           /\ Paired(SubSeq(text, n + 1, Len(text)), p, q)
<1> DEFINE l == Len(text)
           t == SubSeq(text, 1, n)
           u == SubSeq(text, n + 1, l)
<1>1. /\ l \in Nat /\ n \in 1..l
      /\ Len(t) = n /\ \A i \in 1..n : t[i] = text[i]
      /\ Len(u) = l - n /\ \A i \in 1..l - n : u[i] = text[n + i]
  BY CutType, LenProperties
<1>2. \A i \in 1..l : /\ text[i] = p => i + 1 \in 1..l /\ text[i + 1] = q
                      /\ text[i] = q => i - 1 \in 1..l /\ text[i - 1] = p
  BY DEF Paired
<1>3. text[n] # p
  OBVIOUS
<1> HIDE DEF l, t, u
<1>4. ASSUME NEW i \in 1..n
      PROVE  /\ t[i] = p => i + 1 \in 1..n /\ t[i + 1] = q
             /\ t[i] = q => i - 1 \in 1..n /\ t[i - 1] = p
  <2>1. i \in 1..l /\ (i # n => i + 1 \in 1..n) /\ (i - 1 \in 1..l => i - 1 \in 1..n)
    BY <1>1
  <2> QED
    BY <1>1, <1>2, <1>3, <2>1
<1>5. ASSUME NEW i \in 1..l - n
      PROVE  /\ u[i] = p => i + 1 \in 1..l - n /\ u[i + 1] = q
             /\ u[i] = q => i - 1 \in 1..l - n /\ u[i - 1] = p
  <2> DEFINE j == n + i
  <2>1. /\ j \in 1..l /\ n + (i + 1) = j + 1 /\ n + (i - 1) = j - 1
        /\ (j + 1 \in 1..l => i + 1 \in 1..l - n)
        /\ (i = 1 => j - 1 = n) /\ (i # 1 => i - 1 \in 1..l - n)
    BY <1>1
  <2> HIDE DEF j
  <2>2. u[i] = text[j]
    BY <1>1 DEF j
  <2>3. u[i] = p => i + 1 \in 1..l - n /\ u[i + 1] = q
    <3>1. i + 1 \in 1..l - n => u[i + 1] = text[j + 1]
      BY <1>1, <2>1
    <3> QED
      BY <1>2, <2>1, <2>2, <3>1
  <2>4. u[i] = q => i - 1 \in 1..l - n /\ u[i - 1] = p
    <3>1. i - 1 \in 1..l - n => u[i - 1] = text[j - 1]
      BY <1>1, <2>1
    <3>2. u[i] = q => text[j - 1] = p
      BY <1>2, <2>1, <2>2
    <3> QED
      BY <1>3, <2>1, <3>1, <3>2
  <2> QED
    BY <2>3, <2>4
<1>6. Paired(t, p, q)
  BY <1>1, <1>4 DEF Paired
<1>7. Paired(u, p, q)
  BY <1>1, <1>5 DEF Paired
<1> QED
  BY <1>6, <1>7 DEF t, u, l

\* The remote side writes the sequence for the alternate screen as a whole.
WholeSequences == \A text \in Talk : Sequenced(text)

\* While the alternate screen shows, the buffer passes keys through and no
\* guess is outstanding.
AltInv == alt => passthrough /\ pending = << >>

QueueSequenced == Sequenced(outq)

\* A read that turns the alternate screen on contains the sequence for it, and
\* one that leaves it on does not contain the other.
LEMMA AltOn ==
    ASSUME NEW read \in Seq(Glyphs), Sequenced(read), AltAfter(read)
    PROVE  HasOn(read) \/ (alt /\ ~HasOff(read))
<1>1. Len(read) \in Nat
  BY LenProperties
<1>2. CASE alt /\ ~Contains(read, "off2")
  <2>1. \A i \in 1..Len(read) : read[i] # "off2"
    BY <1>2 DEF Contains
  <2>2. \A i \in 1..Len(read) - 1 : i + 1 \in 1..Len(read)
    BY <1>1
  <2>3. ~HasOff(read)
    BY <2>1, <2>2 DEF HasOff, Has
  <2> QED
    BY <1>2, <2>3
<1>3. ASSUME NEW i \in 1..Len(read), read[i] = "on2" PROVE HasOn(read)
  <2>1. i - 1 \in 1..Len(read) /\ read[i - 1] = "on1"
    BY <1>3 DEF Sequenced, Paired
  <2>2. i - 1 \in 1..Len(read) - 1 /\ (i - 1) + 1 = i
    BY <1>1, <2>1
  <2> QED
    BY <1>3, <2>1, <2>2 DEF HasOn, Has
<1> QED
  BY <1>2, <1>3 DEF AltAfter

\* A read of the PTY keeps buffer and predictor in step with the terminal.
LEMMA ReconcileStep ==
    ASSUME ~SplitSequences, TypeOK, AltInv, QueueSequenced,
           NEW n \in 1..Len(outq), Reads(n)
    PROVE  AltInv' /\ QueueSequenced'
<1> DEFINE read == SubSeq(outq, 1, n)
<1>1. outq \in Seq(Glyphs)
  BY DEF TypeOK
<1>2. /\ read \in Seq(Glyphs) /\ read[n] = outq[n] /\ n \in 1..n
  BY <1>1, CutType
<1>3. read[n] # "on1" /\ outq' = SubSeq(outq, n + 1, Len(outq))
  BY DEF Reads
<1>4. Sequenced(read) /\ QueueSequenced'
  BY <1>1, <1>2, <1>3, PairedCut DEF QueueSequenced, Sequenced
<1>5. /\ alt' = AltAfter(read)
      /\ passthrough' = PassthroughAfter(read)
      /\ PendingAfterModes(read) = << >> => pending' = << >>
  BY DEF Reads
<1> HIDE DEF read
<1>6. ASSUME alt' PROVE passthrough' /\ pending' = << >>
  <2>1. CASE HasOn(read)
    BY <1>5, <2>1 DEF PassthroughAfter, PendingAfterModes
  <2>2. CASE ~HasOn(read)
    <3>1. alt /\ ~HasOff(read)
      BY <1>2, <1>4, <1>5, <1>6, <2>2, AltOn
    <3>2. passthrough /\ pending = << >>
      BY <3>1 DEF AltInv
    <3> QED
      BY <1>5, <2>2, <3>1, <3>2 DEF PassthroughAfter, PendingAfterModes
  <2> QED
    BY <2>1, <2>2
<1> QED
  BY <1>4, <1>6 DEF AltInv

\* A full-screen program is not disturbed by guesses, whatever was outstanding
\* when it started and if the session is replaced under it, as long as no read
\* ends inside the sequence for the alternate screen (predict.rs,
\* check_output_for_raw_mode; proxy.rs, run).
THEOREM FullScreenUndisturbed ==
    ASSUME ~SplitSequences, WholeSequences PROVE Spec => []RawUndisturbed
<1>1. Init => AltInv /\ QueueSequenced
  <2>1. << >> \in Seq(Echoes)
    OBVIOUS
  <2> QED
    BY <2>1, EchoesWhole DEF Init, AltInv, QueueSequenced
<1>2. TypeOK /\ AltInv /\ QueueSequenced /\ [Next]_vars => AltInv' /\ QueueSequenced'
  <2> SUFFICES ASSUME TypeOK, AltInv, QueueSequenced, [Next]_vars
               PROVE  AltInv' /\ QueueSequenced'
    OBVIOUS
  <2>0. outq \in Seq(Glyphs) /\ toServer \in Seq(Batches)
    BY DEF TypeOK
  <2>1. ASSUME NEW batch \in Batches, Flush(batch)
        PROVE  AltInv' /\ QueueSequenced'
    <3>1. (alt' => passthrough' /\ pending' = << >>) /\ outq' = outq
      BY <2>1 DEF Flush, AltInv
    <3> QED
      BY <3>1 DEF AltInv, QueueSequenced, Sequenced, Paired
  <2>2. ASSUME NEW n \in 1..Len(outq), Reads(n) PROVE AltInv' /\ QueueSequenced'
    BY <2>2, ReconcileStep
  <2>3. CASE Replace
    <3>1. pending' = << >> /\ outq' = << >> /\ UNCHANGED <<alt, passthrough>>
      BY <2>3 DEF Replace
    <3>2. << >> \in Seq(Echoes)
      OBVIOUS
    <3> QED
      BY <3>1, <3>2, EchoesWhole DEF AltInv, QueueSequenced
  <2>4. CASE Answer
    <3>1. toServer # << >> /\ UNCHANGED <<pending, passthrough, alt>>
      BY <2>4 DEF Answer, predictor
    <3>2. Head(toServer) \in Batches
      BY <2>0, <3>1, HeadTailProperties
    <3>3. PICK text \in {Prediction(Head(toServer)), << >>, <<"x">>} :
            outq' = outq \o text
      BY <2>4 DEF Answer
    <3>4. text \in Seq(Glyphs) /\ Sequenced(text)
      <4>1. CASE text = Prediction(Head(toServer))
        BY <3>2, <4>1, TextAssumption, PredictionType, EchoesWhole
      <4>2. CASE text = << >>
        <5>1. << >> \in Seq(Echoes) /\ << >> \in Seq(Glyphs)
          OBVIOUS
        <5> QED
          BY <4>2, <5>1, EchoesWhole
      <4>3. CASE text = <<"x">>
        BY <4>3 DEF Glyphs, Printable, Sequenced, Paired
      <4> QED
        BY <3>3, <4>1, <4>2, <4>3
    <3>5. Sequenced(outq')
      BY <2>0, <3>3, <3>4, PairedConcat DEF QueueSequenced, Sequenced
    <3> QED
      BY <3>1, <3>5 DEF AltInv, QueueSequenced, Sequenced, Paired
  <2>5. ASSUME NEW text \in Talk, Write(text)
        PROVE  AltInv' /\ QueueSequenced'
    <3>1. UNCHANGED <<pending, passthrough, alt>> /\ outq' = outq \o text
      BY <2>5 DEF Write, predictor
    <3>2. text \in Seq(Glyphs) /\ Sequenced(text)
      BY TextAssumption DEF WholeSequences
    <3>3. Sequenced(outq')
      BY <2>0, <3>1, <3>2, PairedConcat DEF QueueSequenced, Sequenced
    <3> QED
      BY <3>1, <3>3 DEF AltInv, QueueSequenced, Sequenced, Paired
  <2>6. CASE UNCHANGED vars
    BY <2>6 DEF vars, AltInv, QueueSequenced, Sequenced, Paired
  <2>7. Reconcile => \E n \in 1..Len(outq) : Reads(n)
    BY DEF Reconcile, Reads
  <2> QED
    BY <2>1, <2>2, <2>3, <2>4, <2>5, <2>6, <2>7 DEF Next
<1>3. AltInv => RawUndisturbed
  BY DEF AltInv, RawUndisturbed
<1> QED
  BY <1>1, <1>2, <1>3, EchoTypeCorrect, PTL DEF Spec

-----------------------------------------------------------------------------
\* The screen.  correct() takes back all that is outstanding, on one line: so
\* the screen can be trusted with one guess at a time, of visible keys: a Tab
\* has no column to take back.  Half a character in a read would be taken for
\* a misprediction, and a guess drawn after half a sequence would spoil it.

\* The keys that are predicted leave the cursor on its line.
QuietKeys ==
    \A batch \in Batches : \A i \in 1..Len(batch) : batch[i] \notin {"enter", "del", "tab"}

WholeTalk == \A text \in Talk : Whole(text)

\* After the output read so far the screen shows the one guess there may be,
\* and exactly its columns are counted.
GuessInv ==
    /\ \A i \in 1..Len(pending) : pending[i] \in Seq(Quiet)
    /\ Whole(outq)
    /\ ~forgotten => \/ pending = << >> /\ screen = truth /\ cols = 0
                     \/ /\ Len(pending) = 1
                        /\ screen = truth \o pending[1]
                        /\ cols = Len(pending[1])

\* A read settles the one guess there is, whichever way it goes.
LEMMA GuessSettled ==
    ASSUME MaxPending = 1, ~SplitChars, TypeOK, GuessInv,
           NEW n \in 1..Len(outq), Reads(n)
    PROVE  GuessInv'
<1> DEFINE read == SubSeq(outq, 1, n)
           left == PendingAfterModes(read)
<1>1. /\ screen \in Seq(Glyphs) /\ truth \in Seq(Glyphs) /\ outq \in Seq(Glyphs)
      /\ pending \in Seq(Seq(Echoes)) /\ Len(pending) <= 1 /\ Len(pending) \in Nat
      /\ forgotten \in BOOLEAN
  BY LenProperties DEF TypeOK, Echoes
<1>2. /\ read \in Seq(Glyphs) /\ read[n] = outq[n] /\ n \in 1..n
  BY <1>1, CutType
<1>3. Whole(read) /\ Whole(outq')
  BY <1>1, <1>2, PairedCut DEF GuessInv, Reads, Whole
<1>4. Lossy(read) = read
  BY <1>2, <1>3, LossyType
<1> HIDE DEF read
<1>5. /\ truth' = Render(truth, read)
      /\ forgotten' = (forgotten \/ left # pending)
      /\ \/ left = << >> /\ Show(read) /\ pending' = left
         \/ /\ left # << >> /\ pending' = Tail(left)
            /\ Confirm(read, Head(left)) \/ Mispredict(read, Head(left))
  BY DEF Reads, read
<1>6. left = << >> \/ left = pending
  BY DEF PendingAfterModes
<1> HIDE DEF left
<1>7. pending' = << >>
  <2>1. CASE left = << >>
    BY <1>5, <2>1
  <2>2. CASE left # << >>
    <3>1. pending # << >> /\ pending' = Tail(pending)
      BY <1>5, <1>6, <2>2
    <3>2. Tail(pending) \in Seq(Seq(Echoes)) /\ Len(Tail(pending)) = Len(pending) - 1
      BY <1>1, <3>1, HeadTailProperties
    <3>3. Len(Tail(pending)) \in Nat /\ Len(Tail(pending)) = 0
      BY <1>1, <3>2, LenProperties
    <3>4. Tail(pending) = << >>
      BY <3>2, <3>3, EmptySeq
    <3> QED
      BY <3>1, <3>4
  <2> QED
    BY <2>1, <2>2
<1>8. ASSUME ~forgotten' PROVE screen' = truth' /\ cols' = 0
  <2>1. ~forgotten /\ left = pending
    BY <1>5, <1>8
  <2>2. CASE pending = << >>
    <3>1. screen = truth /\ cols = 0
      BY <2>1, <2>2, EmptySeq DEF GuessInv
    <3> QED
      BY <1>5, <2>1, <2>2, <3>1 DEF Show
  <2>3. CASE pending # << >>
    <3> DEFINE g == pending[1]
    <3>1. /\ Len(pending) = 1 /\ 1 \in 1..Len(pending)
          /\ g \in Seq(Quiet) /\ screen = truth \o g /\ cols = Len(g)
      BY <2>1, <2>3 DEF GuessInv
    <3>2. Head(left) = g
      BY <1>1, <2>1, <2>3
    <3> HIDE DEF g
    <3>3. CASE Confirm(read, g)
      <4>1. read = g /\ screen' = screen /\ cols' = 0
        BY <1>4, <3>3 DEF Confirm
      <4>2. Render(truth, g) = truth \o g
        BY <1>1, <3>1, RenderQuiet
      <4> QED
        BY <1>5, <3>1, <4>1, <4>2
    <3>4. CASE Mispredict(read, g)
      <4>1. screen' = Render(screen, Erase(cols) \o read) /\ cols' = 0
        BY <1>4, <3>4 DEF Mispredict
      <4>2. Erase(cols) \in Seq(Glyphs) /\ Render(screen, Erase(cols)) = truth
        BY <1>1, <3>1, RenderErase
      <4>3. Render(screen, Erase(cols) \o read) = Render(truth, read)
        BY <1>1, <1>2, <4>2, RenderConcat
      <4> QED
        BY <1>5, <4>1, <4>3
    <3> QED
      BY <1>5, <2>1, <2>3, <3>2, <3>3, <3>4
  <2> QED
    BY <2>2, <2>3
<1>9. \A i \in 1..Len(pending') : pending'[i] \in Seq(Quiet)
  BY <1>7
<1> QED
  BY <1>3, <1>7, <1>8, <1>9 DEF GuessInv, Whole, Paired

\* One step at a time, with one guess outstanding at most.
LEMMA GuessInvariant ==
    ASSUME MaxPending = 1, ~SplitChars, ~SplitSequences, QuietKeys, WholeTalk
    PROVE  Spec => []GuessInv
<1>1. Init => GuessInv
  BY DEF Init, GuessInv, Whole, Paired
<1>2. TypeOK /\ GuessInv /\ [Next]_vars => GuessInv'
  <2> SUFFICES ASSUME TypeOK, GuessInv, [Next]_vars PROVE GuessInv'
    OBVIOUS
  <2>0. /\ pending \in Seq(Seq(Echoes)) /\ Len(pending) \in Nat
        /\ screen \in Seq(Glyphs) /\ truth \in Seq(Glyphs) /\ outq \in Seq(Glyphs)
        /\ toServer \in Seq(Batches) /\ cols \in Nat
    BY LenProperties DEF TypeOK, Echoes
  <2>1. ASSUME NEW batch \in Batches, Flush(batch) PROVE GuessInv'
    <3> DEFINE guess == Prediction(batch)
    <3>1. guess \in Seq(Quiet)
      BY TextAssumption, PredictionType DEF QuietKeys
    <3> HIDE DEF guess
    <3>2. UNCHANGED <<forgotten, truth, outq>> /\ Len(pending) < 1
      BY <2>1 DEF Flush
    <3>3. pending = << >>
      BY <2>0, <3>2, EmptySeq
    <3>4. \/ /\ pending' = Append(pending, guess)
             /\ cols' = cols + VisibleCols(guess)
             /\ screen' = Render(screen, guess)
          \/ pending' = pending /\ cols' = cols /\ screen' = screen
      BY <2>1 DEF Flush, guess
    <3>5. CASE pending' = pending /\ cols' = cols /\ screen' = screen
      BY <3>2, <3>5 DEF GuessInv, Whole, Paired
    <3>6. CASE /\ pending' = Append(pending, guess)
               /\ cols' = cols + VisibleCols(guess)
               /\ screen' = Render(screen, guess)
      <4>1. VisibleCols(guess) = Len(guess) /\ Len(guess) \in Nat
        BY <3>1, ColsQuiet, LenProperties
      <4>2. Render(screen, guess) = screen \o guess
        BY <2>0, <3>1, RenderQuiet
      <4>3. pending' = << guess >>
        BY <3>3, <3>6
      <4>4. Len(pending') = 1 /\ pending'[1] = guess /\ 1..1 = {1}
        BY <4>3
      <4>5. ~forgotten => screen = truth /\ cols = 0
        BY <3>3, EmptySeq DEF GuessInv
      <4>6. ~forgotten' => screen' = truth' \o guess /\ cols' = Len(guess)
        <5>1. 0 + Len(guess) = Len(guess)
          BY <4>1
        <5> QED
          BY <3>2, <3>6, <4>1, <4>2, <4>5, <5>1
      <4>7. \A i \in 1..Len(pending') : pending'[i] \in Seq(Quiet)
        BY <3>1, <4>4
      <4>8. Whole(outq)'
        BY <3>2 DEF GuessInv, Whole, Paired
      <4> QED
        BY <4>4, <4>6, <4>7, <4>8 DEF GuessInv
    <3> QED
      BY <3>4, <3>5, <3>6
  <2>2. ASSUME NEW n \in 1..Len(outq), Reads(n) PROVE GuessInv'
    BY <2>2, GuessSettled
  <2>3. CASE Replace
    <3>1. /\ pending' = << >> /\ outq' = << >>
          /\ forgotten' = (forgotten \/ pending # << >>)
          /\ UNCHANGED <<cols, screen, truth>>
      BY <2>3 DEF Replace
    <3>2. ASSUME ~forgotten' PROVE screen' = truth' /\ cols' = 0
      <4>1. ~forgotten /\ pending = << >>
        BY <3>1, <3>2
      <4>2. Len(pending) = 0
        BY <4>1
      <4>3. screen = truth /\ cols = 0
        BY <4>1, <4>2 DEF GuessInv
      <4> QED
        BY <3>1, <4>3
    <3>3. Whole(outq)' /\ \A i \in 1..Len(pending') : pending'[i] \in Seq(Quiet)
      BY <3>1 DEF Whole, Paired
    <3> QED
      BY <3>1, <3>2, <3>3 DEF GuessInv
  <2>4. CASE Answer
    <3>1. toServer # << >> /\ UNCHANGED <<pending, cols, forgotten, screen, truth>>
      BY <2>4 DEF Answer, predictor
    <3>2. Head(toServer) \in Batches
      BY <2>0, <3>1, HeadTailProperties
    <3>3. PICK text \in {Prediction(Head(toServer)), << >>, <<"x">>} :
            outq' = outq \o text
      BY <2>4 DEF Answer
    <3>4. text \in Seq(Glyphs) /\ Whole(text)
      <4>1. CASE text = Prediction(Head(toServer))
        BY <3>2, <4>1, TextAssumption, PredictionType, EchoesWhole
      <4>2. CASE text = << >>
        <5>1. << >> \in Seq(Echoes) /\ << >> \in Seq(Glyphs)
          OBVIOUS
        <5> QED
          BY <4>2, <5>1, EchoesWhole
      <4>3. CASE text = <<"x">>
        BY <4>3 DEF Glyphs, Printable, Whole, Paired
      <4> QED
        BY <4>1, <4>2, <4>3
    <3>5. Whole(outq')
      BY <2>0, <3>3, <3>4, PairedConcat DEF GuessInv, Whole
    <3> QED
      BY <3>1, <3>5 DEF GuessInv, Whole, Paired
  <2>5. ASSUME NEW text \in Talk, Write(text) PROVE GuessInv'
    <3>1. UNCHANGED <<pending, cols, forgotten, screen, truth>>
          /\ outq' = outq \o text
      BY <2>5 DEF Write, predictor
    <3>2. text \in Seq(Glyphs) /\ Whole(text)
      BY TextAssumption DEF WholeTalk
    <3>3. Whole(outq')
      BY <2>0, <3>1, <3>2, PairedConcat DEF GuessInv, Whole
    <3> QED
      BY <3>1, <3>3 DEF GuessInv, Whole, Paired
  <2>6. CASE UNCHANGED vars
    BY <2>6 DEF vars, GuessInv, Whole, Paired
  <2>7. Reconcile => \E n \in 1..Len(outq) : Reads(n)
    BY DEF Reconcile, Reads
  <2> QED
    BY <2>1, <2>2, <2>3, <2>4, <2>5, <2>6, <2>7 DEF Next
<1> QED
  BY <1>1, <1>2, EchoTypeCorrect, PTL DEF Spec

\* What the guesses not yet reconciled show, after the output read so far.
LEMMA OneGuess ==
    ASSUME TypeOK, GuessInv, ~forgotten
    PROVE  /\ screen = Render(truth, FlattenSeq(pending))
           /\ cols = Len(Render(<< >>, FlattenSeq(pending)))
           /\ cols \in Nat
<1>1. /\ truth \in Seq(Glyphs) /\ cols \in Nat /\ << >> \in Seq(Glyphs)
      /\ pending \in Seq(Seq(Echoes))
  BY DEF TypeOK, Echoes
<1>2. CASE pending = << >>
  <2>1. screen = truth /\ cols = 0
    BY <1>2, EmptySeq DEF GuessInv
  <2>2. FlattenSeq(pending) = << >>
    BY <1>2, FlattenEmpty
  <2>3. Render(truth, << >>) = truth /\ Render(<< >>, << >>) = << >> /\ Len(<< >>) = 0
    BY <1>1, RenderEmpty
  <2> QED
    BY <1>1, <2>1, <2>2, <2>3
<1>3. CASE pending # << >>
  <2> DEFINE g == pending[1]
  <2>1. /\ Len(pending) = 1 /\ 1 \in 1..Len(pending)
        /\ g \in Seq(Quiet) /\ screen = truth \o g /\ cols = Len(g)
    BY <1>3 DEF GuessInv
  <2>2. pending = << g >>
    BY <1>1, <2>1
  <2> HIDE DEF g
  <2>3. FlattenSeq(pending) = g
    BY <2>1, <2>2, FlattenSingle
  <2>4. Render(truth, g) = truth \o g /\ Render(<< >>, g) = << >> \o g
    BY <1>1, <2>1, RenderQuiet
  <2>5. << >> \o g = g
    BY <2>1, ConcatEmptySeq
  <2> QED
    BY <1>1, <2>1, <2>3, <2>4, <2>5
<1> QED
  BY <1>2, <1>3

\* The screen never lies for longer than a guess is outstanding: whatever the
\* remote side echoes instead, it shows the output read so far and after it
\* the guesses not yet reconciled, until a mode switch or a reconnect drops a
\* guess (predict.rs, reconcile; display.rs, correct).  What breaks this in the
\* code is left out here: two guesses at a time; Enter, Backspace or Tab in a
\* batch; a read that ends inside a character or a sequence.
THEOREM ScreenTruthful ==
    ASSUME MaxPending = 1, ~SplitChars, ~SplitSequences, QuietKeys, WholeTalk
    PROVE  Spec => []ScreenIsTruth
<1>1. TypeOK /\ GuessInv => ScreenIsTruth
  BY OneGuess DEF ScreenIsTruth
<1> QED
  BY <1>1, EchoTypeCorrect, GuessInvariant, PTL

\* And correct() takes back no column that the remote side wrote.
THEOREM ErasesNoOutput ==
    ASSUME MaxPending = 1, ~SplitChars, ~SplitSequences, QuietKeys, WholeTalk
    PROVE  Spec => []ErasesOnlyGuesses
<1>1. TypeOK /\ GuessInv => ErasesOnlyGuesses
  <2> SUFFICES ASSUME TypeOK, GuessInv, ~forgotten
               PROVE  cols <= Len(Render(<< >>, FlattenSeq(pending)))
    BY DEF ErasesOnlyGuesses
  <2>1. cols = Len(Render(<< >>, FlattenSeq(pending))) /\ cols \in Nat
    BY OneGuess
  <2> QED
    BY <2>1
<1> QED
  BY <1>1, EchoTypeCorrect, GuessInvariant, PTL
=============================================================================
