------------------------------ MODULE FoldLemmas ------------------------------
(***************************************************************************)
(* Induction over data, for the theorems about operators that fold over a  *)
(* sequence.  The induction is over a set of numbers, so that no lemma     *)
(* takes an operator as a parameter, and it rests on the least element of  *)
(* a set of naturals.  A recursive definition says something only if there *)
(* is a function as it describes: FoldExists and PrefixExists give one,    *)
(* with the step as a function from an index to a map of values.           *)
(***************************************************************************)
EXTENDS SequencesExt, WellFoundedInduction, SequenceTheorems, TLAPS

Less == {ss \in Nat \X Nat : ss[1] < ss[2]}

\* A set of naturals has a least element.
LEMMA LeastNat ==
    ASSUME NEW T, T \subseteq Nat, T # {}
    PROVE  \E n \in T : \A m \in T : n <= m
<1>1. IsWellFoundedOn(Less, Nat)
  BY NatLessThanWellFounded DEF OpToRel, Less
<1>2. PICK n \in T : \A m \in T : ~(<<m, n>> \in Less)
  BY <1>1, WFMin
<1>3. \A m \in T : ~(m < n)
  BY <1>2 DEF Less
<1> QED
  BY <1>3

\* A set that has 0, and with each number the next, has every natural.
LEMMA SetInduction ==
    ASSUME NEW T, 0 \in T, \A n \in Nat : n \in T => n + 1 \in T
    PROVE  \A n \in Nat : n \in T
<1> DEFINE U == {n \in Nat : n \notin T}
<1> SUFFICES ASSUME U # {} PROVE FALSE
  OBVIOUS
<1>1. PICK n \in U : \A m \in U : n <= m
  <2>1. U \subseteq Nat
    OBVIOUS
  <2> HIDE DEF U
  <2> QED
    BY <2>1, LeastNat
<1>2. n # 0 /\ n \in Nat
  OBVIOUS
<1>3. n - 1 \in Nat /\ n - 1 + 1 = n /\ ~(n <= n - 1)
  BY <1>2
<1>4. n - 1 \in T
  BY <1>1, <1>3
<1>5. n \in T
  BY <1>3, <1>4
<1> QED
  BY <1>5

\* A set of the first n naturals has a greatest element.
LEMMA MaxExists ==
    ASSUME NEW n \in Nat, NEW S \in SUBSET (1..n), S # {}
    PROVE  \E x \in S : \A y \in S : x >= y
<1> DEFINE U == {n - x : x \in S}
<1>0. \A x \in S : x \in Int /\ n - x \in Nat
  BY \A x \in 1..n : x \in Int /\ n - x \in Nat
<1>1. U \subseteq Nat /\ U # {}
  BY <1>0
<1>2. PICK u \in U : \A m \in U : u <= m
  <2> HIDE DEF U
  <2> QED
    BY <1>1, LeastNat
<1>3. PICK x \in S : u = n - x
  OBVIOUS
<1>4. \A y \in S : n - x <= n - y
  BY <1>2, <1>3
<1>5. \A y \in S : x >= y
  BY <1>0, <1>4
<1> QED
  BY <1>5

\* The prefixes of 1..n, one index at a time.
LEMMA NextPrefix ==
    ASSUME NEW k \in Nat
    PROVE  /\ Max(1..(k + 1)) = k + 1
           /\ (1..(k + 1)) \ {k + 1} = 1..k
           /\ 1..(k + 1) # {}
<1>1. k + 1 \in 1..(k + 1) /\ \A y \in 1..(k + 1) : k + 1 >= y
  OBVIOUS
<1>2. \A x \in 1..(k + 1) : (\A y \in 1..(k + 1) : x >= y) => x = k + 1
  BY <1>1
<1>3. Max(1..(k + 1)) = k + 1
  BY <1>1, <1>2 DEF Max
<1> QED
  BY <1>3

\* iter is the function of a fold over 1..n from the first index to the last.
IsFold(iter, V, base, n, step) ==
    /\ iter \in [SUBSET (1..n) -> V]
    /\ \A S \in SUBSET (1..n) :
          iter[S] = IF S = {} THEN base ELSE step[Max(S)][iter[S \ {Max(S)}]]

\* There is one.
LEMMA FoldExists ==
    ASSUME NEW V, NEW base \in V, NEW n \in Nat, NEW step \in [1..n -> [V -> V]]
    PROVE  \E iter : IsFold(iter, V, base, n, step)
<1> DEFINE Iter(k, iter) ==
             /\ iter \in [SUBSET (1..k) -> V]
             /\ \A S \in SUBSET (1..k) :
                  iter[S] = IF S = {} THEN base ELSE step[Max(S)][iter[S \ {Max(S)}]]
           T == {k \in Nat : k <= n => \E iter : Iter(k, iter)}
<1>1. 0 \in T
  <2> DEFINE iter == [S \in SUBSET (1..0) |-> base]
  <2>1. Iter(0, iter)
    <3>1. \A S \in SUBSET (1..0) : S = {}
      OBVIOUS
    <3> QED
      BY <3>1
  <2> HIDE DEF Iter
  <2> QED
    BY <2>1
<1>2. ASSUME NEW k \in Nat, k \in T PROVE k + 1 \in T
  <2> SUFFICES ASSUME k + 1 <= n PROVE \E iter : Iter(k + 1, iter)
    <3> HIDE DEF Iter
    <3> QED
      OBVIOUS
  <2>1. k <= n /\ k + 1 \in 1..n
    OBVIOUS
  <2>2. PICK old : Iter(k, old)
    BY <1>2, <2>1
  <2> DEFINE new == [S \in SUBSET (1..(k + 1)) |->
                        IF k + 1 \in S THEN step[k + 1][old[S \ {k + 1}]] ELSE old[S]]
  <2>3. \A S \in SUBSET (1..(k + 1)) : S \ {k + 1} \in SUBSET (1..k)
    OBVIOUS
  <2>4. \A S \in SUBSET (1..(k + 1)) : k + 1 \notin S => S \in SUBSET (1..k)
    OBVIOUS
  <2>5. \A v \in V : step[k + 1][v] \in V
    BY <2>1
  <2>6. \A S \in SUBSET (1..k) : old[S] \in V
    BY <2>2
  <2>7. new \in [SUBSET (1..(k + 1)) -> V]
    <3> HIDE DEF Iter
    <3> QED
      BY <2>3, <2>4, <2>5, <2>6
  <2>8. ASSUME NEW S \in SUBSET (1..(k + 1))
        PROVE  new[S] = IF S = {} THEN base ELSE step[Max(S)][new[S \ {Max(S)}]]
    <3>1. CASE k + 1 \in S
      <4>1. \A y \in S : k + 1 >= y
        OBVIOUS
      <4>2. \A x \in S : (\A y \in S : x >= y) => x = k + 1
        BY <3>1, <4>1
      <4>3. Max(S) = k + 1
        BY <3>1, <4>1, <4>2 DEF Max
      <4>4. S \ {k + 1} \in SUBSET (1..(k + 1)) /\ k + 1 \notin S \ {k + 1}
        OBVIOUS
      <4>5. new[S \ {k + 1}] = old[S \ {k + 1}]
        BY <4>4
      <4>6. new[S] = step[k + 1][old[S \ {k + 1}]] /\ S # {}
        BY <3>1
      <4> HIDE DEF new
      <4> QED
        BY <4>3, <4>5, <4>6
    <3>2. CASE k + 1 \notin S
      <4>1. S \in SUBSET (1..k)
        BY <2>4, <3>2
      <4>2. old[S] = IF S = {} THEN base ELSE step[Max(S)][old[S \ {Max(S)}]]
        BY <2>2, <4>1
      <4>3. S \ {Max(S)} \in SUBSET (1..(k + 1)) /\ k + 1 \notin S \ {Max(S)}
        BY <3>2
      <4>4. new[S \ {Max(S)}] = old[S \ {Max(S)}]
        BY <4>3
      <4>5. new[S] = old[S]
        BY <3>2
      <4> HIDE DEF new
      <4> QED
        BY <4>2, <4>4, <4>5
    <3> QED
      BY <3>1, <3>2
  <2>9. Iter(k + 1, new)
    <3> HIDE DEF new
    <3> QED
      BY <2>7, <2>8
  <2> HIDE DEF Iter
  <2> QED
    BY <2>9
<1>3. n \in T
  <2> HIDE DEF T
  <2> QED
    BY <1>1, <1>2, SetInduction
<1>4. \E iter : Iter(n, iter)
  <2> HIDE DEF Iter
  <2>1. n <= n
    OBVIOUS
  <2> QED
    BY <1>3, <2>1
<1>5. \A iter : Iter(n, iter) <=> IsFold(iter, V, base, n, step)
  BY DEF IsFold
<1> QED
  BY <1>4, <1>5

\* g is the function of a recursion over 0..n.
IsRecursion(g, V, base, n, step) ==
    /\ g \in [0..n -> V]
    /\ g[0] = base
    /\ \A k \in 1..n : g[k] = step[k][g[k - 1]]

\* There is one.
LEMMA PrefixExists ==
    ASSUME NEW V, NEW base \in V, NEW n \in Nat, NEW step \in [1..n -> [V -> V]]
    PROVE  \E g : IsRecursion(g, V, base, n, step)
<1>0. PICK iter : IsFold(iter, V, base, n, step)
  BY FoldExists
<1>1. /\ iter \in [SUBSET (1..n) -> V]
      /\ \A S \in SUBSET (1..n) :
            iter[S] = IF S = {} THEN base ELSE step[Max(S)][iter[S \ {Max(S)}]]
  BY <1>0 DEF IsFold
<1> DEFINE g == [k \in 0..n |-> iter[1..k]]
<1>2. g \in [0..n -> V]
  BY <1>1
<1>3. g[0] = base
  <2>1. 1..0 = {} /\ 1..0 \in SUBSET (1..n) /\ 0 \in 0..n
    OBVIOUS
  <2> QED
    BY <1>1, <2>1
<1>4. ASSUME NEW k \in 1..n PROVE g[k] = step[k][g[k - 1]]
  <2>1. k - 1 \in Nat /\ k - 1 + 1 = k /\ k \in 0..n /\ k - 1 \in 0..n
    OBVIOUS
  <2>2. Max(1..k) = k /\ (1..k) \ {k} = 1..(k - 1) /\ 1..k # {}
    BY <2>1, NextPrefix
  <2>3. 1..k \in SUBSET (1..n)
    OBVIOUS
  <2>4. iter[1..k] = step[k][iter[1..(k - 1)]]
    BY <1>1, <2>2, <2>3
  <2> QED
    BY <2>1, <2>4
<1> HIDE DEF g
<1> QED
  BY <1>2, <1>3, <1>4 DEF IsRecursion

-----------------------------------------------------------------------------
\* Sequences that grow and shrink by one.

\* A prefix of p after s, and the next one.
LEMMA GrowPrefix ==
    ASSUME NEW S, NEW s \in Seq(S), NEW p \in Seq(S), NEW k \in Nat, k + 1 <= Len(p)
    PROVE  /\ s \o SubSeq(p, 1, k) \in Seq(S)
           /\ s \o SubSeq(p, 1, k + 1) = Append(s \o SubSeq(p, 1, k), p[k + 1])
<1>1. Len(p) \in Nat /\ \A i \in 1..Len(p) : p[i] \in S
  BY LenProperties, ElementOfSeq
<1>2. 1 \in 1..Len(p) /\ k + 1 \in 1..Len(p) /\ k + 1 - 1 = k
  BY <1>1
<1> DEFINE a == SubSeq(p, 1, k)
           e == p[k + 1]
<1>3. a \in Seq(S) /\ e \in S
  <2>1. \A i \in 1..k : p[i] \in S
    BY <1>1
  <2> QED
    BY <1>1, <1>2, <2>1, SubSeqProperties
<1>4. SubSeq(p, 1, k + 1) = a \o << e >>
  BY <1>1, <1>2, SubSeqRecursiveSecond
<1> HIDE DEF a, e
<1>5. << e >> \in Seq(S)
  BY <1>3
<1>6. s \o (a \o << e >>) = (s \o a) \o << e >>
  <2>1. \A x, y, z \in Seq(S) : (x \o y) \o z = x \o (y \o z)
    BY ConcatAssociative
  <2> QED
    BY <1>3, <1>5, <2>1, Zenon
<1>7. s \o a \in Seq(S)
  BY <1>3, ConcatProperties
<1>8. Append(s \o a, e) = (s \o a) \o << e >>
  BY <1>3, <1>7, AppendIsConcat
<1> QED
  BY <1>4, <1>6, <1>7, <1>8 DEF a, e

\* What is appended is last, and the front is what was there before.
LEMMA FrontOfAppend ==
    ASSUME NEW S, NEW s \in Seq(S), NEW e \in S
    PROVE  /\ Append(s, e) \in Seq(S) /\ Append(s, e) # << >>
           /\ Last(Append(s, e)) = e /\ Front(Append(s, e)) = s
<1> DEFINE a == Append(s, e)
<1>1. /\ a \in Seq(S) /\ a # << >> /\ Len(a) = Len(s) + 1 /\ Len(s) \in Nat
      /\ \A i \in 1..Len(s) : a[i] = s[i] /\ a[i] \in S
      /\ a[Len(s) + 1] = e
  BY AppendProperties, LenProperties, ElementOfSeq
<1> HIDE DEF a
<1>2. Last(a) = e
  BY <1>1 DEF Last
<1>3. Len(a) - 1 = Len(s)
  BY <1>1
<1>4. /\ Front(a) \in Seq(S) /\ Len(Front(a)) = Len(s)
      /\ \A i \in 1..Len(s) : Front(a)[i] = s[i]
  <2> DEFINE n == Len(s)
  <2>1. 1 \in Int /\ n \in Int /\ n - 1 + 1 = n /\ (~(1 <= n) => n = 0)
    BY <1>1
  <2>2. /\ SubSeq(a, 1, n) \in Seq(S)
        /\ Len(SubSeq(a, 1, n)) = IF 1 <= n THEN n - 1 + 1 ELSE 0
        /\ \A i \in 1..n - 1 + 1 : SubSeq(a, 1, n)[i] = a[1 + i - 1]
    <3>1. \A i \in 1..n : a[i] \in S
      BY <1>1
    <3> HIDE DEF n
    <3> QED
      BY <2>1, <3>1, SubSeqProperties
  <2>3. \A i \in 1..n : 1 + i - 1 = i
    OBVIOUS
  <2> QED
    BY <1>1, <1>3, <2>1, <2>2, <2>3 DEF Front
<1>5. Front(a) = s
  BY <1>4, SeqEqual
<1> QED
  BY <1>1, <1>2, <1>5 DEF a

-----------------------------------------------------------------------------
\* FlattenSeq.

\* Nothing flattens to nothing, and one sequence to itself.
LEMMA FlattenEmpty == FlattenSeq(<< >>) = << >>
BY DEF FlattenSeq

\* The function FlattenSeq is defined by.
Flatten(seqs) ==
    CHOOSE f : f = [i \in 1..Len(seqs) |-> IF i = 1 THEN seqs[i]
                                           ELSE f[i-1] \o seqs[i]]

\* It is there, and FlattenSeq is its last value.
LEMMA FlattenUnfolds ==
    ASSUME NEW S, NEW seqs \in Seq(Seq(S)), seqs # << >>
    PROVE  /\ FlattenSeq(seqs) = Flatten(seqs)[Len(seqs)]
           /\ Flatten(seqs)[1] = seqs[1]
           /\ \A i \in 2..Len(seqs) :
                Flatten(seqs)[i] = Flatten(seqs)[i - 1] \o seqs[i]
<1> DEFINE n == Len(seqs)
           V == Seq(S)
<1>1. n \in Nat /\ n # 0 /\ \A i \in 1..n : seqs[i] \in V
  BY EmptySeq, LenProperties, ElementOfSeq
<1>2. FlattenSeq(seqs) = Flatten(seqs)[n]
  BY <1>1 DEF FlattenSeq, Flatten
<1> DEFINE step == [i \in 1..n |-> [v \in V |-> v \o seqs[i]]]
<1>3. step \in [1..n -> [V -> V]]
  BY <1>1, ConcatProperties
<1>4. << >> \in V
  OBVIOUS
<1>0. PICK g : IsRecursion(g, V, << >>, n, step)
  <2> HIDE DEF step, V, n
  <2> QED
    BY <1>1, <1>3, <1>4, PrefixExists
<1>5. /\ g \in [0..n -> V]
      /\ g[0] = << >> /\ \A k \in 1..n : g[k] = step[k][g[k - 1]]
  BY <1>0 DEF IsRecursion
<1>6. \A k \in 1..n : k - 1 \in 0..n /\ k \in 0..n
  BY <1>1
<1>7. \A k \in 1..n : g[k] = g[k - 1] \o seqs[k]
  BY <1>5, <1>6
<1>8. g[1] = seqs[1]
  <2>1. 1 \in 1..n /\ 1 - 1 = 0
    BY <1>1
  <2>2. g[1] = << >> \o seqs[1] /\ seqs[1] \in Seq(S)
    BY <1>1, <1>5, <1>7, <2>1
  <2>3. \A s \in Seq(S) : << >> \o s = s
    BY ConcatEmptySeq
  <2> QED
    BY <2>2, <2>3
<1> DEFINE f == [i \in 1..n |-> g[i]]
<1>9. f = [i \in 1..n |-> IF i = 1 THEN seqs[i] ELSE f[i-1] \o seqs[i]]
  <2>1. ASSUME NEW i \in 1..n
        PROVE  g[i] = IF i = 1 THEN seqs[i] ELSE f[i-1] \o seqs[i]
    <3>1. CASE i = 1
      BY <1>8, <3>1
    <3>2. CASE i # 1
      <4>1. i - 1 \in 1..n
        BY <1>1, <3>2
      <4>2. f[i-1] = g[i-1]
        BY <4>1
      <4> HIDE DEF f
      <4> QED
        BY <1>7, <3>2, <4>2
    <3> QED
      BY <3>1, <3>2
  <2> QED
    BY <2>1
<1>10. Flatten(seqs) = [i \in 1..n |-> IF i = 1 THEN seqs[i]
                                       ELSE Flatten(seqs)[i-1] \o seqs[i]]
  <2> HIDE DEF f
  <2> QED
    BY <1>9 DEF Flatten
<1> DEFINE F == Flatten(seqs)
<1>11. F = [i \in 1..n |-> IF i = 1 THEN seqs[i] ELSE F[i-1] \o seqs[i]]
  BY <1>10
<1> HIDE DEF F
<1>12. F[1] = seqs[1]
  <2>1. 1 \in 1..n
    BY <1>1
  <2> QED
    BY <1>11, <2>1
<1>13. \A i \in 2..n : F[i] = F[i-1] \o seqs[i]
  <2>1. \A i \in 2..n : i \in 1..n /\ i # 1
    BY <1>1
  <2> QED
    BY <1>11, <2>1
<1> QED
  BY <1>2, <1>12, <1>13 DEF F

\* One sequence flattens to itself.
LEMMA FlattenSingle ==
    ASSUME NEW S, NEW s \in Seq(S)
    PROVE  FlattenSeq(<< s >>) = s
<1> DEFINE seqs == << s >>
<1>1. seqs \in Seq(Seq(S)) /\ seqs # << >> /\ Len(seqs) = 1 /\ seqs[1] = s
  OBVIOUS
<1> HIDE DEF seqs
<1>2. FlattenSeq(seqs) = s
  BY <1>1, FlattenUnfolds
<1> QED
  BY <1>2 DEF seqs

\* Sequences over a set flatten to one over it.
LEMMA FlattenType ==
    ASSUME NEW S, NEW seqs \in Seq(Seq(S))
    PROVE  FlattenSeq(seqs) \in Seq(S)
<1>1. CASE seqs = << >>
  <2>1. << >> \in Seq(S)
    OBVIOUS
  <2> QED
    BY <1>1, <2>1, FlattenEmpty
<1>2. CASE seqs # << >>
  <2> DEFINE n == Len(seqs)
             F == Flatten(seqs)
             T == {k \in Nat : k + 1 <= n => F[k + 1] \in Seq(S)}
  <2>1. n \in Nat /\ n # 0 /\ \A i \in 1..n : seqs[i] \in Seq(S)
    BY <1>2, EmptySeq, LenProperties, ElementOfSeq
  <2>2. /\ FlattenSeq(seqs) = F[n] /\ F[1] = seqs[1]
        /\ \A i \in 2..n : F[i] = F[i - 1] \o seqs[i]
    BY <1>2, FlattenUnfolds
  <2> HIDE DEF F, n
  <2>3. 0 \in T
    <3>1. 1 \in 1..n /\ 0 + 1 = 1
      BY <2>1
    <3>2. F[1] \in Seq(S)
      BY <2>1, <2>2, <3>1
    <3> QED
      BY <3>1, <3>2
  <2>4. ASSUME NEW k \in Nat, k \in T PROVE k + 1 \in T
    <3> SUFFICES ASSUME k + 1 + 1 <= n PROVE F[k + 1 + 1] \in Seq(S)
      OBVIOUS
    <3>1. k + 1 <= n /\ k + 2 \in 2..n /\ k + 2 \in 1..n /\ k + 2 - 1 = k + 1
          /\ k + 1 + 1 = k + 2
      BY <2>1
    <3>2. F[k + 1] \in Seq(S) /\ seqs[k + 2] \in Seq(S)
      BY <2>1, <2>4, <3>1
    <3>3. F[k + 2] = F[k + 1] \o seqs[k + 2]
      <4> DEFINE j == k + 2
      <4>1. j \in 2..n /\ j - 1 = k + 1
        BY <3>1
      <4> HIDE DEF j
      <4>2. F[j] = F[j - 1] \o seqs[j]
        BY <2>2, <4>1
      <4> QED
        BY <4>1, <4>2 DEF j
    <3>4. F[k + 1] \o seqs[k + 2] \in Seq(S)
      BY <3>2, ConcatProperties
    <3> QED
      BY <3>1, <3>3, <3>4
  <2>5. n - 1 \in T /\ n - 1 + 1 = n
    <3>1. n - 1 \in Nat /\ n - 1 + 1 = n
      BY <2>1
    <3> HIDE DEF T
    <3> QED
      BY <2>3, <2>4, <3>1, SetInduction
  <2> QED
    BY <2>1, <2>2, <2>5
<1> QED
  BY <1>1, <1>2
\* One more sequence goes to the end of what the others flatten to.
LEMMA FlattenAppend ==
    ASSUME NEW S, NEW seqs \in Seq(Seq(S)), NEW s \in Seq(S)
    PROVE  FlattenSeq(Append(seqs, s)) = FlattenSeq(seqs) \o s
<1>1. CASE seqs = << >>
  <2>1. Append(seqs, s) = << s >>
    BY <1>1
  <2>2. << >> \o s = s
    BY ConcatEmptySeq
  <2> QED
    BY <1>1, <2>1, <2>2, FlattenEmpty, FlattenSingle
<1>2. CASE seqs # << >>
  <2> DEFINE n == Len(seqs)
             t == Append(seqs, s)
             F == Flatten(seqs)
             G == Flatten(t)
             T == {k \in Nat : k + 1 <= n => G[k + 1] = F[k + 1]}
  <2>1. n \in Nat /\ n # 0
    BY <1>2, EmptySeq
  <2>2. /\ t \in Seq(Seq(S)) /\ t # << >> /\ Len(t) = n + 1
        /\ \A i \in 1..n : t[i] = seqs[i]
        /\ t[n + 1] = s
    BY AppendProperties
  <2>3. /\ FlattenSeq(seqs) = F[n] /\ F[1] = seqs[1]
        /\ \A i \in 2..n : F[i] = F[i - 1] \o seqs[i]
    BY <1>2, FlattenUnfolds
  <2>4. /\ FlattenSeq(t) = G[n + 1] /\ G[1] = t[1]
        /\ \A i \in 2..n + 1 : G[i] = G[i - 1] \o t[i]
    BY <2>2, FlattenUnfolds
  <2> HIDE DEF F, G, n, t
  <2>5. 0 \in T
    <3>1. 0 + 1 = 1 /\ 1 \in 1..n
      BY <2>1
    <3> QED
      BY <2>2, <2>3, <2>4, <3>1
  <2>6. ASSUME NEW k \in Nat, k \in T PROVE k + 1 \in T
    <3> DEFINE j == k + 1 + 1
    <3> SUFFICES ASSUME k + 1 + 1 <= n PROVE G[j] = F[j]
      OBVIOUS
    <3>1. k + 1 <= n /\ j \in 2..n /\ j \in 2..n + 1 /\ j \in 1..n /\ j - 1 = k + 1
      BY <2>1
    <3>2. G[k + 1] = F[k + 1]
      BY <2>6, <3>1
    <3> HIDE DEF j
    <3>3. F[j] = F[j - 1] \o seqs[j] /\ G[j] = G[j - 1] \o t[j] /\ t[j] = seqs[j]
      BY <2>2, <2>3, <2>4, <3>1
    <3> QED
      BY <3>1, <3>2, <3>3
  <2>7. n - 1 \in T /\ n - 1 + 1 = n
    <3>1. n - 1 \in Nat /\ n - 1 + 1 = n
      BY <2>1
    <3> HIDE DEF T
    <3> QED
      BY <2>5, <2>6, <3>1, SetInduction
  <2>8. G[n] = F[n]
    BY <2>1, <2>7
  <2>9. G[n + 1] = G[n] \o s
    <3> DEFINE j == n + 1
    <3>1. j \in 2..n + 1 /\ j - 1 = n
      BY <2>1
    <3> HIDE DEF j
    <3>2. G[j] = G[j - 1] \o t[j]
      BY <2>4, <3>1
    <3> QED
      BY <2>2, <3>1, <3>2 DEF j
  <2> QED
    BY <2>3, <2>4, <2>8, <2>9 DEF t
<1> QED
  BY <1>1, <1>2

\* Sequences one after the other flatten one after the other.
LEMMA FlattenConcat ==
    ASSUME NEW S, NEW a \in Seq(Seq(S)), NEW b \in Seq(Seq(S))
    PROVE  FlattenSeq(a \o b) = FlattenSeq(a) \o FlattenSeq(b)
<1> DEFINE Q == Seq(S)
           n == Len(b)
           p(k) == SubSeq(b, 1, k)
           T == {k \in Nat : k <= n =>
                   /\ p(k) \in Seq(Q)
                   /\ FlattenSeq(a \o p(k)) = FlattenSeq(a) \o FlattenSeq(p(k))}
<1>1. n \in Nat /\ a \in Seq(Q) /\ b \in Seq(Q)
  BY LenProperties
<1>2. \A x, y, z \in Q : (x \o y) \o z = x \o (y \o z)
  BY ConcatAssociative
<1>3. 0 \in T
  <2>1. p(0) = << >> /\ << >> \in Seq(Q)
    BY SubSeqEmpty
  <2>2. a \o << >> = a
    BY ConcatEmptySeq
  <2>3. FlattenSeq(a) \in Seq(S)
    BY FlattenType
  <2>4. FlattenSeq(a) \o << >> = FlattenSeq(a)
    BY <2>3, ConcatEmptySeq
  <2> QED
    BY <2>1, <2>2, <2>4, FlattenEmpty
<1>4. ASSUME NEW k \in Nat, k \in T PROVE k + 1 \in T
  <2> SUFFICES ASSUME k + 1 <= n
               PROVE  /\ p(k + 1) \in Seq(Q)
                      /\ FlattenSeq(a \o p(k + 1)) = FlattenSeq(a) \o FlattenSeq(p(k + 1))
    OBVIOUS
  <2> DEFINE e == b[k + 1]
             q == p(k)
  <2>1. k <= n /\ k + 1 \in 1..n
    BY <1>1
  <2>2. q \in Seq(Q) /\ FlattenSeq(a \o q) = FlattenSeq(a) \o FlattenSeq(q)
    BY <1>4, <2>1
  <2>3. e \in Q
    BY <1>1, <2>1, ElementOfSeq
  <2>4. a \o p(k + 1) = Append(a \o q, e) /\ a \o q \in Seq(Q)
    <3> HIDE DEF Q
    <3> QED
      BY <1>1, GrowPrefix
  <2>5. p(k + 1) = Append(q, e)
    <3>1. << >> \o SubSeq(b, 1, k + 1) = Append(<< >> \o SubSeq(b, 1, k), b[k + 1])
          /\ << >> \o SubSeq(b, 1, k + 1) \in Seq(Q)
      <4>1. << >> \in Seq(Q) /\ Append(q, e) \in Seq(Q)
        BY <2>2, <2>3
      <4>2. << >> \o SubSeq(b, 1, k + 1) = Append(<< >> \o SubSeq(b, 1, k), b[k + 1])
        <5> HIDE DEF Q
        <5> QED
          BY <1>1, <4>1, GrowPrefix
      <4>3. << >> \o q = q
        BY <2>2, ConcatEmptySeq
      <4> QED
        BY <4>1, <4>2, <4>3
    <3>2. << >> \o q = q
      BY <2>2, ConcatEmptySeq
    <3>3. SubSeq(b, 1, k + 1) \in Seq(Q)
      <4>1. \A i \in 1..k + 1 : b[i] \in Q
        <5>1. \A i \in 1..n : b[i] \in Q
          BY <1>1, ElementOfSeq
        <5> QED
          BY <1>1, <5>1
      <4> HIDE DEF Q
      <4>2. 1 \in Int /\ k + 1 \in Int
        OBVIOUS
      <4> QED
        BY <4>1, <4>2, SubSeqProperties
    <3>4. << >> \o SubSeq(b, 1, k + 1) = SubSeq(b, 1, k + 1)
      BY <3>3, ConcatEmptySeq
    <3> QED
      BY <3>1, <3>2, <3>4
  <2> HIDE DEF e, q
  <2>6. FlattenSeq(a \o p(k + 1)) = FlattenSeq(a \o q) \o e
    BY <2>3, <2>4, FlattenAppend
  <2>7. FlattenSeq(p(k + 1)) = FlattenSeq(q) \o e
    BY <2>2, <2>3, <2>5, FlattenAppend
  <2>8. FlattenSeq(a) \in Q /\ FlattenSeq(q) \in Q
    BY <2>2, FlattenType
  <2>9. FlattenSeq(a \o p(k + 1)) = FlattenSeq(a) \o (FlattenSeq(q) \o e)
    <3>1. (FlattenSeq(a) \o FlattenSeq(q)) \o e = FlattenSeq(a) \o (FlattenSeq(q) \o e)
      BY <1>2, <2>3, <2>8, Zenon
    <3> QED
      BY <2>2, <2>6, <3>1
  <2>10. p(k + 1) \in Seq(Q)
    <3>1. Append(q, e) \in Seq(Q)
      BY <2>2, <2>3
    <3> QED
      BY <2>5, <3>1
  <2> QED
    BY <2>7, <2>9, <2>10
<1>5. n \in T
  <2> HIDE DEF T
  <2> QED
    BY <1>1, <1>3, <1>4, SetInduction
<1>6. FlattenSeq(a \o p(n)) = FlattenSeq(a) \o FlattenSeq(p(n))
  BY <1>1, <1>5
<1>7. p(n) = b
  BY <1>1, SubSeqFull
<1> HIDE DEF p
<1> QED
  BY <1>6, <1>7

\* What is joined begins with the first.
LEMMA FlattenHead ==
    ASSUME NEW S, NEW seqs \in Seq(Seq(S)), seqs # << >>
    PROVE  /\ Head(seqs) \in Seq(S) /\ Tail(seqs) \in Seq(Seq(S))
           /\ FlattenSeq(seqs) = Head(seqs) \o FlattenSeq(Tail(seqs))
<1> DEFINE Q == Seq(S)
           n == Len(seqs)
           h == Head(seqs)
           r == Tail(seqs)
<1>1. h \in Q /\ r \in Seq(Q) /\ n \in Nat /\ n # 0 /\ h = seqs[1]
  <2> HIDE DEF Q
  <2> QED
    BY HeadTailProperties, EmptySeq, LenProperties DEF Q
<1>2. seqs = << h >> \o r
  <2>1. 1 \in 1..n /\ n \in 1..n
    BY <1>1
  <2> HIDE DEF Q
  <2>2. seqs \in Seq(Q)
    BY DEF Q
  <2>3. SubSeq(seqs, 1, n) = << seqs[1] >> \o SubSeq(seqs, 2, n)
    BY <2>1, <2>2, SubSeqRecursiveFirst
  <2>4. SubSeq(seqs, 1, n) = seqs /\ r = SubSeq(seqs, 2, n)
    BY <2>2, SubSeqFull, TailIsSubSeq
  <2> QED
    BY <1>1, <2>3, <2>4
<1>3. << h >> \in Seq(Q)
  BY <1>1
<1> HIDE DEF h, r
<1>4. FlattenSeq(<< h >> \o r) = FlattenSeq(<< h >>) \o FlattenSeq(r)
  BY <1>1, <1>3, FlattenConcat
<1>5. FlattenSeq(<< h >>) = h
  BY <1>1, FlattenSingle
<1> QED
  BY <1>1, <1>2, <1>4, <1>5 DEF h, r
=============================================================================
