---------------------------- MODULE SequenceLemmas ----------------------------
(***************************************************************************)
(* Induction and recursion without operators as parameters: a set of       *)
(* naturals takes the place of the predicate, and a function that of the   *)
(* step.                                                                   *)
(***************************************************************************)
EXTENDS Integers, SequencesExt, WellFoundedInduction, SequenceTheorems, TLAPS

\* A set that has 0 and every successor of its elements has every natural.
LEMMA SetInduction ==
    ASSUME NEW S, 0 \in S, \A n \in Nat : n \in S => n + 1 \in S
    PROVE  \A n \in Nat : n \in S
<1> SUFFICES ASSUME Nat \ S # {} PROVE FALSE
  OBVIOUS
<1>1. PICK n \in Nat \ S : \A m \in Nat \ S : ~(<<m, n>> \in OpToRel(<, Nat))
  BY WFMin, NatLessThanWellFounded, Zenon
<1>2. n - 1 \in Nat /\ n - 1 < n
  OBVIOUS
<1>3. <<n - 1, n>> \in OpToRel(<, Nat)
  BY <1>2 DEF OpToRel
<1>4. n - 1 \notin S
  <2>1. n \notin S /\ (n - 1) + 1 = n
    BY <1>2
  <2> QED
    BY <1>2, <2>1
<1>5. n - 1 \in Nat \ S
  BY <1>2, <1>4
<1> QED
  BY <1>1, <1>3, <1>5, Zenon

\* What a recursive function on m..n has to be: base at m, and step behind it.
Recursive(g, m, n, base, step) ==
    g[m] = base /\ \A i \in (m + 1)..n : g[i] = step[<<i, g[i - 1]>>]

\* There is one, if base and step stay in T.
LEMMA RecursionOnInterval ==
    ASSUME NEW T, NEW m \in Int, NEW n \in Int, m <= n, NEW base \in T,
           NEW step \in [((m + 1)..n) \X T -> T]
    PROVE  \E g \in [m..n -> T] : Recursive(g, m, n, base, step)
<1> DEFINE S == {k \in Nat : m + k <= n =>
                     \E g \in [m..(m + k) -> T] :
                         Recursive(g, m, m + k, base, step)}
<1>1. 0 \in S
  <2> DEFINE g == [i \in m..(m + 0) |-> base]
  <2>1. g \in [m..(m + 0) -> T] /\ g[m] = base
    OBVIOUS
  <2>2. \A i \in (m + 1)..(m + 0) : FALSE
    OBVIOUS
  <2>3. Recursive(g, m, m + 0, base, step)
    BY <2>1, <2>2 DEF Recursive
  <2> QED
    BY <2>1, <2>3
<1>2. ASSUME NEW k \in Nat, k \in S PROVE k + 1 \in S
  <2> SUFFICES ASSUME m + (k + 1) <= n
               PROVE  \E g \in [m..(m + (k + 1)) -> T] :
                          Recursive(g, m, m + (k + 1), base, step)
    OBVIOUS
  <2>1. PICK h \in [m..(m + k) -> T] : Recursive(h, m, m + k, base, step)
    <3>1. m + k <= n
      OBVIOUS
    <3> QED
      BY <1>2, <3>1
  <2> DEFINE last == step[<<m + (k + 1), h[m + k]>>]
             g == [i \in m..(m + (k + 1)) |->
                     IF i = m + (k + 1) THEN last ELSE h[i]]
  <2>2. last \in T
    <3>1. m + (k + 1) \in (m + 1)..n /\ h[m + k] \in T
      OBVIOUS
    <3>2. <<m + (k + 1), h[m + k]>> \in ((m + 1)..n) \X T
      BY <3>1
    <3> QED
      BY <3>2
  <2> HIDE DEF last
  <2>3. g \in [m..(m + (k + 1)) -> T]
    BY <2>2
  <2>4. g[m] = base
    BY <2>1 DEF Recursive
  <2>5. ASSUME NEW i \in (m + 1)..(m + (k + 1))
        PROVE  g[i] = step[<<i, g[i - 1]>>]
    <3>1. CASE i = m + (k + 1)
      <4>1. g[i] = last /\ i - 1 = m + k /\ g[i - 1] = h[m + k]
        BY <3>1
      <4> QED
        BY <3>1, <4>1 DEF last
    <3>2. CASE i # m + (k + 1)
      <4>1. i \in (m + 1)..(m + k) /\ g[i] = h[i] /\ g[i - 1] = h[i - 1]
        BY <3>2
      <4> QED
        BY <2>1, <4>1 DEF Recursive
    <3> QED
      BY <3>1, <3>2
  <2>6. Recursive(g, m, m + (k + 1), base, step)
    BY <2>4, <2>5 DEF Recursive
  <2> QED
    BY <2>3, <2>6
<1> HIDE DEF S
<1>3. n - m \in S
  BY <1>1, <1>2, SetInduction
<1>4. m + (n - m) = n
  OBVIOUS
<1> QED
  BY <1>3, <1>4 DEF S

\* What keeps a property from each index to the next has it everywhere.
LEMMA IntervalInduction ==
    ASSUME NEW m \in Int, NEW n \in Int, NEW S, m <= n => m \in S,
           \A i \in (m + 1)..n : i - 1 \in S => i \in S
    PROVE  \A i \in m..n : i \in S
<1> DEFINE Offsets == {k \in Nat : m + k <= n => m + k \in S}
<1>1. 0 \in Offsets
  OBVIOUS
<1>2. ASSUME NEW k \in Nat, k \in Offsets PROVE k + 1 \in Offsets
  <2> SUFFICES ASSUME m + (k + 1) <= n PROVE m + (k + 1) \in S
    OBVIOUS
  <2>1. /\ m + (k + 1) \in (m + 1)..n
        /\ (m + (k + 1)) - 1 = m + k
        /\ m + k <= n
    OBVIOUS
  <2>2. m + k \in S
    BY <1>2, <2>1
  <2> QED
    BY <2>1, <2>2
<1> HIDE DEF Offsets
<1>3. \A k \in Nat : k \in Offsets
  BY <1>1, <1>2, SetInduction
<1> QED
  <2> TAKE i \in m..n
  <2>1. i - m \in Nat /\ m + (i - m) = i
    OBVIOUS
  <2> QED
    BY <1>3, <2>1 DEF Offsets

\* What FlattenSeq of a sequence that is not empty chooses.
FlattenBody(f, ss) ==
    [i \in 1..Len(ss) |-> IF i = 1 THEN ss[i] ELSE f[i - 1] \o ss[i]]

\* There is one, and FlattenSeq takes its last value.
LEMMA FlattenChooses ==
    ASSUME NEW S, NEW ss \in Seq(Seq(S)), ss # << >>
    PROVE  \E f \in [1..Len(ss) -> Seq(S)] :
               /\ f = FlattenBody(f, ss)
               /\ FlattenSeq(ss) = f[Len(ss)]
<1> DEFINE n == Len(ss)
           step == [p \in ((1 + 1)..n) \X Seq(S) |-> p[2] \o ss[p[1]]]
<1>1. n \in Nat /\ 1 <= n /\ 1 \in Int /\ n \in Int /\ ss \in [1..n -> Seq(S)]
  OBVIOUS
<1>2. step \in [((1 + 1)..n) \X Seq(S) -> Seq(S)]
  <2>1. ASSUME NEW i \in (1 + 1)..n, NEW s \in Seq(S) PROVE s \o ss[i] \in Seq(S)
    <3>1. ss[i] \in Seq(S)
      BY <1>1
    <3> QED
      BY <3>1
  <2> QED
    BY <2>1
<1>3. \A i \in (1 + 1)..n, s \in Seq(S) : step[<<i, s>>] = s \o ss[i]
  OBVIOUS
<1> HIDE DEF step
<1>4. ss[1] \in Seq(S)
  BY <1>1
<1>5. PICK g \in [1..n -> Seq(S)] : Recursive(g, 1, n, ss[1], step)
  BY <1>1, <1>2, <1>4, RecursionOnInterval, Zenon
<1>6. g = FlattenBody(g, ss)
  <2>1. ASSUME NEW i \in 1..n, i # 1 PROVE g[i] = g[i - 1] \o ss[i]
    <3>1. i \in (1 + 1)..n /\ i - 1 \in 1..n
      BY <2>1
    <3>2. g[i] = step[<<i, g[i - 1]>>] /\ g[i - 1] \in Seq(S)
      BY <1>5, <3>1 DEF Recursive
    <3> QED
      BY <1>3, <3>1, <3>2
  <2>2. g[1] = ss[1]
    BY <1>5 DEF Recursive
  <2>3. \A i \in 1..n : g[i] = IF i = 1 THEN ss[i] ELSE g[i - 1] \o ss[i]
    BY <2>1, <2>2
  <2> QED
    BY <2>3 DEF FlattenBody
<1> DEFINE chosen == CHOOSE f : f = FlattenBody(f, ss)
<1>7. chosen = FlattenBody(chosen, ss)
  BY <1>6, Zenon
<1>8. FlattenSeq(ss) = chosen[n]
  <2>1. Len(ss) # 0
    BY <1>1
  <2> QED
    BY <2>1, Zenon DEF FlattenSeq, FlattenBody
<1> HIDE DEF chosen
<1>9. \A i \in 1..n : chosen[i] = g[i]
  <2> DEFINE Same == {i \in 1..n : chosen[i] = g[i]}
  <2>1. chosen[1] = g[1]
    BY <1>1, <1>5, <1>7 DEF FlattenBody, Recursive
  <2>2. ASSUME NEW i \in (1 + 1)..n, chosen[i - 1] = g[i - 1]
        PROVE  chosen[i] = g[i]
    <3>1. i \in 1..n /\ i # 1
      OBVIOUS
    <3>2. chosen[i] = chosen[i - 1] \o ss[i]
      BY <1>7, <3>1 DEF FlattenBody
    <3>3. g[i] = g[i - 1] \o ss[i]
      BY <1>6, <3>1 DEF FlattenBody
    <3> QED
      BY <2>2, <3>2, <3>3
  <2>3. 1 \in Same
    BY <1>1, <2>1
  <2>4. \A i \in (1 + 1)..n : i - 1 \in Same => i \in Same
    BY <2>2
  <2> HIDE DEF Same
  <2>5. \A i \in 1..n : i \in Same
    BY <1>1, <2>3, <2>4, IntervalInduction, Zenon
  <2> QED
    BY <2>5 DEF Same
<1>10. n \in 1..n
  BY <1>1
<1>11. FlattenSeq(ss) = g[n]
  BY <1>8, <1>9, <1>10
<1> QED
  BY <1>5, <1>6, <1>11

\* FlattenSeq, as it is defined, is what its name says.
LEMMA FlattenEmpty == FlattenSeq(<< >>) = << >>
BY DEF FlattenSeq

LEMMA FlattenTyped ==
    ASSUME NEW S, NEW ss \in Seq(Seq(S))
    PROVE  FlattenSeq(ss) \in Seq(S)
<1>1. CASE ss = << >>
  <2>1. << >> \in Seq(S)
    OBVIOUS
  <2> QED
    BY <1>1, <2>1, FlattenEmpty, Zenon
<1>2. CASE ss # << >>
  <2>1. PICK f \in [1..Len(ss) -> Seq(S)] : FlattenSeq(ss) = f[Len(ss)]
    BY <1>2, FlattenChooses, Zenon
  <2>2. Len(ss) \in 1..Len(ss)
    BY <1>2
  <2> QED
    BY <2>1, <2>2
<1> QED
  BY <1>1, <1>2

LEMMA FlattenAppend ==
    ASSUME NEW S, NEW ss \in Seq(Seq(S)), NEW s \in Seq(S)
    PROVE  FlattenSeq(Append(ss, s)) = FlattenSeq(ss) \o s
<1> DEFINE longer == Append(ss, s)
           n == Len(ss)
<1>1. /\ longer \in Seq(Seq(S)) /\ longer # << >>
      /\ n \in Nat /\ n \in Int /\ 1 \in Int /\ Len(longer) = n + 1
      /\ longer[n + 1] = s
      /\ \A i \in 1..n : longer[i] = ss[i]
  BY AppendProperties
<1> HIDE DEF longer
<1>2. PICK g \in [1..(n + 1) -> Seq(S)] :
        g = FlattenBody(g, longer) /\ FlattenSeq(longer) = g[n + 1]
  BY <1>1, FlattenChooses, Zenon
<1>3. CASE ss = << >>
  <2>1. n = 0 /\ g[1] = s
    BY <1>1, <1>2, <1>3 DEF FlattenBody
  <2>2. << >> \o s = s
    OBVIOUS
  <2> QED
    BY <1>2, <1>3, <2>1, <2>2, FlattenEmpty DEF longer
<1>4. CASE ss # << >>
  <2>1. PICK f \in [1..n -> Seq(S)] :
          f = FlattenBody(f, ss) /\ FlattenSeq(ss) = f[n]
    BY <1>4, FlattenChooses, Zenon
  <2> DEFINE Same == {i \in 1..n : g[i] = f[i]}
  <2>2. 1 <= n
    BY <1>4
  <2>3. 1 \in Same
    BY <1>1, <1>2, <2>1, <2>2 DEF FlattenBody
  <2>4. ASSUME NEW i \in (1 + 1)..n, i - 1 \in Same PROVE i \in Same
    <3>1. i \in 1..n /\ i \in 1..(n + 1) /\ i # 1 /\ g[i - 1] = f[i - 1]
      BY <2>4
    <3>2. f[i] = f[i - 1] \o ss[i]
      BY <2>1, <3>1 DEF FlattenBody
    <3>3. g[i] = g[i - 1] \o longer[i]
      BY <1>1, <1>2, <3>1 DEF FlattenBody
    <3> QED
      BY <1>1, <3>1, <3>2, <3>3
  <2> HIDE DEF Same
  <2>5. \A i \in 1..n : i \in Same
    BY <1>1, <2>3, <2>4, IntervalInduction, Zenon
  <2>6. g[n] = f[n]
    BY <1>1, <2>2, <2>5 DEF Same
  <2>7. g[n + 1] = g[n] \o s
    <3>1. n + 1 \in 1..(n + 1) /\ n + 1 # 1 /\ (n + 1) - 1 = n
      BY <1>1, <2>2
    <3> QED
      BY <1>1, <1>2, <3>1 DEF FlattenBody
  <2> QED
    BY <1>2, <2>1, <2>6, <2>7 DEF longer
<1> QED
  BY <1>3, <1>4

\* Appending to the second of two sequences.
LEMMA AppendToConcat ==
    ASSUME NEW S, NEW s \in Seq(S), NEW t \in Seq(S), NEW e \in S
    PROVE  Append(s \o t, e) = s \o Append(t, e)
OBVIOUS

\* Induction over the sequences of a set.
LEMMA SequenceInduction ==
    ASSUME NEW A, NEW S, << >> \in S,
           \A s \in Seq(A), e \in A : s \in S => Append(s, e) \in S
    PROVE  \A s \in Seq(A) : s \in S
<1> DEFINE Lengths == {n \in Nat : \A s \in Seq(A) : Len(s) = n => s \in S}
<1>1. 0 \in Lengths
  OBVIOUS
<1>2. ASSUME NEW n \in Nat, n \in Lengths PROVE n + 1 \in Lengths
  <2> SUFFICES ASSUME NEW s \in Seq(A), Len(s) = n + 1 PROVE s \in S
    OBVIOUS
  <2>1. s # << >>
    OBVIOUS
  <2>2. PICK front \in Seq(A), e \in A : s = Append(front, e)
    BY <2>1, SequenceEmptyOrAppend, Zenon
  <2>3. Len(front) = n
    BY <2>2
  <2> QED
    BY <1>2, <2>2, <2>3
<1> HIDE DEF Lengths
<1>3. \A n \in Nat : n \in Lengths
  BY <1>1, <1>2, SetInduction
<1> QED
  BY <1>3 DEF Lengths

LEMMA FlattenConcat ==
    ASSUME NEW S, NEW ss \in Seq(Seq(S)), NEW tt \in Seq(Seq(S))
    PROVE  FlattenSeq(ss \o tt) = FlattenSeq(ss) \o FlattenSeq(tt)
<1> DEFINE Good == {t \in Seq(Seq(S)) :
                      FlattenSeq(ss \o t) = FlattenSeq(ss) \o FlattenSeq(t)}
<1>1. << >> \in Good
  <2>1. FlattenSeq(ss) \in Seq(S) /\ << >> \in Seq(Seq(S))
    BY FlattenTyped
  <2>2. ss \o << >> = ss /\ FlattenSeq(ss) \o << >> = FlattenSeq(ss)
    BY <2>1
  <2>3. FlattenSeq(ss \o << >>) = FlattenSeq(ss) \o FlattenSeq(<< >>)
    BY <2>2, FlattenEmpty, Zenon
  <2> QED
    BY <2>1, <2>3
<1>2. ASSUME NEW t \in Seq(Seq(S)), NEW s \in Seq(S), t \in Good
      PROVE  Append(t, s) \in Good
  <2>1. /\ ss \o Append(t, s) = Append(ss \o t, s)
        /\ ss \o t \in Seq(Seq(S)) /\ Append(t, s) \in Seq(Seq(S))
    OBVIOUS
  <2>2. /\ FlattenSeq(Append(ss \o t, s)) = FlattenSeq(ss \o t) \o s
        /\ FlattenSeq(Append(t, s)) = FlattenSeq(t) \o s
    BY <2>1, FlattenAppend
  <2>3. /\ FlattenSeq(ss) \in Seq(S) /\ FlattenSeq(t) \in Seq(S)
        /\ FlattenSeq(ss \o t) = FlattenSeq(ss) \o FlattenSeq(t)
    BY <1>2, FlattenTyped
  <2>4. (FlattenSeq(ss) \o FlattenSeq(t)) \o s
            = FlattenSeq(ss) \o (FlattenSeq(t) \o s)
    BY <2>3, ConcatAssociative, SMTT(30)
  <2> QED
    BY <2>1, <2>2, <2>3, <2>4
<1> HIDE DEF Good
<1>3. \A t \in Seq(Seq(S)) : t \in Good
  BY <1>1, <1>2, SequenceInduction, Zenon
<1> QED
  BY <1>3 DEF Good

\* The pieces of two sequences, cut in the first one.
LEMMA ConcatPieces ==
    ASSUME NEW S, NEW s \in Seq(S), NEW t \in Seq(S), NEW k \in 0..Len(s)
    PROVE  /\ SubSeq(s \o t, 1, k) = SubSeq(s, 1, k)
           /\ SubSeq(s \o t, k + 1, Len(s \o t)) = SubSeq(s, k + 1, Len(s)) \o t
<1> DEFINE st == s \o t
           front == SubSeq(s, 1, k)
           back == SubSeq(s, k + 1, Len(s))
<1>1. /\ st \in Seq(S) /\ Len(st) = Len(s) + Len(t) /\ Len(s) \in Nat /\ Len(t) \in Nat
      /\ \A i \in 1..(Len(s) + Len(t)) :
             st[i] = IF i <= Len(s) THEN s[i] ELSE t[i - Len(s)]
  BY ConcatProperties
<1>2. /\ front \in Seq(S) /\ Len(front) = k /\ \A i \in 1..k : front[i] = s[i]
      /\ back \in Seq(S) /\ Len(back) = Len(s) - k
      /\ \A i \in 1..(Len(s) - k) : back[i] = s[k + i]
  BY <1>1
<1> HIDE DEF st, front, back
<1>3. SubSeq(st, 1, k) = front
  <2> DEFINE one == SubSeq(st, 1, k)
  <2>1. one \in Seq(S) /\ Len(one) = k /\ \A i \in 1..k : one[i] = st[i]
    BY <1>1
  <2> HIDE DEF one
  <2>2. \A i \in 1..k : one[i] = front[i]
    BY <1>1, <1>2, <2>1
  <2> QED
    BY <1>2, <2>1, <2>2, SeqEqual DEF one
<1>4. SubSeq(st, k + 1, Len(st)) = back \o t
  <2> DEFINE one == SubSeq(st, k + 1, Len(st))
             other == back \o t
             n == Len(s) + Len(t) - k
  <2>1. one \in Seq(S) /\ Len(one) = n /\ \A i \in 1..n : one[i] = st[k + i]
    BY <1>1
  <2>2. other \in Seq(S) /\ Len(other) = n
        /\ \A i \in 1..n : other[i] = IF i <= Len(s) - k THEN back[i]
                                      ELSE t[i - (Len(s) - k)]
    <3>1. /\ other \in Seq(S) /\ Len(other) = Len(back) + Len(t)
          /\ \A i \in 1..(Len(back) + Len(t)) :
                 other[i] = IF i <= Len(back) THEN back[i] ELSE t[i - Len(back)]
      BY <1>2, ConcatProperties
    <3>2. Len(back) + Len(t) = n
      BY <1>1, <1>2
    <3> HIDE DEF other
    <3> QED
      BY <1>2, <3>1, <3>2
  <2> HIDE DEF one, other
  <2>3. ASSUME NEW i \in 1..n PROVE one[i] = other[i]
    <3>1. CASE i <= Len(s) - k
      <4>1. /\ k + i \in 1..(Len(s) + Len(t)) /\ k + i <= Len(s)
            /\ i \in 1..(Len(s) - k)
        BY <1>1, <3>1
      <4>2. one[i] = st[k + i] /\ other[i] = back[i]
        BY <2>1, <2>2, <3>1
      <4>3. st[k + i] = s[k + i] /\ back[i] = s[k + i]
        BY <1>1, <1>2, <4>1
      <4> QED
        BY <4>2, <4>3
    <3>2. CASE ~(i <= Len(s) - k)
      <4>1. k + i \in 1..(Len(s) + Len(t)) /\ ~(k + i <= Len(s))
            /\ (k + i) - Len(s) = i - (Len(s) - k)
        BY <1>1, <3>2
      <4> QED
        BY <1>1, <2>1, <2>2, <3>2, <4>1
    <3> QED
      BY <3>1, <3>2
  <2> QED
    BY <2>1, <2>2, <2>3, SeqEqual DEF one, other
<1> QED
  BY <1>3, <1>4 DEF st, front, back

\* The pieces of the back of a sequence.
LEMMA BackPieces ==
    ASSUME NEW S, NEW u \in Seq(S), NEW j \in 0..Len(u), NEW k \in 0..(Len(u) - j)
    PROVE  /\ SubSeq(u, j + 1, Len(u)) \in Seq(S)
           /\ Len(SubSeq(u, j + 1, Len(u))) = Len(u) - j
           /\ SubSeq(SubSeq(u, j + 1, Len(u)), 1, k) = SubSeq(u, j + 1, j + k)
           /\ SubSeq(SubSeq(u, j + 1, Len(u)), k + 1, Len(u) - j)
                  = SubSeq(u, j + k + 1, Len(u))
<1> DEFINE back == SubSeq(u, j + 1, Len(u))
           n == Len(u) - j
<1>1. /\ Len(u) \in Nat /\ n \in Nat /\ back \in Seq(S) /\ Len(back) = n
      /\ \A i \in 1..n : back[i] = u[j + i]
  OBVIOUS
<1>2. SubSeq(back, 1, k) = SubSeq(u, j + 1, j + k)
  <2> DEFINE one == SubSeq(back, 1, k)
             other == SubSeq(u, j + 1, j + k)
  <2>1. one \in Seq(S) /\ Len(one) = k /\ \A i \in 1..k : one[i] = back[i]
    <3> HIDE DEF back
    <3> QED
      BY <1>1
  <2>2. other \in Seq(S) /\ Len(other) = k /\ \A i \in 1..k : other[i] = u[j + i]
    BY <1>1
  <2> HIDE DEF one, other, back
  <2>3. ASSUME NEW i \in 1..k PROVE one[i] = other[i]
    <3>1. i \in 1..n
      BY <1>1
    <3> QED
      BY <1>1, <2>1, <2>2, <3>1
  <2> QED
    BY <2>1, <2>2, <2>3, SeqEqual DEF one, other
<1>3. SubSeq(back, k + 1, n) = SubSeq(u, j + k + 1, Len(u))
  <2> DEFINE one == SubSeq(back, k + 1, n)
             other == SubSeq(u, j + k + 1, Len(u))
             m == n - k
  <2>1. one \in Seq(S) /\ Len(one) = m /\ \A i \in 1..m : one[i] = back[k + i]
    <3> HIDE DEF back
    <3> QED
      BY <1>1
  <2>2. other \in Seq(S) /\ Len(other) = m /\ \A i \in 1..m : other[i] = u[j + k + i]
    BY <1>1
  <2> HIDE DEF one, other, back
  <2>3. ASSUME NEW i \in 1..m PROVE one[i] = other[i]
    <3>1. k + i \in 1..n /\ j + (k + i) = j + k + i
      BY <1>1
    <3> QED
      BY <1>1, <2>1, <2>2, <3>1
  <2> QED
    BY <2>1, <2>2, <2>3, SeqEqual DEF one, other
<1> QED
  BY <1>1, <1>2, <1>3
=============================================================================
