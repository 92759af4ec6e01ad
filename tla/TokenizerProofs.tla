---------------------------- MODULE TokenizerProofs ----------------------------
(***************************************************************************)
(* For every text, vocabulary and list of special tokens: encoding loses,  *)
(* doubles and moves nothing of the text, and chunks end where the         *)
(* cl100k_base expression ends its matches unless two blanks stand one     *)
(* after another; the merges of a chunk are those of the list in order.    *)
(***************************************************************************)
EXTENDS Tokenizer, DataLemmas, SequenceTheorems

-----------------------------------------------------------------------------
(***************************************************************************)
(* Sequences of sequences: what FlattenSeq makes.                          *)
(***************************************************************************)
\* f[i] is the first i elements of s put together, up to n.
Flattens(f, s, n) == f = [i \in 1 .. n |-> IF i = 1 THEN s[i] ELSE f[i - 1] \o s[i]]

\* There are such partial results.
LEMMA FlattensExists ==
  ASSUME NEW s, NEW n \in Nat
  PROVE  \E f : Flattens(f, s, n)
<1> DEFINE P == {m \in Nat : \E f : Flattens(f, s, m)}
<1>1. 0 \in P
  <2>1. Flattens([i \in 1 .. 0 |-> s[i]], s, 0)
    BY DEF Flattens
  <2> QED
    BY <2>1
<1>2. ASSUME NEW m \in P
      PROVE  m + 1 \in P
  <2>1. PICK f : Flattens(f, s, m)
    BY <1>2
  <2>2. f = [i \in 1 .. m |-> IF i = 1 THEN s[i] ELSE f[i - 1] \o s[i]]
    BY <2>1 DEF Flattens
  <2> DEFINE g == [i \in 1 .. m + 1 |-> IF i = 1 THEN s[i]
                                        ELSE IF i = m + 1 THEN f[m] \o s[i] ELSE f[i]]
  <2>3. m \in Nat /\ 1 .. m + 1 = (1 .. m) \cup {m + 1}
    OBVIOUS
  <2>4. ASSUME NEW i \in 1 .. m + 1
        PROVE  g[i] = IF i = 1 THEN s[i] ELSE g[i - 1] \o s[i]
    <3>1. CASE i = 1
      BY <3>1
    <3>2. CASE i # 1 /\ i = m + 1
      <4>1. m \in 1 .. m + 1 /\ m # m + 1 /\ m \in 1 .. m
        BY <2>3, <3>2
      <4>2. g[i - 1] = f[m]
        <5>1. i - 1 = m
          BY <3>2, <2>3
        <5>2. g[m] = IF m = 1 THEN s[m] ELSE f[m]
          BY <4>1
        <5>3. m = 1 => f[m] = s[m]
          BY <2>2, <4>1
        <5> QED
          BY <5>1, <5>2, <5>3
      <4> QED
        BY <3>2, <4>2
    <3>3. CASE i # 1 /\ i # m + 1
      <4>1. i \in 1 .. m /\ i - 1 \in 1 .. m /\ i - 1 \in 1 .. m + 1 /\ i - 1 # m + 1
        BY <2>3, <3>3
      <4>2. g[i] = f[i] /\ f[i] = f[i - 1] \o s[i]
        BY <2>2, <3>3, <4>1
      <4>3. g[i - 1] = f[i - 1]
        BY <2>2, <4>1
      <4> QED
        BY <3>3, <4>2, <4>3
    <3> QED
      BY <3>1, <3>2, <3>3
  <2>5. g = [i \in 1 .. m + 1 |-> IF i = 1 THEN s[i] ELSE g[i - 1] \o s[i]]
    <3>1. g = [i \in 1 .. m + 1 |-> g[i]]
      OBVIOUS
    <3> HIDE DEF g
    <3> QED
      BY <2>4, <3>1
  <2>6. Flattens(g, s, m + 1)
    <3> HIDE DEF g
    <3> QED
      BY <2>5 DEF Flattens
  <2> HIDE DEF g
  <2> QED
    BY <2>3, <2>6
<1> HIDE DEF P
<1>3. P = Nat
  <2>1. P \in SUBSET Nat
    BY DEF P
  <2> QED
    BY <1>1, <1>2, <2>1, Induction
<1> QED
  BY <1>3 DEF P

\* Each is the one before and the next element.
LEMMA FlattensAt ==
  ASSUME NEW s, NEW n \in Nat, NEW f, Flattens(f, s, n), NEW i \in 1 .. n
  PROVE  f[i] = IF i = 1 THEN s[i] ELSE f[i - 1] \o s[i]
<1> DEFINE body(j) == IF j = 1 THEN s[j] ELSE f[j - 1] \o s[j]
           h == [j \in 1 .. n |-> body(j)]
<1>1. f = h
  BY DEF Flattens
<1>2. h[i] = body(i)
  <2> HIDE DEF body
  <2> QED
    OBVIOUS
<1>3. f[i] = body(i)
  <2> HIDE DEF body, h
  <2> QED
    BY <1>1, <1>2
<1> QED
  BY <1>3

\* The last of them is what FlattenSeq returns.
LEMMA FlattenIs ==
  ASSUME NEW s, Len(s) \in Nat \ {0}
  PROVE  \E f : Flattens(f, s, Len(s)) /\ FlattenSeq(s) = f[Len(s)]
<1> DEFINE R(f) == f = [i \in 1 .. Len(s) |-> IF i = 1 THEN s[i] ELSE f[i - 1] \o s[i]]
           c == CHOOSE f : R(f)
<1>1. \E f : R(f)
  BY FlattensExists DEF Flattens
<1>2. R(c)
  BY <1>1
<1>3. FlattenSeq(s) = c[Len(s)]
  BY DEF FlattenSeq
<1> QED
  BY <1>2, <1>3 DEF Flattens

\* What the first elements make does not depend on those behind.
LEMMA FlattensAgree ==
  ASSUME NEW s, NEW t, NEW f, NEW g, NEW m \in Nat, NEW n \in Nat, m <= n,
         \A i \in 1 .. m : s[i] = t[i], Flattens(f, s, m), Flattens(g, t, n)
  PROVE  \A i \in 1 .. m : f[i] = g[i]
<1> DEFINE P == {i \in Nat : i \in 1 .. m => f[i] = g[i]}
<1>1. 0 \in P
  OBVIOUS
<1>2. ASSUME NEW i \in P
      PROVE  i + 1 \in P
  <2> SUFFICES ASSUME i + 1 \in 1 .. m
               PROVE  f[i + 1] = g[i + 1]
    OBVIOUS
  <2>1. i + 1 \in 1 .. n /\ i \in Nat
    OBVIOUS
  <2>2. f[i + 1] = IF i + 1 = 1 THEN s[i + 1] ELSE f[i + 1 - 1] \o s[i + 1]
    BY FlattensAt
  <2>3. g[i + 1] = IF i + 1 = 1 THEN t[i + 1] ELSE g[i + 1 - 1] \o t[i + 1]
    BY <2>1, FlattensAt
  <2>4. i + 1 # 1 => i \in 1 .. m /\ i + 1 - 1 = i /\ f[i] = g[i]
    BY <2>1
  <2> QED
    BY <2>2, <2>3, <2>4
<1> HIDE DEF P
<1>3. P = Nat
  <2>1. P \in SUBSET Nat
    BY DEF P
  <2> QED
    BY <1>1, <1>2, <2>1, Induction
<1> QED
  BY <1>3 DEF P

\* Sequences over S make a sequence over S.
LEMMA FlattenType ==
  ASSUME NEW S, NEW s \in Seq(Seq(S))
  PROVE  FlattenSeq(s) \in Seq(S)
<1>1. CASE s = <<>>
  BY <1>1 DEF FlattenSeq
<1>2. CASE s # <<>>
  <2>1. Len(s) \in Nat \ {0}
    BY <1>2
  <2>2. PICK f : Flattens(f, s, Len(s)) /\ FlattenSeq(s) = f[Len(s)]
    BY <2>1, FlattenIs
  <2> DEFINE P == {i \in Nat : i \in 1 .. Len(s) => f[i] \in Seq(S)}
  <2>3. 0 \in P
    OBVIOUS
  <2>4. ASSUME NEW i \in P
        PROVE  i + 1 \in P
    <3> SUFFICES ASSUME i + 1 \in 1 .. Len(s)
                 PROVE  f[i + 1] \in Seq(S)
      OBVIOUS
    <3>1. f[i + 1] = IF i + 1 = 1 THEN s[i + 1] ELSE f[i + 1 - 1] \o s[i + 1]
      BY <2>1, <2>2, FlattensAt
    <3>2. i + 1 # 1 => i \in 1 .. Len(s) /\ i + 1 - 1 = i /\ f[i] \in Seq(S)
      OBVIOUS
    <3>3. s[i + 1] \in Seq(S)
      OBVIOUS
    <3> QED
      BY <3>1, <3>2, <3>3
  <2> HIDE DEF P
  <2>5. P = Nat
    <3>1. P \in SUBSET Nat
      BY DEF P
    <3> QED
      BY <2>3, <2>4, <3>1, Induction
  <2>6. Len(s) \in P
    BY <2>1, <2>5
  <2> QED
    BY <2>1, <2>2, <2>6 DEF P
<1> QED
  BY <1>1, <1>2

\* Of nothing comes nothing.
LEMMA FlattenNothing == FlattenSeq(<<>>) = <<>>
BY DEF FlattenSeq

\* One more sequence comes behind what there is.
LEMMA FlattenAppend ==
  ASSUME NEW S, NEW s \in Seq(Seq(S)), NEW x \in Seq(S)
  PROVE  FlattenSeq(Append(s, x)) = FlattenSeq(s) \o x
<1> DEFINE t == Append(s, x)
           m == Len(s)
           n == Len(t)
<1>1. m \in Nat /\ n = m + 1 /\ t[n] = x /\ \A i \in 1 .. m : t[i] = s[i]
  OBVIOUS
<1>2. n \in Nat \ {0} /\ n \in 1 .. n /\ n - 1 = m /\ m <= n /\ (n = 1 <=> m = 0)
  <2> HIDE DEF t, m, n
  <2> QED
    BY <1>1
<1>3. s = <<>> <=> m = 0
  OBVIOUS
<1>4. x = <<>> \o x
  OBVIOUS
<1> HIDE DEF t
<1>5. PICK g : Flattens(g, t, n) /\ FlattenSeq(t) = g[n]
  BY <1>2, FlattenIs
<1> HIDE DEF m, n
<1>6. g[n] = IF n = 1 THEN t[n] ELSE g[n - 1] \o t[n]
  BY <1>2, <1>5, FlattensAt
<1>7. CASE m = 0
  <2>1. FlattenSeq(s) = <<>>
    BY <1>3, <1>7, FlattenNothing
  <2>2. FlattenSeq(t) = x
    BY <1>1, <1>2, <1>5, <1>6, <1>7
  <2> QED
    BY <1>4, <2>1, <2>2 DEF t
<1>8. CASE m # 0
  <2>1. PICK f : Flattens(f, s, m) /\ FlattenSeq(s) = f[m]
    BY <1>1, <1>8, FlattenIs DEF m
  <2>2. m \in 1 .. m
    BY <1>1, <1>8
  <2>3. \A i \in 1 .. m : f[i] = g[i]
    BY <1>1, <1>2, <1>5, <2>1, FlattensAgree
  <2>4. g[n] = g[m] \o x
    BY <1>1, <1>2, <1>6, <1>8
  <2> QED
    BY <1>5, <2>1, <2>2, <2>3, <2>4 DEF t
<1> QED
  BY <1>7, <1>8

\* Two sequences of sequences make what each of them makes, one behind the other.
LEMMA FlattenConcat ==
  ASSUME NEW S, NEW s \in Seq(Seq(S)), NEW t \in Seq(Seq(S))
  PROVE  FlattenSeq(s \o t) = FlattenSeq(s) \o FlattenSeq(t)
<1> DEFINE To(n) == SubSeq(t, 1, n)
           P == {n \in Nat : n <= Len(t) => FlattenSeq(s \o To(n)) = FlattenSeq(s) \o FlattenSeq(To(n))}
<1>1. 0 \in P
  <2>1. To(0) = <<>> /\ s \o <<>> = s
    OBVIOUS
  <2>2. FlattenSeq(s) \o <<>> = FlattenSeq(s)
    BY FlattenType
  <2> QED
    BY <2>1, <2>2, FlattenNothing
<1>2. ASSUME NEW n \in P
      PROVE  n + 1 \in P
  <2> SUFFICES ASSUME n + 1 <= Len(t)
               PROVE  FlattenSeq(s \o To(n + 1)) = FlattenSeq(s) \o FlattenSeq(To(n + 1))
    OBVIOUS
  <2>1. n \in Nat /\ n <= Len(t) /\ n + 1 \in 1 .. Len(t)
    OBVIOUS
  <2>2. To(n) \in Seq(Seq(S)) /\ t[n + 1] \in Seq(S)
    BY <2>1
  <2>3. To(n + 1) = Append(To(n), t[n + 1])
    BY <2>1
  <2>4. s \o To(n + 1) = Append(s \o To(n), t[n + 1])
    <3> DEFINE u == To(n)
               x == t[n + 1]
    <3>1. u \in Seq(Seq(S)) /\ x \in Seq(S)
      BY <2>2
    <3> HIDE DEF u, x
    <3>2. s \o Append(u, x) = Append(s \o u, x)
      BY <3>1
    <3> QED
      BY <2>3, <3>2 DEF u, x
  <2>5. s \o To(n) \in Seq(Seq(S))
    <3> HIDE DEF To
    <3> QED
      BY <2>2
  <2>6. FlattenSeq(s \o To(n)) = FlattenSeq(s) \o FlattenSeq(To(n))
    BY <2>1
  <2> HIDE DEF To
  <2>7. FlattenSeq(s) \in Seq(S) /\ FlattenSeq(To(n)) \in Seq(S)
    BY <2>2, FlattenType
  <2>8. FlattenSeq(Append(s \o To(n), t[n + 1])) = FlattenSeq(s \o To(n)) \o t[n + 1]
    BY <2>2, <2>5, FlattenAppend
  <2>9. FlattenSeq(Append(To(n), t[n + 1])) = FlattenSeq(To(n)) \o t[n + 1]
    BY <2>2, FlattenAppend
  <2>10. (FlattenSeq(s) \o FlattenSeq(To(n))) \o t[n + 1] = FlattenSeq(s) \o (FlattenSeq(To(n)) \o t[n + 1])
    <3> DEFINE a == FlattenSeq(s)
               b == FlattenSeq(To(n))
               x == t[n + 1]
    <3>1. a \in Seq(S) /\ b \in Seq(S) /\ x \in Seq(S)
      BY <2>2, <2>7
    <3> HIDE DEF a, b, x
    <3>2. (a \o b) \o x = a \o (b \o x)
      BY <3>1
    <3> QED
      BY <3>2 DEF a, b, x
  <2> QED
    BY <2>3, <2>4, <2>6, <2>8, <2>9, <2>10
<1> HIDE DEF P
<1>3. P = Nat
  <2>1. P \in SUBSET Nat
    BY DEF P
  <2> QED
    BY <1>1, <1>2, <2>1, Induction
<1>4. Len(t) \in P /\ Len(t) \in Nat /\ To(Len(t)) = t
  BY <1>3
<1> HIDE DEF To
<1> QED
  BY <1>4 DEF P

\* One sequence in a sequence.
LEMMA FlattenOne ==
  ASSUME NEW S, NEW x \in Seq(S)
  PROVE  FlattenSeq(<<x>>) = x
<1>1. <<x>> = Append(<<>>, x) /\ <<>> \in Seq(Seq(S)) /\ <<>> \o x = x
  OBVIOUS
<1> QED
  BY <1>1, FlattenAppend, FlattenNothing

\* The characters of a sequence, each for itself.
LEMMA FlattenSingles ==
  ASSUME NEW S, NEW x \in Seq(S)
  PROVE  FlattenSeq([i \in 1 .. Len(x) |-> <<x[i]>>]) = x
<1> DEFINE To(n) == [i \in 1 .. n |-> <<x[i]>>]
           P == {n \in Nat : n <= Len(x) => FlattenSeq(To(n)) = SubSeq(x, 1, n)}
<1>1. 0 \in P
  <2>1. To(0) = <<>> /\ SubSeq(x, 1, 0) = <<>>
    OBVIOUS
  <2> QED
    BY <2>1, FlattenNothing
<1>2. ASSUME NEW n \in P
      PROVE  n + 1 \in P
  <2> SUFFICES ASSUME n + 1 <= Len(x)
               PROVE  FlattenSeq(To(n + 1)) = SubSeq(x, 1, n + 1)
    <3> HIDE DEF To
    <3> QED
      OBVIOUS
  <2>1. n \in Nat /\ n <= Len(x) /\ n + 1 \in 1 .. Len(x) /\ \A i \in 1 .. n : i \in 1 .. Len(x)
    OBVIOUS
  <2>2. To(n) \in Seq(Seq(S)) /\ <<x[n + 1]>> \in Seq(S)
    <3>1. \A i \in 1 .. n : <<x[i]>> \in Seq(S)
      BY <2>1
    <3> QED
      BY <2>1, <3>1
  <2>3. To(n + 1) = Append(To(n), <<x[n + 1]>>)
    BY <2>1
  <2>4. SubSeq(x, 1, n + 1) = SubSeq(x, 1, n) \o <<x[n + 1]>>
    BY <2>1
  <2>5. FlattenSeq(To(n)) = SubSeq(x, 1, n)
    BY <2>1
  <2> HIDE DEF To
  <2> QED
    BY <2>2, <2>3, <2>4, <2>5, FlattenAppend
<1> HIDE DEF P
<1>3. P = Nat
  <2>1. P \in SUBSET Nat
    BY DEF P
  <2> QED
    BY <1>1, <1>2, <2>1, Induction
<1>4. Len(x) \in P /\ Len(x) \in Nat /\ SubSeq(x, 1, Len(x)) = x
  BY <1>3
<1> QED
  BY <1>4 DEF P

-----------------------------------------------------------------------------
(***************************************************************************)
(* The pre-tokenizer and the expression.                                   *)
(***************************************************************************)
\* The least number of a set.
LEMMA MinIs ==
  ASSUME NEW S \in SUBSET Nat, S # {}
  PROVE  Min(S) \in S /\ \A y \in S : Min(S) <= y
BY LeastNumber DEF Min

\* The greatest number of a set with a bound.
LEMMA MaxIs ==
  ASSUME NEW S \in SUBSET Nat, S # {}, NEW b \in Nat, \A y \in S : y <= b
  PROVE  Max(S) \in S /\ \A y \in S : y <= Max(S)
<1> DEFINE U == {n \in Nat : \A y \in S : y <= n}
<1>1. PICK m \in U : \A n \in U : m <= n
  <2>1. b \in U /\ U \in SUBSET Nat
    OBVIOUS
  <2> HIDE DEF U
  <2> QED
    BY <2>1, LeastNumber
<1>2. m \in S
  <2> SUFFICES ASSUME m \notin S PROVE FALSE
    OBVIOUS
  <2>1. PICK y \in S : TRUE
    OBVIOUS
  <2>2. m - 1 \in Nat /\ \A z \in S : z <= m - 1
    BY <1>1, <2>1
  <2> QED
    BY <1>1, <2>2
<1>3. \A y \in S : y <= m
  BY <1>1
<1> QED
  BY <1>2, <1>3 DEF Max

\* A number of the set that none exceeds is the greatest.
LEMMA MaxOfIt ==
  ASSUME NEW S \in SUBSET Nat, NEW m \in S, \A y \in S : y <= m
  PROVE  Max(S) = m
<1>1. \A x \in S : (\A y \in S : x >= y) <=> x = m
  OBVIOUS
<1> QED
  BY <1>1 DEF Max

\* A number of the set that none is below is the least.
LEMMA MinOfIt ==
  ASSUME NEW S \in SUBSET Nat, NEW m \in S, \A y \in S : m <= y
  PROVE  Min(S) = m
<1>1. \A x \in S : (\A y \in S : x <= y) <=> x = m
  OBVIOUS
<1> QED
  BY <1>1 DEF Min

\* The characters of t from a up to but not b.
AllIn(t, a, b, C) == \A j \in a .. b - 1 : t[j] \in C

\* scan_while(): all characters before the end are of the class, and the one there is not.
LEMMA RunEndIs ==
  ASSUME NEW t \in Seq(Chars), NEW p \in 1 .. Len(t) + 1, NEW C
  PROVE  /\ RunEnd(t, p, C) \in p .. Len(t) + 1
         /\ AllIn(t, p, RunEnd(t, p, C), C)
         /\ ~IsAt(t, RunEnd(t, p, C), C)
<1> DEFINE S == {q \in p .. Len(t) + 1 : ~IsAt(t, q, C)}
<1>1. Len(t) + 1 \in S /\ S \in SUBSET Nat
  BY DEF IsAt
<1>2. PICK q \in S : \A r \in S : q <= r
  <2> HIDE DEF S
  <2> QED
    BY <1>1, LeastNumber
<1>3. \A i \in p .. q - 1 : t[i] \in C
  <2> SUFFICES ASSUME NEW i \in p .. q - 1 PROVE t[i] \in C
    OBVIOUS
  <2>1. i \in p .. Len(t) + 1 /\ i < q
    BY <1>2
  <2>2. IsAt(t, i, C)
    BY <1>2, <2>1
  <2> QED
    BY <2>2 DEF IsAt
<1>4. \E r \in p .. Len(t) + 1 : (\A i \in p .. r - 1 : t[i] \in C) /\ ~IsAt(t, r, C)
  BY <1>2, <1>3
<1> HIDE DEF S
<1> QED
  BY <1>4 DEF RunEnd, AllIn

\* A run that starts at p ends where RunEnd says, or before.
LEMMA RunsEndThere ==
  ASSUME NEW t \in Seq(Chars), NEW p \in 1 .. Len(t) + 1, NEW C,
         NEW q \in p .. Len(t) + 1, AllIn(t, p, q, C)
  PROVE  q <= RunEnd(t, p, C)
<1> DEFINE e == RunEnd(t, p, C)
<1>1. e \in p .. Len(t) + 1 /\ ~IsAt(t, e, C)
  BY RunEndIs
<1> HIDE DEF e
<1>2. e \in p .. q - 1 => IsAt(t, e, C)
  BY <1>1 DEF AllIn, IsAt
<1> QED
  BY <1>1, <1>2 DEF e

Tries(t, p) ==
  <<ContractionEnds(t, p), LetterEnds(t, p), NumberEnds(t, p), OtherEnds(t, p),
    LineEnds(t, p), TrailingEnds(t, p), {p + 1}>>

\* No pattern takes less than a character or more than the text.
LEMMA TriesInText ==
  ASSUME NEW t \in Seq(Chars), NEW p \in 1 .. Len(t)
  PROVE  \A k \in 1 .. 7 : Tries(t, p)[k] \subseteq p + 1 .. Len(t) + 1
<1>0. p \in 1 .. Len(t) + 1 /\ p + 1 \in 1 .. Len(t) + 1 /\ Len(t) \in Nat
  OBVIOUS
<1>1. ContractionEnds(t, p) \subseteq p + 1 .. Len(t) + 1
  BY ClassesAssumption DEF ContractionEnds, StartsAt
<1>2. LetterEnds(t, p) \subseteq p + 1 .. Len(t) + 1
  <2>1. CASE t[p] \in Letters
    <3>1. RunEnd(t, p, Letters) \in p .. Len(t) + 1 /\ ~IsAt(t, RunEnd(t, p, Letters), Letters)
      BY <1>0, RunEndIs
    <3>2. RunEnd(t, p, Letters) # p
      BY <2>1, <3>1 DEF IsAt
    <3> QED
      BY <2>1, <3>1, <3>2 DEF LetterEnds
  <2>2. CASE t[p] \notin Letters
    <3>1. RunEnd(t, p + 1, Letters) \in p + 1 .. Len(t) + 1
      BY <1>0, RunEndIs
    <3> QED
      BY <2>2, <3>1 DEF LetterEnds
  <2> QED
    BY <2>1, <2>2
<1>3. NumberEnds(t, p) \subseteq p + 1 .. Len(t) + 1
  <2> SUFFICES ASSUME t[p] \in Numbers
               PROVE  Min({p + 3, RunEnd(t, p, Numbers)}) \in p + 1 .. Len(t) + 1
    BY DEF NumberEnds
  <2>1. RunEnd(t, p, Numbers) \in p .. Len(t) + 1 /\ ~IsAt(t, RunEnd(t, p, Numbers), Numbers)
    BY <1>0, RunEndIs
  <2>2. RunEnd(t, p, Numbers) # p
    BY <2>1 DEF IsAt
  <2> DEFINE S == {p + 3, RunEnd(t, p, Numbers)}
  <2>3. S \in SUBSET Nat /\ S # {}
    BY <2>1
  <2>4. Min(S) \in S /\ \A y \in S : Min(S) <= y
    <3> HIDE DEF S
    <3> QED
      BY <2>3, MinIs
  <2> QED
    BY <2>1, <2>2, <2>4
<1>4. OtherEnds(t, p) \subseteq p + 1 .. Len(t) + 1
  <2> DEFINE q == IF t[p] = Space THEN p + 1 ELSE p
             e == RunEnd(t, q, Others)
             d == RunEnd(t, e, Newlines)
  <2>1. q \in 1 .. Len(t) + 1 /\ q >= p
    BY <1>0
  <2> SUFFICES ASSUME IsAt(t, q, Others)
               PROVE  d \in p + 1 .. Len(t) + 1
    BY DEF OtherEnds
  <2> HIDE DEF q
  <2>2. e \in q .. Len(t) + 1 /\ ~IsAt(t, e, Others)
    BY <2>1, RunEndIs
  <2>3. e # q
    BY <2>2
  <2> HIDE DEF e
  <2>4. e \in 1 .. Len(t) + 1 /\ e >= p + 1
    BY <2>1, <2>2, <2>3
  <2>5. d \in e .. Len(t) + 1
    BY <2>4, RunEndIs
  <2> QED
    BY <2>4, <2>5
<1>5. LineEnds(t, p) \subseteq p + 1 .. Len(t) + 1 /\ TrailingEnds(t, p) \subseteq p + 1 .. Len(t) + 1
  <2> DEFINE q == RunEnd(t, p, Blanks)
             e == RunEnd(t, q, Newlines)
  <2>1. q \in p .. Len(t) + 1 /\ ~IsAt(t, q, Blanks)
    BY <1>0, RunEndIs
  <2>2. t[p] \in Blanks => q # p
    BY <2>1 DEF IsAt
  <2>3. LineEnds(t, p) = IF t[p] \in Blanks /\ IsAt(t, q, Newlines) THEN {e} ELSE {}
    BY DEF LineEnds
  <2>4. TrailingEnds(t, p) = IF t[p] \in Blanks /\ (q > Len(t) \/ IsAt(t, q, Newlines)) THEN {q} ELSE {}
    BY DEF TrailingEnds
  <2> HIDE DEF q
  <2>5. q \in 1 .. Len(t) + 1
    BY <2>1
  <2>6. e \in q .. Len(t) + 1
    BY <2>5, RunEndIs
  <2> HIDE DEF e
  <2> QED
    BY <2>1, <2>2, <2>3, <2>4, <2>5, <2>6
<1>6. p + 1 \in p + 1 .. Len(t) + 1
  OBVIOUS
<1>7. ASSUME NEW k \in 1 .. 7
      PROVE  Tries(t, p)[k] \subseteq p + 1 .. Len(t) + 1
  <2>1. k = 1 \/ k = 2 \/ k = 3 \/ k = 4 \/ k = 5 \/ k = 6 \/ k = 7
    OBVIOUS
  <2> QED
    BY <1>1, <1>2, <1>3, <1>4, <1>5, <1>6, <2>1 DEF Tries
<1> QED
  BY <1>7

\* The first pattern that matches gives the end.
LEMMA FirstTry ==
  ASSUME NEW t, NEW p, NEW k \in 1 .. 7, Tries(t, p)[k] # {},
         \A j \in 1 .. 7 : j < k => Tries(t, p)[j] = {}
  PROVE  Llama3End(t, p) = Max(Tries(t, p)[k])
<1> DEFINE S == {i \in DOMAIN Tries(t, p) : Tries(t, p)[i] # {}}
<1>1. DOMAIN Tries(t, p) = 1 .. 7
  BY DEF Tries
<1>2. k \in S /\ \A j \in S : k <= j
  BY <1>1
<1>3. S \in SUBSET Nat
  BY <1>1
<1>4. Llama3End(t, p) = Max(Tries(t, p)[Min(S)])
  BY DEF Llama3End, Tries
<1> HIDE DEF S
<1>5. Min(S) = k
  BY <1>2, <1>3, MinOfIt
<1> QED
  BY <1>4, <1>5

\* A chunk of the cl100k_base pre-tokenizer has a character and ends in the text.
LEMMA Llama3EndInText ==
  ASSUME NEW t \in Seq(Chars), NEW p \in 1 .. Len(t)
  PROVE  Llama3End(t, p) \in p + 1 .. Len(t) + 1
<1> DEFINE S == {i \in 1 .. 7 : Tries(t, p)[i] # {}}
<1>1. 7 \in S
  <2>1. Tries(t, p)[7] = {p + 1}
    BY DEF Tries
  <2>2. p + 1 \in Tries(t, p)[7]
    BY <2>1
  <2>3. Tries(t, p)[7] # {} /\ 7 \in 1 .. 7
    BY <2>2
  <2> QED
    BY <2>3
<1>2. PICK k \in S : \A j \in S : k <= j
  <2>1. S \in SUBSET Nat
    OBVIOUS
  <2> HIDE DEF S
  <2> QED
    BY <1>1, <2>1, LeastNumber
<1>3. Llama3End(t, p) = Max(Tries(t, p)[k])
  <2>1. \A j \in 1 .. 7 : j < k => Tries(t, p)[j] = {}
    BY <1>2
  <2> QED
    BY <1>2, <2>1, FirstTry
<1>4. Tries(t, p)[k] \subseteq p + 1 .. Len(t) + 1 /\ Tries(t, p)[k] # {}
  BY <1>2, TriesInText
<1> DEFINE E == Tries(t, p)[k]
<1>5. E \in SUBSET Nat /\ Len(t) + 1 \in Nat /\ \A y \in E : y <= Len(t) + 1
  BY <1>4
<1> HIDE DEF S, E
<1>6. Max(E) \in E
  BY <1>4, <1>5, MaxIs DEF E
<1> QED
  BY <1>3, <1>4, <1>6 DEF E

\* So does one of the other pre-tokenizer.
LEMMA SpmEndInText ==
  ASSUME NEW t \in Seq(Chars), NEW p \in 1 .. Len(t)
  PROVE  SpmEnd(t, p) \in p + 1 .. Len(t) + 1
<1> DEFINE C == IF t[p] \in Others THEN Others ELSE Letters \cup Numbers \cup Blanks
<1>1. t[p] \in C
  BY DEF Chars
<1>2. SpmEnd(t, p) = RunEnd(t, p, C)
  BY DEF SpmEnd
<1> HIDE DEF C
<1>3. RunEnd(t, p, C) \in p .. Len(t) + 1 /\ ~IsAt(t, RunEnd(t, p, C), C)
  BY RunEndIs
<1> QED
  BY <1>1, <1>2, <1>3 DEF IsAt

\* The scan moves on, and not past the end of the segment.
LEMMA ChunkEndInText ==
  ASSUME NEW t \in Seq(Chars), NEW p \in 1 .. Len(t)
  PROVE  ChunkEnd(t, p) \in p + 1 .. Len(t) + 1
BY Llama3EndInText, SpmEndInText DEF ChunkEnd

-----------------------------------------------------------------------------
(***************************************************************************)
(* The expression.                                                         *)
(***************************************************************************)
\* A match from p up to but not q, and what is behind its first character.
LEMMA Match ==
  ASSUME NEW t \in Seq(Chars), NEW p \in 1 .. Len(t), NEW q \in p + 1 .. Len(t) + 1
  PROVE  LET u == SubSeq(t, p, q - 1)
         IN  /\ u \in Seq(Chars) /\ Len(u) = q - p /\ u[1] = t[p] /\ u # <<>>
             /\ \A i \in 1 .. Len(u) : u[i] = t[p + i - 1]
             /\ Tail(u) \in Seq(Chars) /\ Len(Tail(u)) = q - p - 1 /\ Tail(u) # u
             /\ Tail(u) = SubSeq(t, p + 1, q - 1)
             /\ \A i \in 1 .. Len(Tail(u)) : Tail(u)[i] = t[p + i]
<1> DEFINE u == SubSeq(t, p, q - 1)
<1>1. /\ u \in Seq(Chars) /\ Len(u) = q - p
      /\ \A i \in 1 .. Len(u) : u[i] = t[p + i - 1]
  OBVIOUS
<1>2. u # <<>> /\ u[1] = t[p]
  <2> HIDE DEF u
  <2> QED
    BY <1>1
<1>3. Len(Tail(u)) = Len(u) - 1 /\ \A i \in 1 .. Len(Tail(u)) : Tail(u)[i] = u[i + 1]
  <2> HIDE DEF u
  <2> QED
    BY <1>1, <1>2
<1>4. Tail(u) = SubSeq(t, p + 1, q - 1)
  <2>1. Tail(u) \in Seq(Chars)
    <3> HIDE DEF u
    <3> QED
      BY <1>1, <1>2
  <2>2. SubSeq(t, p + 1, q - 1) \in Seq(Chars) /\ Len(SubSeq(t, p + 1, q - 1)) = q - p - 1
    OBVIOUS
  <2>3. \A i \in 1 .. q - p - 1 : SubSeq(t, p + 1, q - 1)[i] = t[p + i]
    OBVIOUS
  <2>4. \A i \in 1 .. q - p - 1 : Tail(u)[i] = t[p + i]
    <3> HIDE DEF u
    <3> QED
      BY <1>1, <1>3
  <2> DEFINE v == Tail(u)
             w == SubSeq(t, p + 1, q - 1)
  <2>5. v \in Seq(Chars) /\ w \in Seq(Chars) /\ Len(v) = Len(w) /\ \A i \in 1 .. Len(v) : v[i] = w[i]
    <3> HIDE DEF u
    <3> QED
      BY <1>1, <1>3, <2>1, <2>2, <2>3, <2>4
  <2> HIDE DEF v, w
  <2>6. v = w
    BY <2>5
  <2> QED
    BY <2>6 DEF v, w
<1>5. Tail(u) # u /\ \A i \in 1 .. Len(Tail(u)) : Tail(u)[i] = t[p + i]
  <2> HIDE DEF u
  <2> QED
    BY <1>1, <1>3
<1> HIDE DEF u
<1>6. Len(Tail(u)) = q - p - 1 /\ Tail(u) \in Seq(Chars)
  BY <1>1, <1>2, <1>3
<1> QED
  BY <1>1, <1>2, <1>4, <1>5, <1>6 DEF u

\* A class that holds of a match, character by character.
LEMMA AllOfMatch ==
  ASSUME NEW t \in Seq(Chars), NEW p \in 1 .. Len(t), NEW q \in p + 1 .. Len(t) + 1, NEW C
  PROVE  LET u == SubSeq(t, p, q - 1)
         IN  (All(u, C) <=> AllIn(t, p, q, C)) /\ (All(Tail(u), C) <=> AllIn(t, p + 1, q, C))
<1> DEFINE u == SubSeq(t, p, q - 1)
           v == Tail(u)
<1>0. /\ u \in Seq(Chars) /\ Len(u) = q - p /\ \A i \in 1 .. Len(u) : u[i] = t[p + i - 1]
      /\ v \in Seq(Chars) /\ Len(v) = q - p - 1 /\ \A i \in 1 .. Len(v) : v[i] = t[p + i]
  BY Match
<1> HIDE DEF u, v
<1>1. /\ u \in Seq(Chars) /\ Len(u) = q - p /\ \A i \in 1 .. q - p : u[i] = t[p + i - 1]
      /\ v \in Seq(Chars) /\ Len(v) = q - p - 1 /\ \A i \in 1 .. q - p - 1 : v[i] = t[p + i]
  BY <1>0
<1>2. DOMAIN u = 1 .. q - p /\ DOMAIN v = 1 .. q - p - 1
  BY <1>1
<1>3. All(u, C) <=> AllIn(t, p, q, C)
  <2>1. ASSUME All(u, C), NEW j \in p .. q - 1
        PROVE  t[j] \in C
    <3>1. j - p + 1 \in 1 .. q - p /\ p + (j - p + 1) - 1 = j
      OBVIOUS
    <3> QED
      BY <1>1, <1>2, <2>1, <3>1 DEF All
  <2>2. ASSUME AllIn(t, p, q, C), NEW i \in 1 .. q - p
        PROVE  u[i] \in C
    <3>1. p + i - 1 \in p .. q - 1
      OBVIOUS
    <3> QED
      BY <1>1, <2>2, <3>1 DEF AllIn
  <2> QED
    BY <1>2, <2>1, <2>2 DEF All, AllIn
<1>4. All(v, C) <=> AllIn(t, p + 1, q, C)
  <2>1. ASSUME All(v, C), NEW j \in p + 1 .. q - 1
        PROVE  t[j] \in C
    <3>1. j - p \in 1 .. q - p - 1 /\ p + (j - p) = j
      OBVIOUS
    <3> QED
      BY <1>1, <1>2, <2>1, <3>1 DEF All
  <2>2. ASSUME AllIn(t, p + 1, q, C), NEW i \in 1 .. q - p - 1
        PROVE  v[i] \in C
    <3>1. p + i \in p + 1 .. q - 1
      OBVIOUS
    <3> QED
      BY <1>1, <2>2, <3>1 DEF AllIn
  <2> QED
    BY <1>2, <2>1, <2>2 DEF All, AllIn
<1> QED
  BY <1>3, <1>4 DEF u, v

\* The first alternative that matches gives the end.
LEMMA FirstAlternative ==
  ASSUME NEW t, NEW p, NEW k \in 1 .. 7, MatchEnds(t, p, k) # {},
         \A j \in 1 .. 7 : j < k => MatchEnds(t, p, j) = {}
  PROVE  RegexEnd(t, p) = Max(MatchEnds(t, p, k))
<1> DEFINE S == {i \in 1 .. 7 : MatchEnds(t, p, i) # {}}
<1>1. k \in S /\ (\A j \in S : k <= j) /\ S \in SUBSET Nat
  OBVIOUS
<1>2. RegexEnd(t, p) = Max(MatchEnds(t, p, Min(S)))
  BY DEF RegexEnd
<1> HIDE DEF S
<1>3. Min(S) = k
  BY <1>1, MinOfIt
<1> QED
  BY <1>2, <1>3

\* Alternative 1.
LEMMA Contracted ==
  ASSUME NEW t \in Seq(Chars), NEW p \in 1 .. Len(t)
  PROVE  MatchEnds(t, p, 1) = ContractionEnds(t, p)
<1>1. ASSUME NEW q \in MatchEnds(t, p, 1)
      PROVE  q \in ContractionEnds(t, p)
  <2> DEFINE u == SubSeq(t, p, q - 1)
             d == Tail(u)
  <2>1. q \in p + 1 .. Len(t) + 1 /\ u[1] = Apostrophe /\ d \in Contractions
    BY DEF MatchEnds, Alternatives
  <2>2. u[1] = t[p] /\ d = SubSeq(t, p + 1, q - 1) /\ Len(d) = q - p - 1
    BY <2>1, Match
  <2> HIDE DEF u, d
  <2>3. p + 1 + Len(d) - 1 = q - 1 /\ p + 1 + Len(d) = q
    BY <2>1, <2>2
  <2>4. StartsAt(d, p + 1, t)
    BY <2>1, <2>2, <2>3 DEF StartsAt
  <2> QED
    BY <2>1, <2>2, <2>3, <2>4 DEF ContractionEnds
<1>2. ASSUME NEW q \in ContractionEnds(t, p)
      PROVE  q \in MatchEnds(t, p, 1)
  <2>1. PICK d \in Contractions : t[p] = Apostrophe /\ StartsAt(d, p + 1, t) /\ q = p + 1 + Len(d)
    BY DEF ContractionEnds
  <2>2. Len(d) \in Nat
    BY ClassesAssumption
  <2>3. q \in p + 1 .. Len(t) + 1 /\ d = SubSeq(t, p + 1, q - 1)
    BY <2>1, <2>2 DEF StartsAt
  <2> DEFINE u == SubSeq(t, p, q - 1)
  <2>4. u[1] = t[p] /\ Tail(u) = SubSeq(t, p + 1, q - 1)
    BY <2>3, Match
  <2> HIDE DEF u
  <2>5. u[1] = Apostrophe /\ Tail(u) \in Contractions
    BY <2>1, <2>3, <2>4
  <2> QED
    BY <2>3, <2>5 DEF MatchEnds, Alternatives, u
<1> QED
  BY <1>1, <1>2

\* Alternative 2.
LEMMA Lettered ==
  ASSUME NEW t \in Seq(Chars), NEW p \in 1 .. Len(t), NEW q
  PROVE  q \in MatchEnds(t, p, 2) <=>
           /\ q \in p + 1 .. Len(t) + 1
           /\ \/ AllIn(t, p, q, Letters)
              \/ /\ q > p + 1 /\ AllIn(t, p + 1, q, Letters)
                 /\ t[p] \notin Newlines \cup Letters \cup Numbers
<1> SUFFICES ASSUME q \in p + 1 .. Len(t) + 1
             PROVE  q \in MatchEnds(t, p, 2) <=>
                      \/ AllIn(t, p, q, Letters)
                      \/ /\ q > p + 1 /\ AllIn(t, p + 1, q, Letters)
                         /\ t[p] \notin Newlines \cup Letters \cup Numbers
  BY DEF MatchEnds
<1> DEFINE u == SubSeq(t, p, q - 1)
<1>1. /\ u \in Seq(Chars) /\ u # <<>> /\ u[1] = t[p]
      /\ Tail(u) # u /\ Len(Tail(u)) = q - p - 1 /\ Tail(u) \in Seq(Chars)
  BY Match
<1>2. (All(u, Letters) <=> AllIn(t, p, q, Letters))
      /\ (All(Tail(u), Letters) <=> AllIn(t, p + 1, q, Letters))
  BY AllOfMatch
<1>3. q \in MatchEnds(t, p, 2) <=>
        \E w \in {u, Tail(u)} :
          w # <<>> /\ All(w, Letters) /\ (w # u => u[1] \notin Newlines \cup Letters \cup Numbers)
  BY DEF MatchEnds, Alternatives
<1> HIDE DEF u
<1>4. Tail(u) # <<>> <=> q > p + 1
  <2> DEFINE v == Tail(u)
  <2>1. v \in Seq(Chars) /\ Len(v) = q - p - 1
    BY <1>1
  <2> HIDE DEF v
  <2>2. v # <<>> <=> q > p + 1
    BY <2>1
  <2> QED
    BY <2>2 DEF v
<1> QED
  BY <1>1, <1>2, <1>3, <1>4

\* Alternative 3.
LEMMA Numbered ==
  ASSUME NEW t \in Seq(Chars), NEW p \in 1 .. Len(t), NEW q
  PROVE  q \in MatchEnds(t, p, 3) <=>
           q \in p + 1 .. Len(t) + 1 /\ AllIn(t, p, q, Numbers) /\ q <= p + 3
<1> SUFFICES ASSUME q \in p + 1 .. Len(t) + 1
             PROVE  q \in MatchEnds(t, p, 3) <=> AllIn(t, p, q, Numbers) /\ q <= p + 3
  BY DEF MatchEnds
<1> DEFINE u == SubSeq(t, p, q - 1)
<1>1. Len(u) = q - p /\ (All(u, Numbers) <=> AllIn(t, p, q, Numbers))
  BY Match, AllOfMatch
<1>2. q \in MatchEnds(t, p, 3) <=> All(u, Numbers) /\ Len(u) <= 3
  BY DEF MatchEnds, Alternatives
<1> HIDE DEF u
<1> QED
  BY <1>1, <1>2

\* Alternatives 5 to 7.
LEMMA Blanked ==
  ASSUME NEW t \in Seq(Chars), NEW p \in 1 .. Len(t), NEW q
  PROVE  /\ q \in MatchEnds(t, p, 5) => q \in p + 1 .. Len(t) + 1 /\ AllIn(t, p, q, Blanks)
         /\ q \in MatchEnds(t, p, 6) => q \in p + 1 .. Len(t) + 1 /\ AllIn(t, p, q, Blanks)
         /\ q \in MatchEnds(t, p, 7) <=> q \in p + 1 .. Len(t) + 1 /\ AllIn(t, p, q, Blanks)
<1> SUFFICES ASSUME q \in p + 1 .. Len(t) + 1
             PROVE  /\ q \in MatchEnds(t, p, 5) => AllIn(t, p, q, Blanks)
                    /\ q \in MatchEnds(t, p, 6) => AllIn(t, p, q, Blanks)
                    /\ q \in MatchEnds(t, p, 7) <=> AllIn(t, p, q, Blanks)
  BY DEF MatchEnds
<1> DEFINE u == SubSeq(t, p, q - 1)
<1>1. All(u, Blanks) <=> AllIn(t, p, q, Blanks)
  BY AllOfMatch
<1>2. /\ q \in MatchEnds(t, p, 5) => All(u, Blanks)
      /\ q \in MatchEnds(t, p, 6) => All(u, Blanks)
      /\ q \in MatchEnds(t, p, 7) <=> All(u, Blanks)
  BY DEF MatchEnds, Alternatives
<1> HIDE DEF u
<1> QED
  BY <1>1, <1>2

\* The two parts of a sequence that stands in t from a to q.
LEMMA PartsOfMatch ==
  ASSUME NEW t \in Seq(Chars), NEW a \in 1 .. Len(t) + 1, NEW q \in a .. Len(t) + 1,
         NEW w \in Seq(Chars), Len(w) = q - a, \A i \in 1 .. Len(w) : w[i] = t[a + i - 1],
         NEW n \in 1 .. Len(w), NEW C, NEW D
  PROVE  /\ All(SubSeq(w, 1, n), C) <=> AllIn(t, a, a + n, C)
         /\ All(SubSeq(w, n + 1, Len(w)), D) <=> AllIn(t, a + n, q, D)
<1> DEFINE u == SubSeq(w, 1, n)
           v == SubSeq(w, n + 1, Len(w))
<1>1. DOMAIN u = 1 .. n /\ \A i \in 1 .. n : u[i] = w[i]
  OBVIOUS
<1>2. DOMAIN v = 1 .. Len(w) - n /\ \A i \in 1 .. Len(w) - n : v[i] = w[n + i]
  OBVIOUS
<1> HIDE DEF u, v
<1>3. \A i \in 1 .. n : u[i] = t[a + i - 1]
  BY <1>1
<1>4. ASSUME NEW i \in 1 .. Len(w) - n
      PROVE  v[i] = t[a + n + i - 1]
  <2>1. n + i \in 1 .. Len(w) /\ a + (n + i) - 1 = a + n + i - 1
    OBVIOUS
  <2> QED
    BY <1>2, <2>1
<1>5. All(u, C) <=> AllIn(t, a, a + n, C)
  <2>1. ASSUME All(u, C), NEW j \in a .. a + n - 1
        PROVE  t[j] \in C
    <3>1. j - a + 1 \in 1 .. n /\ a + (j - a + 1) - 1 = j
      OBVIOUS
    <3> QED
      BY <1>1, <1>3, <2>1, <3>1 DEF All
  <2>2. ASSUME AllIn(t, a, a + n, C), NEW i \in 1 .. n
        PROVE  u[i] \in C
    <3>1. a + i - 1 \in a .. a + n - 1
      OBVIOUS
    <3> QED
      BY <1>3, <2>2, <3>1 DEF AllIn
  <2> QED
    BY <1>1, <2>1, <2>2 DEF All, AllIn
<1>6. All(v, D) <=> AllIn(t, a + n, q, D)
  <2>1. ASSUME All(v, D), NEW j \in a + n .. q - 1
        PROVE  t[j] \in D
    <3>1. j - a - n + 1 \in 1 .. Len(w) - n /\ a + n + (j - a - n + 1) - 1 = j
      OBVIOUS
    <3> QED
      BY <1>2, <1>4, <2>1, <3>1 DEF All
  <2>2. ASSUME AllIn(t, a + n, q, D), NEW i \in 1 .. Len(w) - n
        PROVE  v[i] \in D
    <3>1. a + n + i - 1 \in a + n .. q - 1
      OBVIOUS
    <3> QED
      BY <1>4, <2>2, <3>1 DEF AllIn
  <2> QED
    BY <1>2, <2>1, <2>2 DEF All, AllIn
<1> QED
  BY <1>5, <1>6 DEF u, v

OthersThenLines(t, a, q) ==
  \E m \in a + 1 .. q : AllIn(t, a, m, Others) /\ AllIn(t, m, q, Newlines)

\* Alternative 4.
LEMMA Othered ==
  ASSUME NEW t \in Seq(Chars), NEW p \in 1 .. Len(t), NEW q
  PROVE  q \in MatchEnds(t, p, 4) <=>
           /\ q \in p + 1 .. Len(t) + 1
           /\ OthersThenLines(t, p, q) \/ (t[p] = Space /\ OthersThenLines(t, p + 1, q))
<1> SUFFICES ASSUME q \in p + 1 .. Len(t) + 1
             PROVE  q \in MatchEnds(t, p, 4) <=>
                      OthersThenLines(t, p, q) \/ (t[p] = Space /\ OthersThenLines(t, p + 1, q))
  BY DEF MatchEnds
<1> DEFINE u == SubSeq(t, p, q - 1)
           v == Tail(u)
           Parts(w) == \E n \in 1 .. Len(w) :
                         All(SubSeq(w, 1, n), Others) /\ All(SubSeq(w, n + 1, Len(w)), Newlines)
<1>1. /\ u \in Seq(Chars) /\ Len(u) = q - p /\ u[1] = t[p] /\ v # u
      /\ v \in Seq(Chars) /\ Len(v) = q - p - 1
      /\ \A i \in 1 .. Len(u) : u[i] = t[p + i - 1]
      /\ \A i \in 1 .. Len(v) : v[i] = t[p + i]
  BY Match
<1>2. q \in MatchEnds(t, p, 4) <=>
        \E w \in {u, v} : \E n \in 1 .. Len(w) :
          /\ w # u => u[1] = Space
          /\ All(SubSeq(w, 1, n), Others) /\ All(SubSeq(w, n + 1, Len(w)), Newlines)
  BY DEF MatchEnds, Alternatives
<1> HIDE DEF u, v
<1>3. q \in MatchEnds(t, p, 4) <=> Parts(u) \/ (t[p] = Space /\ Parts(v))
  BY <1>1, <1>2
<1>4. ASSUME NEW a \in 1 .. Len(t) + 1, q \in a .. Len(t) + 1,
             NEW w \in Seq(Chars), Len(w) = q - a, \A i \in 1 .. Len(w) : w[i] = t[a + i - 1]
      PROVE  Parts(w) <=> OthersThenLines(t, a, q)
  <2>1. ASSUME Parts(w)
        PROVE  OthersThenLines(t, a, q)
    <3>1. PICK n \in 1 .. Len(w) :
            All(SubSeq(w, 1, n), Others) /\ All(SubSeq(w, n + 1, Len(w)), Newlines)
      BY <2>1
    <3>2. AllIn(t, a, a + n, Others) /\ AllIn(t, a + n, q, Newlines)
      BY <1>4, <3>1, PartsOfMatch
    <3>3. a + n \in a + 1 .. q
      BY <1>4
    <3> QED
      BY <3>2, <3>3 DEF OthersThenLines
  <2>2. ASSUME OthersThenLines(t, a, q)
        PROVE  Parts(w)
    <3>1. PICK m \in a + 1 .. q : AllIn(t, a, m, Others) /\ AllIn(t, m, q, Newlines)
      BY <2>2 DEF OthersThenLines
    <3> DEFINE n == m - a
    <3>2. n \in 1 .. Len(w) /\ a + n = m
      BY <1>4
    <3> HIDE DEF n
    <3>3. AllIn(t, a, a + n, Others) /\ AllIn(t, a + n, q, Newlines)
      BY <3>1, <3>2
    <3>4. All(SubSeq(w, 1, n), Others) /\ All(SubSeq(w, n + 1, Len(w)), Newlines)
      BY <1>4, <3>2, <3>3, PartsOfMatch
    <3> QED
      BY <3>2, <3>4
  <2> QED
    BY <2>1, <2>2
<1> HIDE DEF Parts
<1>5. Parts(u) <=> OthersThenLines(t, p, q)
  <2>1. p \in 1 .. Len(t) + 1 /\ q \in p .. Len(t) + 1
    OBVIOUS
  <2> QED
    BY <1>1, <1>4, <2>1
<1>6. Parts(v) <=> OthersThenLines(t, p + 1, q)
  <2>1. p + 1 \in 1 .. Len(t) + 1 /\ q \in p + 1 .. Len(t) + 1 /\ Len(v) = q - (p + 1)
    BY <1>1
  <2>2. \A i \in 1 .. Len(v) : v[i] = t[(p + 1) + i - 1]
    <3>1. \A i \in 1 .. Len(v) : (p + 1) + i - 1 = p + i
      BY <1>1
    <3> QED
      BY <1>1, <3>1
  <2> QED
    BY <1>1, <1>4, <2>1, <2>2
<1> QED
  BY <1>3, <1>5, <1>6

-----------------------------------------------------------------------------
(***************************************************************************)
(* Patterns and alternatives agree.                                        *)
(***************************************************************************)
Agree(t, p, k) ==
  /\ Tries(t, p)[k] = {} <=> MatchEnds(t, p, k) = {}
  /\ Tries(t, p)[k] # {} => Max(Tries(t, p)[k]) = Max(MatchEnds(t, p, k))

\* They do if what the pattern takes is the longest match.
LEMMA LongestMatch ==
  ASSUME NEW t \in Seq(Chars), NEW p \in 1 .. Len(t), NEW k \in 1 .. 7, NEW e,
         Tries(t, p)[k] = {e}, e \in MatchEnds(t, p, k), \A y \in MatchEnds(t, p, k) : y <= e
  PROVE  Agree(t, p, k)
<1>1. MatchEnds(t, p, k) \in SUBSET Nat
  BY DEF MatchEnds
<1>2. e \in Nat /\ {e} \in SUBSET Nat
  BY <1>1
<1>3. Max({e}) = e
  BY <1>2, MaxOfIt
<1>4. Max(MatchEnds(t, p, k)) = e
  BY <1>1, MaxOfIt
<1> QED
  BY <1>3, <1>4 DEF Agree

\* Pattern 2 and the alternative for letters.
LEMMA LettersAgree ==
  ASSUME NEW t \in Seq(Chars), NEW p \in 1 .. Len(t)
  PROVE  Agree(t, p, 2)
<1> DEFINE a == IF t[p] \in Letters THEN p ELSE p + 1
           e == RunEnd(t, a, Letters)
<1>1. Tries(t, p)[2] = IF t[p] \notin Newlines \cup Numbers /\ IsAt(t, a, Letters) THEN {e} ELSE {}
  BY DEF Tries, LetterEnds
<1>2. a \in 1 .. Len(t) + 1 /\ (a = p \/ a = p + 1) /\ (a = p <=> t[p] \in Letters)
  OBVIOUS
<1> HIDE DEF a
<1>3. e \in a .. Len(t) + 1 /\ AllIn(t, a, e, Letters) /\ ~IsAt(t, e, Letters)
  BY <1>2, RunEndIs
<1>4. \A q \in a .. Len(t) + 1 : AllIn(t, a, q, Letters) => q <= e
  BY <1>2, RunsEndThere
<1> HIDE DEF e
<1>5. Letters \cap (Newlines \cup Numbers) = {}
  BY ClassesAssumption DEF Blanks
<1>6. CASE t[p] \notin Newlines \cup Numbers /\ IsAt(t, a, Letters)
  <2>1. e # a
    BY <1>3, <1>6
  <2>2. e \in MatchEnds(t, p, 2)
    <3>1. CASE a = p
      BY <1>2, <1>3, <2>1, <3>1, Lettered
    <3>2. CASE a # p
      <4>1. a = p + 1 /\ t[p] \notin Letters /\ e > p + 1 /\ e \in p + 1 .. Len(t) + 1
        BY <1>2, <1>3, <2>1, <3>2
      <4> QED
        BY <1>3, <1>6, <4>1, Lettered
    <3> QED
      BY <3>1, <3>2
  <2>3. ASSUME NEW y \in MatchEnds(t, p, 2)
        PROVE  y <= e
    <3>1. CASE AllIn(t, p, y, Letters)
      <4>1. y \in p + 1 .. Len(t) + 1
        BY Lettered
      <4>2. t[p] \in Letters
        BY <3>1, <4>1 DEF AllIn
      <4> QED
        BY <1>2, <1>4, <3>1, <4>1, <4>2
    <3>2. CASE ~AllIn(t, p, y, Letters)
      <4>1. y \in p + 1 .. Len(t) + 1 /\ AllIn(t, p + 1, y, Letters) /\ t[p] \notin Letters
        BY <3>2, Lettered
      <4>2. a = p + 1
        BY <1>2, <4>1
      <4> QED
        BY <1>4, <4>1, <4>2
    <3> QED
      BY <3>1, <3>2
  <2> QED
    BY <1>1, <1>6, <2>2, <2>3, LongestMatch
<1>7. CASE ~(t[p] \notin Newlines \cup Numbers /\ IsAt(t, a, Letters))
  <2>1. ASSUME NEW y \in MatchEnds(t, p, 2)
        PROVE  FALSE
    <3>1. y \in p + 1 .. Len(t) + 1
      BY Lettered
    <3>2. CASE AllIn(t, p, y, Letters)
      <4>1. t[p] \in Letters
        BY <3>1, <3>2 DEF AllIn
      <4>2. IsAt(t, a, Letters)
        BY <1>2, <4>1 DEF IsAt
      <4> QED
        BY <1>5, <1>7, <4>1, <4>2
    <3>3. CASE ~AllIn(t, p, y, Letters)
      <4>1. /\ y > p + 1 /\ AllIn(t, p + 1, y, Letters)
            /\ t[p] \notin Newlines \cup Letters \cup Numbers
        BY <3>3, Lettered
      <4>2. t[p + 1] \in Letters /\ p + 1 <= Len(t)
        BY <3>1, <4>1 DEF AllIn
      <4>3. IsAt(t, a, Letters)
        BY <1>2, <4>1, <4>2 DEF IsAt
      <4> QED
        BY <1>7, <4>1, <4>3
    <3> QED
      BY <3>2, <3>3
  <2>2. MatchEnds(t, p, 2) = {}
    BY <2>1
  <2> QED
    BY <1>1, <1>7, <2>2 DEF Agree
<1> QED
  BY <1>6, <1>7

\* Pattern 3 and the alternative for numbers.
LEMMA NumbersAgree ==
  ASSUME NEW t \in Seq(Chars), NEW p \in 1 .. Len(t)
  PROVE  Agree(t, p, 3)
<1> DEFINE e == RunEnd(t, p, Numbers)
           m == Min({p + 3, e})
<1>1. Tries(t, p)[3] = IF t[p] \in Numbers THEN {m} ELSE {}
  BY DEF Tries, NumberEnds
<1>2. p \in 1 .. Len(t) + 1
  OBVIOUS
<1>3. e \in p .. Len(t) + 1 /\ AllIn(t, p, e, Numbers) /\ ~IsAt(t, e, Numbers)
  BY <1>2, RunEndIs
<1>4. \A q \in p .. Len(t) + 1 : AllIn(t, p, q, Numbers) => q <= e
  BY <1>2, RunsEndThere
<1> HIDE DEF e
<1>5. m \in {p + 3, e} /\ m <= p + 3 /\ m <= e
  <2>1. {p + 3, e} \in SUBSET Nat
    BY <1>3
  <2> QED
    BY <2>1, MinIs
<1> HIDE DEF m
<1>6. CASE t[p] \in Numbers
  <2>1. e # p
    BY <1>3, <1>6 DEF IsAt
  <2>2. m \in p + 1 .. Len(t) + 1 /\ m <= p + 3
    BY <1>3, <1>5, <2>1
  <2>3. AllIn(t, p, m, Numbers)
    BY <1>3, <1>5, <2>2 DEF AllIn
  <2>4. m \in MatchEnds(t, p, 3)
    BY <2>2, <2>3, Numbered
  <2>5. ASSUME NEW y \in MatchEnds(t, p, 3)
        PROVE  y <= m
    <3>1. y \in p + 1 .. Len(t) + 1 /\ AllIn(t, p, y, Numbers) /\ y <= p + 3
      BY Numbered
    <3>2. y <= e
      BY <1>4, <3>1
    <3> QED
      BY <1>5, <3>1, <3>2
  <2> QED
    BY <1>1, <1>6, <2>4, <2>5, LongestMatch
<1>7. CASE t[p] \notin Numbers
  <2>1. ASSUME NEW y \in MatchEnds(t, p, 3)
        PROVE  FALSE
    <3>1. y \in p + 1 .. Len(t) + 1 /\ AllIn(t, p, y, Numbers)
      BY Numbered
    <3> QED
      BY <1>7, <3>1 DEF AllIn
  <2>2. MatchEnds(t, p, 3) = {}
    BY <2>1
  <2> QED
    BY <1>1, <1>7, <2>2 DEF Agree
<1> QED
  BY <1>6, <1>7

\* Pattern 4 and the alternative for other characters.
LEMMA OthersAgree ==
  ASSUME NEW t \in Seq(Chars), NEW p \in 1 .. Len(t)
  PROVE  Agree(t, p, 4)
<1> DEFINE a == IF t[p] = Space THEN p + 1 ELSE p
           e == RunEnd(t, a, Others)
           d == RunEnd(t, e, Newlines)
<1>1. Tries(t, p)[4] = IF t[p] \in Others \cup {Space} /\ IsAt(t, a, Others) THEN {d} ELSE {}
  BY DEF Tries, OtherEnds
<1>2. a \in 1 .. Len(t) + 1 /\ a = (IF t[p] = Space THEN p + 1 ELSE p)
  OBVIOUS
<1> HIDE DEF a
<1>3. e \in a .. Len(t) + 1 /\ AllIn(t, a, e, Others) /\ ~IsAt(t, e, Others)
  BY <1>2, RunEndIs
<1>4. \A q \in a .. Len(t) + 1 : AllIn(t, a, q, Others) => q <= e
  BY <1>2, RunsEndThere
<1> HIDE DEF e
<1>5. e \in 1 .. Len(t) + 1
  BY <1>2, <1>3
<1>6. d \in e .. Len(t) + 1 /\ AllIn(t, e, d, Newlines)
  BY <1>5, RunEndIs
<1>7. \A q \in e .. Len(t) + 1 : AllIn(t, e, q, Newlines) => q <= d
  BY <1>5, RunsEndThere
<1> HIDE DEF d
<1>8. Others \cap Newlines = {} /\ Space \notin Others
  BY ClassesAssumption DEF Blanks
<1>9. ASSUME NEW y \in MatchEnds(t, p, 4)
      PROVE  /\ y \in p + 1 .. Len(t) + 1 /\ OthersThenLines(t, a, y)
             /\ t[p] \in Others \cup {Space}
  <2>1. /\ y \in p + 1 .. Len(t) + 1
        /\ OthersThenLines(t, p, y) \/ (t[p] = Space /\ OthersThenLines(t, p + 1, y))
    BY Othered
  <2>2. OthersThenLines(t, p, y) => t[p] \in Others
    BY <2>1 DEF OthersThenLines, AllIn
  <2> QED
    BY <1>2, <1>8, <2>1, <2>2
<1>10. CASE t[p] \in Others \cup {Space} /\ IsAt(t, a, Others)
  <2>1. e # a
    BY <1>3, <1>10
  <2>2. e \in a + 1 .. d /\ d \in p + 1 .. Len(t) + 1
    BY <1>2, <1>3, <1>6, <2>1
  <2>3. OthersThenLines(t, a, d)
    BY <1>3, <1>6, <2>2 DEF OthersThenLines
  <2>4. d \in MatchEnds(t, p, 4)
    BY <1>2, <2>2, <2>3, Othered
  <2>5. ASSUME NEW y \in MatchEnds(t, p, 4)
        PROVE  y <= d
    <3>1. y \in p + 1 .. Len(t) + 1 /\ OthersThenLines(t, a, y)
      BY <1>9
    <3>2. PICK m \in a + 1 .. y : AllIn(t, a, m, Others) /\ AllIn(t, m, y, Newlines)
      BY <3>1 DEF OthersThenLines
    <3>3. m <= e
      BY <1>2, <1>4, <3>1, <3>2
    <3>4. CASE m = e
      BY <1>3, <1>7, <3>1, <3>2, <3>4
    <3>5. CASE m # e
      <4>1. m < e /\ m \in a .. e - 1
        BY <1>2, <1>3, <3>2, <3>3, <3>5
      <4>2. t[m] \in Others
        BY <1>3, <4>1 DEF AllIn
      <4>3. m < y => t[m] \in Newlines
        BY <3>1, <3>2, <4>1 DEF AllIn
      <4>4. y = m
        BY <1>8, <3>1, <3>2, <4>2, <4>3
      <4> QED
        BY <1>3, <1>6, <4>1, <4>4
    <3> QED
      BY <3>4, <3>5
  <2> QED
    BY <1>1, <1>10, <2>4, <2>5, LongestMatch
<1>11. CASE ~(t[p] \in Others \cup {Space} /\ IsAt(t, a, Others))
  <2>1. ASSUME NEW y \in MatchEnds(t, p, 4)
        PROVE  FALSE
    <3>1. y \in p + 1 .. Len(t) + 1 /\ OthersThenLines(t, a, y) /\ t[p] \in Others \cup {Space}
      BY <1>9
    <3>2. a < y /\ t[a] \in Others /\ a <= Len(t)
      BY <1>2, <3>1 DEF OthersThenLines, AllIn
    <3>3. IsAt(t, a, Others)
      BY <3>2 DEF IsAt
    <3> QED
      BY <1>11, <3>1, <3>3
  <2>2. MatchEnds(t, p, 4) = {}
    BY <2>1
  <2> QED
    BY <1>1, <1>11, <2>2 DEF Agree
<1> QED
  BY <1>10, <1>11

\* Where not two blanks stand, the chunk is the match.
LEMMA EndsAgree ==
  ASSUME NEW t \in Seq(Chars), NEW p \in 1 .. Len(t),
         ~(\A i \in p .. p + 1 : IsAt(t, i, Blanks))
  PROVE  Llama3End(t, p) = RegexEnd(t, p)
<1>1. \A k \in 1 .. 4 : Agree(t, p, k)
  <2>1. Agree(t, p, 1)
    BY Contracted DEF Agree, Tries
  <2>2. \A k \in 1 .. 4 : k = 1 \/ k = 2 \/ k = 3 \/ k = 4
    OBVIOUS
  <2> QED
    BY <2>1, <2>2, LettersAgree, NumbersAgree, OthersAgree
<1>2. CASE \E k \in 1 .. 4 : Tries(t, p)[k] # {}
  <2> DEFINE S == {k \in 1 .. 4 : Tries(t, p)[k] # {}}
  <2>1. PICK k \in S : \A j \in S : k <= j
    <3>1. S \in SUBSET Nat /\ S # {}
      BY <1>2
    <3> HIDE DEF S
    <3> QED
      BY <3>1, LeastNumber
  <2>2. k \in 1 .. 4 /\ k \in 1 .. 7 /\ Tries(t, p)[k] # {}
    BY <2>1
  <2>3. \A j \in 1 .. 7 : j < k => j \in 1 .. 4 /\ Tries(t, p)[j] = {}
    BY <2>1, <2>2
  <2>4. MatchEnds(t, p, k) # {} /\ \A j \in 1 .. 7 : j < k => MatchEnds(t, p, j) = {}
    BY <1>1, <2>2, <2>3 DEF Agree
  <2>5. Llama3End(t, p) = Max(Tries(t, p)[k])
    BY <2>2, <2>3, FirstTry
  <2>6. RegexEnd(t, p) = Max(MatchEnds(t, p, k))
    BY <2>2, <2>4, FirstAlternative
  <2> QED
    BY <1>1, <2>2, <2>5, <2>6 DEF Agree
<1>3. CASE \A k \in 1 .. 4 : Tries(t, p)[k] = {}
  <2>0. p \in 1 .. Len(t) + 1 /\ p + 1 \in Nat /\ p + 1 \in p + 1 .. Len(t) + 1
    OBVIOUS
  <2>1. LetterEnds(t, p) = {} /\ NumberEnds(t, p) = {} /\ OtherEnds(t, p) = {}
    <3>1. Tries(t, p)[2] = {} /\ Tries(t, p)[3] = {} /\ Tries(t, p)[4] = {}
      BY <1>3
    <3> QED
      BY <3>1 DEF Tries
  <2>2. t[p] \in Blanks
    <3>1. t[p] \in Chars
      OBVIOUS
    <3>2. t[p] \notin Letters
      BY <2>1, ClassesAssumption DEF LetterEnds, IsAt, Blanks
    <3>3. t[p] \notin Numbers
      BY <2>1 DEF NumberEnds
    <3>4. t[p] \notin Others
      BY <2>1, ClassesAssumption DEF OtherEnds, IsAt, Blanks
    <3> QED
      BY <3>1, <3>2, <3>3, <3>4 DEF Chars
  <2>3. IsAt(t, p, Blanks) /\ ~IsAt(t, p + 1, Blanks)
    <3>1. \A i \in p .. p + 1 : i = p \/ i = p + 1
      OBVIOUS
    <3> QED
      BY <2>2, <3>1 DEF IsAt
  <2>4. \A q \in p + 1 .. Len(t) + 1 : AllIn(t, p, q, Blanks) <=> q = p + 1
    <3>1. AllIn(t, p, p + 1, Blanks)
      BY <2>2 DEF AllIn
    <3>2. ASSUME NEW q \in p + 1 .. Len(t) + 1, AllIn(t, p, q, Blanks), q # p + 1
          PROVE  FALSE
      <4>1. p + 1 \in p .. q - 1 /\ p + 1 <= Len(t)
        BY <3>2
      <4>2. t[p + 1] \in Blanks
        BY <3>2, <4>1 DEF AllIn
      <4> QED
        BY <2>3, <4>1, <4>2 DEF IsAt
    <3> QED
      BY <3>1, <3>2
  <2>5. RunEnd(t, p, Blanks) = p + 1
    <3> DEFINE q == RunEnd(t, p, Blanks)
    <3>1. q \in p .. Len(t) + 1 /\ AllIn(t, p, q, Blanks) /\ ~IsAt(t, q, Blanks)
      BY <2>0, RunEndIs
    <3> HIDE DEF q
    <3>2. q # p
      BY <2>3, <3>1
    <3>3. q \in p + 1 .. Len(t) + 1
      BY <3>1, <3>2
    <3>4. q = p + 1
      BY <2>4, <3>1, <3>3
    <3> QED
      BY <3>4 DEF q
  <2>6. ~IsAt(t, p + 1, Newlines)
    BY <2>3 DEF IsAt, Blanks
  <2>7. Llama3End(t, p) = p + 1
    <3>1. Tries(t, p)[5] = {} /\ Tries(t, p)[6] \subseteq {p + 1} /\ Tries(t, p)[7] = {p + 1}
      BY <2>5, <2>6 DEF Tries, LineEnds, TrailingEnds
    <3>2. Max({p + 1}) = p + 1
      BY <2>0, MaxOfIt
    <3> DEFINE S == {k \in 1 .. 7 : Tries(t, p)[k] # {}}
    <3>3. PICK k \in S : \A j \in S : k <= j
      <4>1. Tries(t, p)[7] = {p + 1}
        BY <3>1
      <4>2. S \in SUBSET Nat /\ 7 \in S
        BY <4>1
      <4> HIDE DEF S
      <4> QED
        BY <4>2, LeastNumber
    <3>4. k \in 1 .. 7 /\ Tries(t, p)[k] # {} /\ \A j \in 1 .. 7 : j < k => Tries(t, p)[j] = {}
      BY <3>3
    <3>5. Llama3End(t, p) = Max(Tries(t, p)[k])
      BY <3>4, FirstTry
    <3>6. k = 6 \/ k = 7
      <4>1. k \notin 1 .. 4 /\ k # 5
        BY <1>3, <3>1, <3>4
      <4> QED
        BY <3>4, <4>1
    <3>7. Tries(t, p)[k] = {p + 1}
      BY <3>1, <3>4, <3>6
    <3> QED
      BY <3>2, <3>5, <3>7
  <2>8. RegexEnd(t, p) = p + 1
    <3> DEFINE S == {k \in 1 .. 7 : MatchEnds(t, p, k) # {}}
    <3>1. p + 1 \in MatchEnds(t, p, 7)
      BY <2>0, <2>4, Blanked
    <3>2. S \in SUBSET Nat /\ 7 \in S
      BY <3>1
    <3>3. PICK k \in S : \A j \in S : k <= j
      <4> HIDE DEF S
      <4> QED
        BY <3>2, LeastNumber
    <3>4. k \in 1 .. 7 /\ MatchEnds(t, p, k) # {} /\ \A j \in 1 .. 7 : j < k => MatchEnds(t, p, j) = {}
      BY <3>3
    <3>5. RegexEnd(t, p) = Max(MatchEnds(t, p, k))
      BY <3>4, FirstAlternative
    <3>6. k = 5 \/ k = 6 \/ k = 7
      <4>1. \A j \in 1 .. 4 : MatchEnds(t, p, j) = {}
        BY <1>1, <1>3 DEF Agree
      <4>2. k \notin 1 .. 4
        BY <3>4, <4>1
      <4> QED
        BY <3>4, <4>2
    <3>7. MatchEnds(t, p, k) \subseteq {p + 1}
      <4> SUFFICES ASSUME NEW q \in MatchEnds(t, p, k) PROVE q = p + 1
        OBVIOUS
      <4>1. q \in p + 1 .. Len(t) + 1 /\ AllIn(t, p, q, Blanks)
        BY <3>6, Blanked
      <4> QED
        BY <2>4, <4>1
    <3>8. MatchEnds(t, p, k) = {p + 1}
      BY <3>4, <3>7
    <3>9. Max({p + 1}) = p + 1
      BY <2>0, MaxOfIt
    <3> QED
      BY <3>5, <3>8, <3>9
  <2> QED
    BY <2>7, <2>8
<1> QED
  BY <1>2, <1>3

(***************************************************************************)
(* Sequences that are put together.                                        *)
(***************************************************************************)
\* The elements of two sequences put together.
LEMMA ConcatIs ==
  ASSUME NEW S, NEW y \in Seq(S), NEW z \in Seq(S)
  PROVE  /\ y \o z \in Seq(S) /\ Len(y \o z) = Len(y) + Len(z)
         /\ \A i \in 1 .. Len(y) : (y \o z)[i] = y[i]
         /\ \A i \in 1 .. Len(z) : (y \o z)[Len(y) + i] = z[i]
<1>1. Len(y) \in Nat /\ Len(z) \in Nat
  OBVIOUS
<1>2. y \o z \in Seq(S) /\ Len(y \o z) = Len(y) + Len(z)
  OBVIOUS
<1>3. ASSUME NEW i \in 1 .. Len(y) + Len(z)
      PROVE  (y \o z)[i] = IF i <= Len(y) THEN y[i] ELSE z[i - Len(y)]
  OBVIOUS
<1>4. ASSUME NEW i \in 1 .. Len(y)
      PROVE  (y \o z)[i] = y[i]
  BY <1>1, <1>3
<1>5. ASSUME NEW i \in 1 .. Len(z)
      PROVE  (y \o z)[Len(y) + i] = z[i]
  <2>1. Len(y) + i \in 1 .. Len(y) + Len(z) /\ ~(Len(y) + i <= Len(y)) /\ Len(y) + i - Len(y) = i
    BY <1>1
  <2>2. (y \o z)[Len(y) + i] = z[Len(y) + i - Len(y)]
    BY <1>3, <2>1
  <2> QED
    BY <2>1, <2>2
<1> QED
  BY <1>2, <1>4, <1>5

\* A sequence that has the elements of y and then those of z.
LEMMA ConcatOf ==
  ASSUME NEW S, NEW y \in Seq(S), NEW z \in Seq(S), NEW x \in Seq(S), Len(x) = Len(y) + Len(z),
         \A i \in 1 .. Len(y) : x[i] = y[i], \A i \in 1 .. Len(z) : x[Len(y) + i] = z[i]
  PROVE  x = y \o z
<1> DEFINE w == y \o z
<1>1. /\ w \in Seq(S) /\ Len(w) = Len(y) + Len(z)
      /\ \A i \in 1 .. Len(y) : w[i] = y[i]
      /\ \A i \in 1 .. Len(z) : w[Len(y) + i] = z[i]
  BY ConcatIs
<1> HIDE DEF w
<1>2. Len(y) \in Nat /\ Len(z) \in Nat
  OBVIOUS
<1>3. ASSUME NEW i \in 1 .. Len(x)
      PROVE  x[i] = w[i]
  <2>1. CASE i <= Len(y)
    BY <1>1, <1>2, <2>1
  <2>2. CASE ~(i <= Len(y))
    <3>1. i - Len(y) \in 1 .. Len(z) /\ Len(y) + (i - Len(y)) = i
      BY <1>2, <2>2
    <3> QED
      BY <1>1, <3>1
  <2> QED
    BY <2>1, <2>2
<1>4. x = w
  BY <1>1, <1>3, SeqEqual
<1> QED
  BY <1>4 DEF w

\* A part of u in two parts, and the places of the first one.
LEMMA CutAt ==
  ASSUME NEW S, NEW u \in Seq(S), NEW a \in 1 .. Len(u) + 1, NEW b \in a .. Len(u) + 1
  PROVE  /\ SubSeq(u, a, Len(u)) = SubSeq(u, a, b - 1) \o SubSeq(u, b, Len(u))
         /\ SubSeq(u, a, b - 1) \in Seq(S) /\ SubSeq(u, b, Len(u)) \in Seq(S)
         /\ Len(SubSeq(u, a, b - 1)) = b - a
         /\ \A i \in 1 .. b - a : SubSeq(u, a, b - 1)[i] = u[a + i - 1]
<1> DEFINE x == SubSeq(u, a, Len(u))
           y == SubSeq(u, a, b - 1)
           z == SubSeq(u, b, Len(u))
<1>1. x \in Seq(S) /\ Len(x) = Len(u) + 1 - a /\ \A i \in 1 .. Len(u) + 1 - a : x[i] = u[a + i - 1]
  OBVIOUS
<1>2. y \in Seq(S) /\ Len(y) = b - a /\ \A i \in 1 .. b - a : y[i] = u[a + i - 1]
  OBVIOUS
<1>3. z \in Seq(S) /\ Len(z) = Len(u) + 1 - b /\ \A i \in 1 .. Len(u) + 1 - b : z[i] = u[b + i - 1]
  OBVIOUS
<1> HIDE DEF x, y, z
<1>4. ASSUME NEW i \in 1 .. Len(z)
      PROVE  x[Len(y) + i] = z[i]
  <2>1. Len(y) + i \in 1 .. Len(u) + 1 - a /\ a + (Len(y) + i) - 1 = b + i - 1
    BY <1>2, <1>3
  <2> QED
    BY <1>1, <1>3, <2>1
<1>5. Len(x) = Len(y) + Len(z) /\ \A i \in 1 .. Len(y) : x[i] = y[i]
  BY <1>1, <1>2, <1>3
<1>6. x = y \o z
  BY <1>1, <1>2, <1>3, <1>4, <1>5, ConcatOf
<1> QED
  BY <1>2, <1>3, <1>6 DEF x, y, z

-----------------------------------------------------------------------------
(***************************************************************************)
(* What the variables hold.                                                *)
(***************************************************************************)
Segments == [special : BOOLEAN, chars : Seq(Chars) \ {<<>>}]

TkTypes ==
  /\ input \in Inputs
  /\ from \in 1 .. Len(input.text) + 1
  /\ segs \in Seq(Segments) /\ at \in Nat \ {0}
  /\ ids \in Seq(Seq(Chars))

TkPlaces ==
  /\ tkAt # "cut" => from = Len(input.text) + 1
  /\ tkAt = "cut" \/ segs = <<>> => at = 1
  /\ segs # <<>> => at <= Len(Head(segs).chars) /\ (Head(segs).special => at = 1)
  /\ tkAt \in {"cut", "chunk", "done"} => ids = <<>>
  /\ tkAt = "done" => segs = <<>>

\* No special token is left in a segment that is split.
Unmarked ==
  {s \in Segments : ~s.special =>
     \A k \in DOMAIN input.special : \A p \in DOMAIN s.chars :
       ~StartsAt(input.special[k], p, s.chars)}

NoMarks == segs \in Seq(Unmarked)

Texts(ss) == [i \in 1 .. Len(ss) |-> ss[i].chars]

\* The characters of the segments from place a of the first one on.
LeftOf(ss, a) ==
  IF ss = <<>> THEN <<>>
  ELSE LET first == Head(ss).chars
       IN  FlattenSeq(<<SubSeq(first, a, Len(first))>>
                      \o [i \in 1 .. Len(ss) - 1 |-> ss[i + 1].chars])

Kept(out, cs, left, f) ==
  FlattenSeq(out) \o FlattenSeq(cs) \o left \o SubSeq(input.text, f, Len(input.text)) = input.text

TkText ==
  input.text # <<>> /\ tkAt # "failed" =>
    \E out \in Seq(Seq(Chars)) : allIds = <<Bos>> \o out /\ Kept(out, ids, LeftOf(segs, at), from)

TkInv == TkTypes /\ TkPlaces /\ NoMarks /\ TkText

\* The parts of an input.
LEMMA InputFields ==
  ASSUME NEW i \in Inputs
  PROVE  /\ i.text \in Seq(Chars)
         /\ i.special \in Seq(Seq(Chars) \ {<<>>})
         /\ i.merges \in Seq(Seq(Chars) \X Seq(Chars))
BY InputsAssumption

\* The characters of the segments, one by one.
LEMMA TextsAre ==
  ASSUME NEW ss \in Seq(Segments)
  PROVE  /\ Texts(ss) \in Seq(Seq(Chars)) /\ Len(Texts(ss)) = Len(ss)
         /\ \A i \in 1 .. Len(ss) : Texts(ss)[i] = ss[i].chars
<1>1. \A i \in 1 .. Len(ss) : ss[i] \in Segments
  OBVIOUS
<1>2. \A i \in 1 .. Len(ss) : ss[i].chars \in Seq(Chars)
  BY <1>1 DEF Segments
<1> QED
  BY <1>2 DEF Texts

\* The characters of segments behind other segments.
LEMMA TextsConcat ==
  ASSUME NEW ss \in Seq(Segments), NEW rr \in Seq(Segments)
  PROVE  Texts(ss \o rr) = Texts(ss) \o Texts(rr)
<1> DEFINE x == Texts(ss)
           y == Texts(rr)
           z == Texts(ss \o rr)
<1>1. ss \o rr \in Seq(Segments) /\ Len(ss \o rr) = Len(ss) + Len(rr)
  OBVIOUS
<1>2. /\ x \in Seq(Seq(Chars)) /\ Len(x) = Len(ss) /\ \A i \in 1 .. Len(ss) : x[i] = ss[i].chars
      /\ y \in Seq(Seq(Chars)) /\ Len(y) = Len(rr) /\ \A i \in 1 .. Len(rr) : y[i] = rr[i].chars
  BY TextsAre
<1>3. /\ z \in Seq(Seq(Chars)) /\ Len(z) = Len(ss) + Len(rr)
      /\ \A i \in 1 .. Len(ss) + Len(rr) : z[i] = (ss \o rr)[i].chars
  BY <1>1, TextsAre
<1> HIDE DEF x, y, z
<1>4. /\ \A i \in 1 .. Len(ss) : (ss \o rr)[i] = ss[i]
      /\ \A i \in 1 .. Len(rr) : (ss \o rr)[Len(ss) + i] = rr[i]
  BY ConcatIs
<1>5. Len(ss) \in Nat /\ Len(rr) \in Nat
  OBVIOUS
<1>6. ASSUME NEW i \in 1 .. Len(x)
      PROVE  z[i] = x[i]
  <2>1. i \in 1 .. Len(ss) + Len(rr) /\ i \in 1 .. Len(ss)
    BY <1>2, <1>5
  <2> QED
    BY <1>2, <1>3, <1>4, <2>1
<1>7. ASSUME NEW i \in 1 .. Len(y)
      PROVE  z[Len(x) + i] = y[i]
  <2>1. Len(ss) + i \in 1 .. Len(ss) + Len(rr) /\ i \in 1 .. Len(rr)
    BY <1>2, <1>5
  <2> QED
    BY <1>2, <1>3, <1>4, <2>1
<1>8. Len(z) = Len(x) + Len(y)
  BY <1>2, <1>3
<1>9. z = x \o y
  BY <1>2, <1>3, <1>6, <1>7, <1>8, ConcatOf
<1> QED
  BY <1>9 DEF x, y, z

\* The first segment has a character.
LEMMA FirstSegment ==
  ASSUME NEW ss \in Seq(Segments), ss # <<>>
  PROVE  /\ Head(ss) \in Segments /\ Head(ss).chars \in Seq(Chars) /\ Len(Head(ss).chars) >= 1
         /\ Tail(ss) \in Seq(Segments) /\ Texts(ss) = <<Head(ss).chars>> \o Texts(Tail(ss))
<1>1. Head(ss) \in Segments /\ Tail(ss) \in Seq(Segments) /\ ss = <<Head(ss)>> \o Tail(ss)
  OBVIOUS
<1>2. Head(ss).chars \in Seq(Chars) /\ Head(ss).chars # <<>>
  BY <1>1 DEF Segments
<1>3. Len(Head(ss).chars) >= 1
  <2> DEFINE u == Head(ss).chars
  <2>1. u \in Seq(Chars) /\ u # <<>>
    BY <1>2
  <2> HIDE DEF u
  <2>2. Len(u) >= 1
    BY <2>1
  <2> QED
    BY <2>2 DEF u
<1>4. <<Head(ss)>> \in Seq(Segments) /\ Texts(<<Head(ss)>>) = <<Head(ss).chars>>
  BY <1>1 DEF Texts
<1>5. Texts(<<Head(ss)>> \o Tail(ss)) = Texts(<<Head(ss)>>) \o Texts(Tail(ss))
  BY <1>1, <1>4, TextsConcat
<1> QED
  BY <1>1, <1>2, <1>3, <1>4, <1>5

\* What is left is the rest of the first segment and the other ones.
LEMMA LeftIs ==
  ASSUME NEW ss \in Seq(Segments), ss # <<>>, NEW a \in 1 .. Len(Head(ss).chars) + 1
  PROVE  /\ LeftOf(ss, a) = SubSeq(Head(ss).chars, a, Len(Head(ss).chars))
                              \o FlattenSeq(Texts(Tail(ss)))
         /\ SubSeq(Head(ss).chars, a, Len(Head(ss).chars)) \in Seq(Chars)
         /\ FlattenSeq(Texts(Tail(ss))) \in Seq(Chars)
<1> DEFINE first == Head(ss).chars
           x == SubSeq(first, a, Len(first))
           y == [i \in 1 .. Len(ss) - 1 |-> ss[i + 1].chars]
<1>1. first \in Seq(Chars) /\ Tail(ss) \in Seq(Segments)
  BY FirstSegment
<1>2. LeftOf(ss, a) = FlattenSeq(<<x>> \o y)
  BY DEF LeftOf
<1>3. y = Texts(Tail(ss))
  BY DEF Texts
<1>4. y \in Seq(Seq(Chars))
  BY <1>1, <1>3, TextsAre
<1> HIDE DEF first, y
<1>5. x \in Seq(Chars)
  BY <1>1
<1> HIDE DEF x
<1>6. FlattenSeq(<<x>> \o y) = FlattenSeq(<<x>>) \o FlattenSeq(y)
  <2>1. <<x>> \in Seq(Seq(Chars))
    BY <1>5
  <2> QED
    BY <1>4, <2>1, FlattenConcat
<1>7. FlattenSeq(<<x>>) = x /\ FlattenSeq(y) \in Seq(Chars)
  BY <1>4, <1>5, FlattenOne, FlattenType
<1> QED
  BY <1>2, <1>3, <1>5, <1>6, <1>7 DEF x, first

\* At the start of the first segment all characters are left.
LEMMA LeftFromStart ==
  ASSUME NEW ss \in Seq(Segments)
  PROVE  LeftOf(ss, 1) = FlattenSeq(Texts(ss)) /\ LeftOf(ss, 1) \in Seq(Chars)
<1>1. Texts(ss) \in Seq(Seq(Chars))
  BY TextsAre
<1>2. FlattenSeq(Texts(ss)) \in Seq(Chars)
  BY <1>1, FlattenType
<1>3. CASE ss = <<>>
  <2>1. Texts(ss) = <<>>
    BY <1>3 DEF Texts
  <2> QED
    BY <1>2, <1>3, <2>1, FlattenNothing DEF LeftOf
<1>4. CASE ss # <<>>
  <2> DEFINE u == Head(ss).chars
             r == Texts(Tail(ss))
  <2>1. u \in Seq(Chars) /\ Tail(ss) \in Seq(Segments) /\ Texts(ss) = <<u>> \o r /\ Len(u) >= 1
    BY <1>4, FirstSegment
  <2>2. r \in Seq(Seq(Chars))
    BY <2>1, TextsAre
  <2>3. LeftOf(ss, 1) = SubSeq(u, 1, Len(u)) \o FlattenSeq(r)
    <3>1. 1 \in 1 .. Len(u) + 1
      BY <2>1
    <3> QED
      BY <1>4, <3>1, LeftIs
  <2> HIDE DEF u, r
  <2>4. SubSeq(u, 1, Len(u)) = u /\ <<u>> \in Seq(Seq(Chars))
    BY <2>1
  <2>5. FlattenSeq(<<u>> \o r) = FlattenSeq(<<u>>) \o FlattenSeq(r) /\ FlattenSeq(<<u>>) = u
    BY <2>1, <2>2, <2>4, FlattenConcat, FlattenOne
  <2> QED
    BY <1>2, <2>1, <2>3, <2>4, <2>5
<1> QED
  BY <1>3, <1>4

\* Segments behind the others.
LEMMA LeftGrows ==
  ASSUME NEW ss \in Seq(Segments), NEW rr \in Seq(Segments)
  PROVE  LeftOf(ss \o rr, 1) = LeftOf(ss, 1) \o FlattenSeq(Texts(rr))
<1>1. Texts(ss) \in Seq(Seq(Chars)) /\ Texts(rr) \in Seq(Seq(Chars)) /\ ss \o rr \in Seq(Segments)
  BY TextsAre
<1>2. FlattenSeq(Texts(ss) \o Texts(rr)) = FlattenSeq(Texts(ss)) \o FlattenSeq(Texts(rr))
  BY <1>1, FlattenConcat
<1> QED
  BY <1>1, <1>2, LeftFromStart, TextsConcat

(***************************************************************************)
(* Choices: the least value of f, and of the elements with it the least.   *)
(***************************************************************************)
\* There is one.
LEMMA LeastOf ==
  ASSUME NEW K \in SUBSET Nat, K # {}, NEW f \in [K -> Nat]
  PROVE  \E k \in K : \A j \in K : f[k] < f[j] \/ (f[k] = f[j] /\ k <= j)
<1> DEFINE V == {f[k] : k \in K}
<1>1. PICK v \in V : \A w \in V : v <= w
  <2>1. V \in SUBSET Nat /\ V # {}
    OBVIOUS
  <2> HIDE DEF V
  <2> QED
    BY <2>1, LeastNumber
<1> DEFINE B == {k \in K : f[k] = v}
<1>2. PICK k \in B : \A j \in B : k <= j
  <2>1. B \in SUBSET Nat /\ B # {}
    BY <1>1
  <2> HIDE DEF B
  <2> QED
    BY <2>1, LeastNumber
<1>3. ASSUME NEW j \in K
      PROVE  f[k] < f[j] \/ (f[k] = f[j] /\ k <= j)
  <2>1. f[k] = v /\ v <= f[j] /\ f[k] \in Nat /\ f[j] \in Nat
    BY <1>1, <1>2
  <2>2. f[j] = v => k <= j
    BY <1>2
  <2> QED
    BY <2>1, <2>2
<1> QED
  BY <1>2, <1>3

\* Where a special token starts first.
LEMMA HitsAre ==
  ASSUME input \in Inputs, from \in 1 .. Len(input.text) + 1, NEW k \in Found(from)
  PROVE  /\ k \in DOMAIN input.special /\ k \in Nat
         /\ Min(Hits(k, from)) \in from .. Len(input.text)
         /\ StartsAt(input.special[k], Min(Hits(k, from)), input.text)
         /\ \A q \in from .. Min(Hits(k, from)) - 1 : ~StartsAt(input.special[k], q, input.text)
<1>1. input.text \in Seq(Chars) /\ input.special \in Seq(Seq(Chars) \ {<<>>})
  BY InputFields
<1>2. Len(input.text) \in Nat /\ from \in Nat
  BY <1>1
<1> DEFINE H == Hits(k, from)
           m == Min(H)
<1>3. H \in SUBSET Nat /\ H # {} /\ H \subseteq from .. Len(input.text)
  BY <1>2 DEF Hits, Found
<1>4. m \in H /\ \A q \in H : m <= q
  <2> HIDE DEF H
  <2> QED
    BY <1>3, MinIs
<1>5. \A q \in H : StartsAt(input.special[k], q, input.text)
  BY DEF Hits
<1>6. ASSUME NEW q \in from .. m - 1, StartsAt(input.special[k], q, input.text)
      PROVE  FALSE
  <2>1. m \in from .. Len(input.text) /\ q \in from .. Len(input.text) /\ q < m
    <3> HIDE DEF H, m
    <3> QED
      BY <1>2, <1>3, <1>4
  <2>2. q \in H
    BY <1>6, <2>1 DEF Hits
  <2> HIDE DEF H, m
  <2> QED
    BY <1>2, <1>4, <2>1, <2>2
<1>7. k \in DOMAIN input.special /\ k \in Nat
  BY <1>1 DEF Found
<1>8. m \in from .. Len(input.text) /\ StartsAt(input.special[k], m, input.text)
  <2> HIDE DEF H, m
  <2> QED
    BY <1>3, <1>4, <1>5
<1> HIDE DEF H, m
<1> QED
  BY <1>6, <1>7, <1>8 DEF H, m

\* Before the special token that is cut next none starts.
LEMMA BestIs ==
  ASSUME input \in Inputs, from \in 1 .. Len(input.text) + 1, Found(from) # {},
         NEW b, b = BestSpecial(from), NEW hit, hit = Min(Hits(b, from))
  PROVE  /\ b \in DOMAIN input.special /\ hit \in from .. Len(input.text)
         /\ StartsAt(input.special[b], hit, input.text)
         /\ \A k \in DOMAIN input.special : \A q \in from .. hit - 1 :
              ~StartsAt(input.special[k], q, input.text)
<1> DEFINE K == Found(from)
           f == [k \in K |-> Min(Hits(k, from))]
<1>1. Len(input.text) \in Nat /\ from \in Nat
  BY InputFields
<1>2. K \in SUBSET Nat /\ f \in [K -> Nat]
  BY <1>1, HitsAre
<1>3. \E k \in K : \A j \in K : f[k] < f[j] \/ (f[k] = f[j] /\ k <= j)
  <2> HIDE DEF K, f
  <2>1. K # {}
    BY DEF K
  <2> QED
    BY <1>2, <2>1, LeastOf
<1>4. \E k \in K : \A j \in K : \/ Min(Hits(k, from)) < Min(Hits(j, from))
                                \/ Min(Hits(k, from)) = Min(Hits(j, from)) /\ k <= j
  BY <1>3
<1>5. b \in K /\ \A j \in K : hit <= Min(Hits(j, from))
  <2>1. b \in K /\ \A j \in K : \/ Min(Hits(b, from)) < Min(Hits(j, from))
                                \/ Min(Hits(b, from)) = Min(Hits(j, from)) /\ b <= j
    BY <1>4 DEF BestSpecial
  <2>2. \A j \in K : Min(Hits(j, from)) \in Nat
    BY <1>2
  <2> HIDE DEF K
  <2> QED
    BY <2>1, <2>2
<1>6. /\ b \in DOMAIN input.special /\ hit \in from .. Len(input.text)
      /\ StartsAt(input.special[b], hit, input.text)
  BY <1>5, HitsAre
<1>7. ASSUME NEW k \in DOMAIN input.special, NEW q \in from .. hit - 1,
             StartsAt(input.special[k], q, input.text)
      PROVE  FALSE
  <2>1. q \in from .. Len(input.text) /\ q < hit
    BY <1>1, <1>6
  <2>2. k \in K
    BY <1>7, <2>1 DEF Found, Hits
  <2>3. hit <= Min(Hits(k, from)) /\ Min(Hits(k, from)) \in from .. Len(input.text)
    BY <1>5, <2>2, HitsAre
  <2>4. q \in from .. Min(Hits(k, from)) - 1
    BY <1>1, <1>6, <2>1, <2>3
  <2> QED
    BY <1>7, <2>2, <2>4, HitsAre
<1> QED
  BY <1>6, <1>7

\* The rank of a pair is the first place where it is listed.
LEMMA RankIs ==
  ASSUME input \in Inputs, NEW i \in Mergeable
  PROVE  /\ Rank(i) \in DOMAIN input.merges /\ Rank(i) \in Nat
         /\ input.merges[Rank(i)] = <<ids[i], ids[i + 1]>>
         /\ \A k \in DOMAIN input.merges :
              input.merges[k] = <<ids[i], ids[i + 1]>> => Rank(i) <= k
<1> DEFINE S == {k \in DOMAIN input.merges : input.merges[k] = <<ids[i], ids[i + 1]>>}
<1>1. S # {}
  <2>1. <<ids[i], ids[i + 1]>> \in ToSet(input.merges)
    BY DEF Mergeable
  <2> QED
    BY <2>1 DEF ToSet
<1>2. S \in SUBSET Nat
  BY InputFields
<1>3. Rank(i) = Min(S)
  BY DEF Rank
<1> HIDE DEF S
<1>4. Rank(i) \in S /\ \A k \in S : Rank(i) <= k
  BY <1>1, <1>2, <1>3, MinIs
<1>5. Rank(i) \in Nat
  BY <1>2, <1>4
<1> QED
  BY <1>4, <1>5 DEF S

\* The merge loop finds a pair, if there is one: of the lowest rank, and of those the first.
LEMMA BestPairIs ==
  ASSUME input \in Inputs, ids \in Seq(Seq(Chars)), Mergeable # {}
  PROVE  /\ BestPair \in 1 .. Len(ids) - 1 /\ BestPair \in Mergeable
         /\ \A j \in Mergeable : \/ Rank(BestPair) < Rank(j)
                                 \/ Rank(BestPair) = Rank(j) /\ BestPair <= j
<1>1. Len(ids) \in Nat
  OBVIOUS
<1>2. Mergeable \in SUBSET Nat /\ Mergeable \subseteq 1 .. Len(ids) - 1
  BY <1>1 DEF Mergeable
<1> DEFINE f == [i \in Mergeable |-> Rank(i)]
<1>3. f \in [Mergeable -> Nat]
  BY RankIs
<1>4. \E i \in Mergeable : \A j \in Mergeable : f[i] < f[j] \/ (f[i] = f[j] /\ i <= j)
  <2> HIDE DEF f
  <2> QED
    BY <1>2, <1>3, LeastOf
<1>5. \E i \in Mergeable : \A j \in Mergeable : Rank(i) < Rank(j) \/ (Rank(i) = Rank(j) /\ i <= j)
  BY <1>4
<1>6. /\ BestPair \in Mergeable
      /\ \A j \in Mergeable : \/ Rank(BestPair) < Rank(j)
                              \/ Rank(BestPair) = Rank(j) /\ BestPair <= j
  BY <1>5 DEF BestPair
<1> QED
  BY <1>2, <1>6

\* A token that starts in a part of a text starts in the text.
LEMMA StartsInside ==
  ASSUME NEW u \in Seq(Chars), NEW a \in 1 .. Len(u) + 1, NEW b \in a .. Len(u) + 1,
         NEW s \in Seq(Chars), NEW p \in 1 .. b - a, StartsAt(s, p, SubSeq(u, a, b - 1))
  PROVE  StartsAt(s, a + p - 1, u) /\ a + p - 1 \in a .. b - 1
<1> DEFINE y == SubSeq(u, a, b - 1)
<1>1. y \in Seq(Chars) /\ Len(y) = b - a /\ \A i \in 1 .. b - a : y[i] = u[a + i - 1]
  <2>1. /\ SubSeq(u, a, b - 1) \in Seq(Chars) /\ Len(SubSeq(u, a, b - 1)) = b - a
        /\ \A i \in 1 .. b - a : SubSeq(u, a, b - 1)[i] = u[a + i - 1]
    <3> HIDE DEF y
    <3> QED
      BY CutAt
  <2> QED
    BY <2>1
<1> HIDE DEF y
<1>2. Len(u) \in Nat /\ a \in Nat /\ b \in Nat /\ p \in Nat /\ Len(s) \in Nat
  OBVIOUS
<1>3. p + Len(s) - 1 <= b - a /\ SubSeq(y, p, p + Len(s) - 1) = s
  BY <1>1 DEF StartsAt, y
<1> DEFINE q == a + p - 1
           x == SubSeq(u, q, q + Len(s) - 1)
<1>4. q \in Nat /\ q >= 1 /\ q + Len(s) - 1 <= Len(u)
  BY <1>2, <1>3
<1>5. x \in Seq(Chars) /\ Len(x) = Len(s) /\ \A i \in 1 .. Len(s) : x[i] = u[q + i - 1]
  <2> HIDE DEF q
  <2>1. q \in 1 .. Len(u) + 1 /\ q + Len(s) \in q .. Len(u) + 1 /\ q + Len(s) - q = Len(s)
    BY <1>2, <1>4
  <2> QED
    BY <2>1, CutAt
<1>6. ASSUME NEW i \in 1 .. Len(s)
      PROVE  x[i] = s[i]
  <2>1. p + i - 1 \in 1 .. b - a /\ q + i - 1 = a + (p + i - 1) - 1
    BY <1>2, <1>3
  <2>2. y[p + i - 1] = u[q + i - 1]
    BY <1>1, <2>1
  <2>3. \A j \in 1 .. Len(s) : SubSeq(y, p, p + Len(s) - 1)[j] = y[p + j - 1]
    <3> DEFINE e == p + Len(s)
    <3>1. p \in 1 .. Len(y) + 1 /\ e \in p .. Len(y) + 1 /\ e - p = Len(s)
      BY <1>1, <1>2, <1>3
    <3> HIDE DEF e
    <3>2. \A j \in 1 .. Len(s) : SubSeq(y, p, e - 1)[j] = y[p + j - 1]
      BY <1>1, <3>1, CutAt
    <3> QED
      BY <3>2 DEF e
  <2> HIDE DEF q, x
  <2> QED
    BY <1>3, <1>5, <2>2, <2>3
<1>7. x = s
  <2> HIDE DEF x
  <2> QED
    BY <1>5, <1>6, SeqEqual
<1>8. StartsAt(s, q, u)
  BY <1>4, <1>7 DEF StartsAt
<1> QED
  BY <1>2, <1>8

-----------------------------------------------------------------------------
(***************************************************************************)
(* What the steps move.                                                    *)
(***************************************************************************)
\* A sequence over a set is one over every set around it.
LEMMA SeqWider ==
  ASSUME NEW S, NEW T, S \subseteq T, NEW s \in Seq(S)
  PROVE  s \in Seq(T)
<1>1. s \in [1 .. Len(s) -> S] /\ Len(s) \in Nat
  OBVIOUS
<1>2. s \in [1 .. Len(s) -> T]
  BY <1>1
<1> QED
  BY <1>1, <1>2

\* The tokens behind the BOS.
LEMMA BehindBos ==
  ASSUME NEW out \in Seq(Seq(Chars))
  PROVE  /\ Tail(<<Bos>> \o out) = out
         /\ \A x \in Seq(Chars) : Append(<<Bos>> \o out, x) = <<Bos>> \o Append(out, x)
         /\ \A c \in Seq(Seq(Chars)) : (<<Bos>> \o out) \o c = <<Bos>> \o (out \o c)
<1> DEFINE T == Seq(Chars) \cup {Bos}
<1>1. out \in Seq(T) /\ <<Bos>> \in Seq(T)
  <2>1. Seq(Chars) \subseteq T
    OBVIOUS
  <2> HIDE DEF T
  <2>2. out \in Seq(T)
    BY <2>1, SeqWider
  <2> QED
    BY <2>2 DEF T
<1>2. Tail(<<Bos>> \o out) = out
  <2> HIDE DEF T
  <2> QED
    BY <1>1
<1>3. ASSUME NEW x \in Seq(Chars)
      PROVE  Append(<<Bos>> \o out, x) = <<Bos>> \o Append(out, x)
  <2>1. x \in T
    OBVIOUS
  <2> HIDE DEF T
  <2> QED
    BY <1>1, <2>1
<1>4. ASSUME NEW c \in Seq(Seq(Chars))
      PROVE  (<<Bos>> \o out) \o c = <<Bos>> \o (out \o c)
  <2>1. Seq(Chars) \subseteq T
    OBVIOUS
  <2> HIDE DEF T
  <2>2. c \in Seq(T)
    BY <2>1, SeqWider
  <2> QED
    BY <1>1, <2>2
<1> QED
  BY <1>2, <1>3, <1>4

\* Parts of a text that move from one place to the next.
LEMMA MovedToken ==
  \A o, l, x \in Seq(Chars) : (o \o x) \o l = o \o (x \o l)
OBVIOUS

\* The characters of a chunk leave the segment.
LEMMA MovedChunk ==
  \A o, l, x, y \in Seq(Chars) : (o \o x) \o (y \o l) = o \o ((x \o y) \o l)
<1> SUFFICES ASSUME NEW o \in Seq(Chars), NEW l \in Seq(Chars), NEW x \in Seq(Chars), NEW y \in Seq(Chars)
             PROVE  (o \o x) \o (y \o l) = o \o ((x \o y) \o l)
  BY Zenon
<1> DEFINE w == y \o l
           v == x \o y
<1>1. w \in Seq(Chars) /\ v \in Seq(Chars)
  OBVIOUS
<1>2. x \o w = v \o l
  OBVIOUS
<1> HIDE DEF w, v
<1>3. (o \o x) \o w = o \o (x \o w)
  BY <1>1
<1>4. (o \o x) \o w = o \o (v \o l)
  BY <1>2, <1>3
<1> QED
  BY <1>4 DEF w, v

\* A piece and a special token leave what is not cut.
LEMMA MovedCut ==
  \A o, l, x, y, r \in Seq(Chars) : (o \o ((l \o x) \o y)) \o r = (o \o l) \o (x \o (y \o r))
<1> SUFFICES ASSUME NEW o \in Seq(Chars), NEW l \in Seq(Chars), NEW x \in Seq(Chars), NEW y \in Seq(Chars),
                    NEW r \in Seq(Chars)
             PROVE  (o \o ((l \o x) \o y)) \o r = (o \o l) \o (x \o (y \o r))
  BY Zenon
<1> DEFINE w == y \o r
           v == x \o y
           k == o \o l
<1>1. w \in Seq(Chars) /\ v \in Seq(Chars) /\ k \in Seq(Chars)
  OBVIOUS
<1>2. (l \o x) \o y = l \o v /\ x \o w = v \o r
  OBVIOUS
<1>3. o \o (l \o v) = k \o v
  <2> HIDE DEF v
  <2>1. v \in Seq(Chars)
    BY <1>1
  <2> QED
    BY <2>1
<1>4. (k \o v) \o r = k \o (v \o r)
  <2> HIDE DEF v, k
  <2> QED
    BY <1>1
<1> HIDE DEF k, v, w
<1>5. (o \o (l \o v)) \o r = k \o (x \o w)
  BY <1>2, <1>3, <1>4
<1> QED
  BY <1>2, <1>5 DEF k, w

\* The parts of the text that TkText puts together.
LEMMA Parts ==
  ASSUME TkTypes, TkPlaces
  PROVE  /\ input.text \in Seq(Chars) /\ Len(input.text) \in Nat
         /\ FlattenSeq(ids) \in Seq(Chars) /\ LeftOf(segs, at) \in Seq(Chars)
         /\ \A f \in 1 .. Len(input.text) + 1 : SubSeq(input.text, f, Len(input.text)) \in Seq(Chars)
         /\ \A out \in Seq(Seq(Chars)) : FlattenSeq(out) \in Seq(Chars)
<1>1. input.text \in Seq(Chars) /\ Len(input.text) \in Nat
  BY InputFields DEF TkTypes
<1>2. FlattenSeq(ids) \in Seq(Chars) /\ \A out \in Seq(Seq(Chars)) : FlattenSeq(out) \in Seq(Chars)
  BY FlattenType DEF TkTypes
<1>3. ASSUME NEW f \in 1 .. Len(input.text) + 1
      PROVE  SubSeq(input.text, f, Len(input.text)) \in Seq(Chars)
  <2>1. f \in f .. Len(input.text) + 1
    BY <1>1
  <2> QED
    BY <1>1, <2>1, CutAt
<1>4. LeftOf(segs, at) \in Seq(Chars)
  <2>1. CASE segs = <<>>
    <3>1. <<>> \in Seq(Chars)
      OBVIOUS
    <3> QED
      BY <2>1, <3>1 DEF LeftOf
  <2>2. CASE segs # <<>>
    <3> DEFINE c == Head(segs).chars
               x == SubSeq(c, at, Len(c))
               y == FlattenSeq(Texts(Tail(segs)))
    <3>1. at \in 1 .. Len(c) + 1
      <4>1. at \in Nat \ {0} /\ at <= Len(c) /\ c \in Seq(Chars)
        BY <2>2, FirstSegment DEF TkTypes, TkPlaces
      <4> HIDE DEF c
      <4> QED
        BY <4>1
    <3>2. LeftOf(segs, at) = x \o y /\ x \in Seq(Chars) /\ y \in Seq(Chars)
      BY <2>2, <3>1, LeftIs DEF TkTypes
    <3> HIDE DEF x, y
    <3> QED
      BY <3>2
  <2> QED
    BY <2>1, <2>2
<1> QED
  BY <1>1, <1>2, <1>3, <1>4

\* The invariant holds at the start.
LEMMA TkInit == TokenizerInit => TkInv
<1> SUFFICES ASSUME TokenizerInit PROVE TkInv
  OBVIOUS
<1>1. input.text \in Seq(Chars) /\ Len(input.text) \in Nat /\ input \in Inputs
  BY InputFields DEF TokenizerInit
<1>2. from = 1 /\ segs = <<>> /\ at = 1 /\ ids = <<>>
  BY DEF TokenizerInit
<1>3. TkTypes
  BY <1>1, <1>2 DEF TkTypes
<1>4. TkPlaces
  <2>1. CASE input.text = <<>>
    <3>1. tkAt = "done" /\ Len(input.text) = 0
      BY <2>1 DEF TokenizerInit
    <3> QED
      BY <1>2, <3>1 DEF TkPlaces
  <2>2. CASE input.text # <<>>
    <3>1. tkAt = "cut"
      BY <2>2 DEF TokenizerInit
    <3> QED
      BY <1>2, <3>1 DEF TkPlaces
  <2> QED
    BY <2>1, <2>2
<1>5. NoMarks
  BY <1>2 DEF NoMarks
<1>6. TkText
  <2> SUFFICES ASSUME input.text # <<>> PROVE allIds = <<Bos>> \o <<>> /\ Kept(<<>>, ids, LeftOf(segs, at), from)
    <3>1. <<>> \in Seq(Seq(Chars))
      OBVIOUS
    <3> QED
      BY <3>1 DEF TkText
  <2>1. allIds = <<Bos>> /\ <<Bos>> \o <<>> = <<Bos>>
    <3>1. <<Bos>> \in Seq({Bos})
      OBVIOUS
    <3> QED
      BY <3>1 DEF TokenizerInit
  <2>2. FlattenSeq(<<>>) = <<>> /\ LeftOf(segs, at) = <<>>
    BY <1>2, FlattenNothing DEF LeftOf
  <2>3. SubSeq(input.text, 1, Len(input.text)) = input.text /\ <<>> \o input.text = input.text
    BY <1>1
  <2>4. <<>> \o <<>> = <<>>
    OBVIOUS
  <2> QED
    BY <1>2, <2>1, <2>2, <2>3, <2>4 DEF Kept
<1> QED
  BY <1>3, <1>4, <1>5, <1>6 DEF TkInv

-----------------------------------------------------------------------------
(***************************************************************************)
(* The steps.                                                              *)
(***************************************************************************)
\* A single segment.
LEMMA OneText ==
  ASSUME NEW S, NEW s \in S
  PROVE  <<s>> \in Seq(S) /\ Texts(<<s>>) = <<s.chars>>
BY DEF Texts

\* What is left to show of TkText when the text stays.
LEMMA TextStaysSo ==
  ASSUME input' = input, NEW out \in Seq(Seq(Chars)), allIds' = <<Bos>> \o out,
         ((FlattenSeq(out) \o FlattenSeq(ids')) \o LeftOf(segs', at'))
           \o SubSeq(input.text, from', Len(input.text)) = input.text
  PROVE  TkText'
BY DEF TkText, Kept

\* Characters of the text that are cut into a segment of their own.
LEMMA Cut ==
  ASSUME input \in Inputs, from \in 1 .. Len(input.text) + 1, NEW hit \in from .. Len(input.text) + 1,
         \A k \in DOMAIN input.special : \A q \in from .. hit - 1 :
           ~StartsAt(input.special[k], q, input.text),
         NEW part, part = IF hit > from THEN <<Normal(SubSeq(input.text, from, hit - 1))>> ELSE <<>>
  PROVE  part \in Seq(Unmarked) /\ FlattenSeq(Texts(part)) = SubSeq(input.text, from, hit - 1)
<1> DEFINE x == SubSeq(input.text, from, hit - 1)
<1>0. input.text \in Seq(Chars) /\ Len(input.text) \in Nat /\ from \in Nat /\ hit \in Nat
  BY InputFields
<1>1. x \in Seq(Chars) /\ Len(x) = hit - from
  BY <1>0, CutAt
<1>2. CASE hit > from
  <2>1. x # <<>> /\ DOMAIN x = 1 .. hit - from
    <3> HIDE DEF x
    <3> QED
      BY <1>0, <1>1, <1>2
  <2>2. ASSUME NEW k \in DOMAIN input.special, NEW p \in DOMAIN x, StartsAt(input.special[k], p, x)
        PROVE  FALSE
    <3>1. input.special[k] \in Seq(Chars)
      BY InputFields
    <3>2. from + p - 1 \in from .. hit - 1 /\ StartsAt(input.special[k], from + p - 1, input.text)
      <4>1. p \in 1 .. hit - from
        BY <2>1
      <4> QED
        BY <1>0, <2>2, <3>1, <4>1, StartsInside
    <3> QED
      BY <3>2
  <2>3. Normal(x) \in Unmarked
    <3> HIDE DEF x
    <3>1. Normal(x) \in Segments /\ Normal(x).chars = x
      BY <1>1, <2>1 DEF Normal, Segments
    <3> QED
      BY <2>2, <3>1 DEF Unmarked
  <2>4. part = <<Normal(x)>>
    BY <1>2
  <2>5. Texts(part) = <<x>>
    <3> HIDE DEF x
    <3>1. Normal(x).chars = x
      BY DEF Normal
    <3> QED
      BY <2>3, <2>4, <3>1, OneText
  <2>6. FlattenSeq(<<x>>) = x
    BY <1>1, FlattenOne
  <2>7. part \in Seq(Unmarked)
    <3> HIDE DEF x
    <3> QED
      BY <2>3, <2>4, OneText
  <2> QED
    BY <2>5, <2>6, <2>7
<1>3. CASE ~(hit > from)
  <2>1. part = <<>> /\ x = <<>>
    <3>1. Len(x) = 0
      BY <1>0, <1>1, <1>3
    <3> HIDE DEF x
    <3> QED
      BY <1>1, <1>3, <3>1
  <2>2. Texts(part) = <<>>
    BY <2>1 DEF Texts
  <2>3. part \in Seq(Unmarked)
    BY <2>1
  <2> QED
    BY <2>1, <2>2, <2>3, FlattenNothing
<1> QED
  BY <1>2, <1>3

\* Cutting a special token, and what is before it, keeps the invariant.
LEMMA KeepsCutSpecial == TkInv /\ CutSpecial => TkInv'
<1> SUFFICES ASSUME TkInv, CutSpecial PROVE TkInv'
  OBVIOUS
<1> DEFINE b == BestSpecial(from)
           hit == Min(Hits(b, from))
           sp == input.special[b]
           e == hit + Len(sp)
           part == IF hit > from THEN <<Normal(SubSeq(input.text, from, hit - 1))>> ELSE <<>>
           x == SubSeq(input.text, from, hit - 1)
           rest == SubSeq(input.text, e, Len(input.text))
           L == LeftOf(segs, at)
<1> USE DEF TkInv
<1>1. /\ input \in Inputs /\ from \in 1 .. Len(input.text) + 1
      /\ segs \in Seq(Segments) /\ at = 1 /\ ids = <<>> /\ tkAt = "cut"
  BY DEF TkTypes, TkPlaces, CutSpecial
<1>2. input.text \in Seq(Chars) /\ Len(input.text) \in Nat /\ from \in Nat
  BY <1>1, InputFields
<1>3. /\ segs' = segs \o part \o <<Special(sp)>> /\ from' = e
      /\ input' = input /\ at' = at /\ ids' = ids /\ tkAt' = tkAt /\ allIds' = allIds
  BY DEF CutSpecial
<1>4. /\ b \in DOMAIN input.special /\ hit \in from .. Len(input.text)
      /\ StartsAt(sp, hit, input.text)
      /\ \A k \in DOMAIN input.special : \A q \in from .. hit - 1 :
           ~StartsAt(input.special[k], q, input.text)
  BY <1>1, BestIs DEF CutSpecial
<1> HIDE DEF b, hit, e
<1>5. sp \in Seq(Chars) /\ sp # <<>> /\ Len(sp) \in Nat /\ Len(sp) >= 1
  <2>1. sp \in Seq(Chars) \ {<<>>}
    BY <1>1, <1>4, InputFields
  <2> HIDE DEF sp
  <2> QED
    BY <2>1
<1> HIDE DEF sp
<1>6. e \in hit .. Len(input.text) + 1 /\ SubSeq(input.text, hit, e - 1) = sp /\ hit \in Nat
  BY <1>2, <1>4, <1>5 DEF StartsAt, e
<1>7. part \in Seq(Unmarked) /\ FlattenSeq(Texts(part)) = x
  <2>1. hit \in from .. Len(input.text) + 1
    BY <1>2, <1>4
  <2> QED
    BY <1>1, <1>4, <2>1, Cut
<1> HIDE DEF part
<1>8. Special(sp) \in Unmarked /\ Special(sp) \in Segments /\ Texts(<<Special(sp)>>) = <<sp>>
  <2>1. Special(sp) \in Segments
    BY <1>5 DEF Special, Segments
  <2>2. Special(sp) \in Unmarked /\ Special(sp).chars = sp
    BY <2>1 DEF Special, Unmarked
  <2> QED
    BY <2>1, <2>2, OneText
<1>9. segs' \in Seq(Unmarked) /\ Unmarked' = Unmarked /\ segs' # <<>>
  <2>1. segs \in Seq(Unmarked)
    BY DEF NoMarks
  <2>2. segs' \in Seq(Unmarked) /\ segs' # <<>>
    BY <1>3, <1>7, <1>8, <2>1
  <2>3. Unmarked' = Unmarked
    BY <1>3 DEF Unmarked
  <2> QED
    BY <2>2, <2>3
<1>10. segs' \in Seq(Segments) /\ part \in Seq(Segments)
  <2>1. Unmarked \subseteq Segments
    BY DEF Unmarked
  <2> QED
    BY <1>7, <1>9, <2>1, SeqWider
<1>11. TkTypes'
  BY <1>1, <1>2, <1>3, <1>4, <1>6, <1>10 DEF TkTypes
<1>12. TkPlaces'
  <2>1. Len(Head(segs').chars) >= 1
    BY <1>9, <1>10, FirstSegment
  <2> QED
    BY <1>1, <1>3, <2>1 DEF TkPlaces
<1>13. NoMarks'
  BY <1>9 DEF NoMarks
<1>14. LeftOf(segs', 1) = (L \o x) \o sp
  <2>1. segs \o part \in Seq(Segments) /\ <<Special(sp)>> \in Seq(Segments)
    BY <1>1, <1>8, <1>10, OneText
  <2>2. LeftOf(segs', 1) = LeftOf(segs \o part, 1) \o FlattenSeq(Texts(<<Special(sp)>>))
    BY <1>3, <2>1, LeftGrows
  <2>3. LeftOf(segs \o part, 1) = L \o x
    BY <1>1, <1>7, <1>10, LeftGrows
  <2>4. FlattenSeq(<<sp>>) = sp
    BY <1>5, FlattenOne
  <2> QED
    BY <1>8, <2>2, <2>3, <2>4
<1>15. SubSeq(input.text, from, Len(input.text)) = x \o (sp \o rest) /\ x \in Seq(Chars)
  <2>1. hit \in from .. Len(input.text) + 1 /\ hit \in 1 .. Len(input.text) + 1
    BY <1>1, <1>2, <1>4
  <2>2. /\ SubSeq(input.text, from, Len(input.text)) = x \o SubSeq(input.text, hit, Len(input.text))
        /\ x \in Seq(Chars)
    BY <1>1, <1>2, <2>1, CutAt
  <2>3. SubSeq(input.text, hit, Len(input.text)) = SubSeq(input.text, hit, e - 1) \o rest
    BY <1>2, <1>6, <2>1, CutAt
  <2> QED
    BY <1>6, <2>2, <2>3
<1>16. rest \in Seq(Chars) /\ L \in Seq(Chars)
  <2>1. e \in 1 .. Len(input.text) + 1
    BY <1>1, <1>2, <1>4, <1>6
  <2> QED
    BY <2>1, Parts
<1>17. TkText'
  <2> SUFFICES ASSUME input.text # <<>> PROVE TkText'
    BY <1>3 DEF TkText
  <2>1. PICK out \in Seq(Seq(Chars)) : allIds = <<Bos>> \o out /\ Kept(out, ids, LeftOf(segs, at), from)
    BY <1>1 DEF TkText
  <2> DEFINE o == FlattenSeq(out) \o FlattenSeq(ids)
  <2>2. o \in Seq(Chars)
    <3>1. FlattenSeq(out) \in Seq(Chars) /\ FlattenSeq(ids) \in Seq(Chars)
      BY Parts
    <3> QED
      BY <3>1, ConcatIs
  <2>3. (o \o L) \o (x \o (sp \o rest)) = input.text
    BY <1>15, <2>1 DEF Kept
  <2>4. (o \o ((L \o x) \o sp)) \o rest = input.text
    <3> HIDE DEF o, L, x, rest
    <3>1. (o \o ((L \o x) \o sp)) \o rest = (o \o L) \o (x \o (sp \o rest))
      <4>1. /\ o \in Seq(Chars) /\ L \in Seq(Chars) /\ x \in Seq(Chars) /\ sp \in Seq(Chars)
            /\ rest \in Seq(Chars)
        BY <1>5, <1>15, <1>16, <2>2
      <4>2. \A c, d, r \in Seq(Chars) : (o \o ((L \o c) \o d)) \o r = (o \o L) \o (c \o (d \o r))
        BY <4>1, MovedCut, Zenon
      <4>3. \A r \in Seq(Chars) : (o \o ((L \o x) \o sp)) \o r = (o \o L) \o (x \o (sp \o r))
        BY <4>1, <4>2, Zenon
      <4> QED
        BY <4>1, <4>3, Zenon
    <3> QED
      BY <2>3, <3>1
  <2>5. LeftOf(segs', at') = (L \o x) \o sp
    BY <1>1, <1>3, <1>14
  <2> QED
    BY <1>3, <2>1, <2>4, <2>5, TextStaysSo
<1> QED
  BY <1>11, <1>12, <1>13, <1>17

\* The empty sequence at either side.
LEMMA NothingAdded == \A o \in Seq(Chars) : o \o <<>> = o /\ <<>> \o o = o
OBVIOUS

\* Cutting what is behind the last special token keeps it.
LEMMA KeepsCutRest == TkInv /\ CutRest => TkInv'
<1> SUFFICES ASSUME TkInv, CutRest PROVE TkInv'
  OBVIOUS
<1> DEFINE hit == Len(input.text) + 1
           part == IF hit > from THEN <<Normal(SubSeq(input.text, from, hit - 1))>> ELSE <<>>
           x == SubSeq(input.text, from, Len(input.text))
           L == LeftOf(segs, at)
<1> USE DEF TkInv
<1>1. /\ input \in Inputs /\ from \in 1 .. Len(input.text) + 1
      /\ segs \in Seq(Segments) /\ at = 1 /\ ids = <<>> /\ tkAt = "cut"
  BY DEF TkTypes, TkPlaces, CutRest
<1>2. input.text \in Seq(Chars) /\ Len(input.text) \in Nat /\ from \in Nat
  BY <1>1, InputFields
<1>3. /\ from' = hit /\ tkAt' = "chunk" /\ input' = input /\ at' = at /\ ids' = ids /\ allIds' = allIds
      /\ segs' = IF from > Len(input.text) THEN segs
                 ELSE Append(segs, Normal(SubSeq(input.text, from, Len(input.text))))
  BY DEF CutRest
<1>4. \A k \in DOMAIN input.special : \A q \in from .. hit - 1 :
        ~StartsAt(input.special[k], q, input.text)
  <2> SUFFICES ASSUME NEW k \in DOMAIN input.special, NEW q \in from .. hit - 1,
                      StartsAt(input.special[k], q, input.text)
               PROVE  FALSE
    OBVIOUS
  <2>1. q \in from .. Len(input.text) /\ ~(from > Len(input.text))
    BY <1>2
  <2>2. Found(from) = {}
    BY <2>1 DEF CutRest
  <2> QED
    BY <2>1, <2>2 DEF Found, Hits
<1>5. hit \in from .. Len(input.text) + 1 /\ hit - 1 = Len(input.text) /\ hit \in Nat
  BY <1>1, <1>2
<1>6. part \in Seq(Unmarked) /\ FlattenSeq(Texts(part)) = x
  <2> HIDE DEF hit, part
  <2>1. part \in Seq(Unmarked) /\ FlattenSeq(Texts(part)) = SubSeq(input.text, from, hit - 1)
    BY <1>1, <1>4, <1>5, Cut DEF part
  <2> QED
    BY <1>5, <2>1
<1>7. segs' = segs \o part
  <2>1. CASE from > Len(input.text)
    <3>1. part = <<>> /\ segs' = segs
      BY <1>1, <1>2, <1>3, <2>1
    <3> QED
      BY <1>1, <3>1
  <2>2. CASE ~(from > Len(input.text))
    <3> DEFINE n == Normal(SubSeq(input.text, from, Len(input.text)))
    <3>1. part = <<n>> /\ segs' = Append(segs, n)
      BY <1>1, <1>2, <1>3, <2>2
    <3>2. n \in Unmarked
      <4> HIDE DEF n, part
      <4>1. part[1] \in Unmarked /\ part[1] = n
        BY <1>6, <3>1
      <4> QED
        BY <4>1
    <3> HIDE DEF n, part
    <3>3. n \in Segments
      BY <3>2 DEF Unmarked
    <3>4. Append(segs, n) = segs \o <<n>>
      BY <1>1, <3>3
    <3> QED
      BY <3>1, <3>4
  <2> QED
    BY <2>1, <2>2
<1> HIDE DEF part
<1>8. segs' \in Seq(Unmarked) /\ Unmarked' = Unmarked
  <2>1. segs \in Seq(Unmarked)
    BY DEF NoMarks
  <2>2. Unmarked' = Unmarked
    BY <1>3 DEF Unmarked
  <2> QED
    BY <1>6, <1>7, <2>1, <2>2
<1>9. segs' \in Seq(Segments) /\ part \in Seq(Segments)
  <2>1. Unmarked \subseteq Segments
    BY DEF Unmarked
  <2> QED
    BY <1>6, <1>8, <2>1, SeqWider
<1>10. TkTypes'
  BY <1>1, <1>2, <1>3, <1>5, <1>9 DEF TkTypes
<1>11. TkPlaces'
  <2>1. segs' # <<>> => Len(Head(segs').chars) >= 1
    BY <1>9, FirstSegment
  <2> QED
    BY <1>1, <1>3, <2>1 DEF TkPlaces
<1>12. NoMarks'
  BY <1>8 DEF NoMarks
<1>13. LeftOf(segs', at') = L \o x
  <2>1. LeftOf(segs \o part, 1) = L \o x
    BY <1>1, <1>6, <1>9, LeftGrows
  <2> QED
    BY <1>1, <1>3, <1>7, <2>1
<1>14. L \in Seq(Chars) /\ x \in Seq(Chars)
  BY <1>1, Parts
<1>15. SubSeq(input.text, from', Len(input.text)) = <<>>
  BY <1>2, <1>3
<1>16. TkText'
  <2> SUFFICES ASSUME input.text # <<>> PROVE TkText'
    BY <1>3 DEF TkText
  <2>1. PICK out \in Seq(Seq(Chars)) : allIds = <<Bos>> \o out /\ Kept(out, ids, LeftOf(segs, at), from)
    BY <1>1 DEF TkText
  <2> DEFINE o == FlattenSeq(out) \o FlattenSeq(ids)
  <2>2. o \in Seq(Chars)
    <3>1. FlattenSeq(out) \in Seq(Chars) /\ FlattenSeq(ids) \in Seq(Chars)
      BY Parts
    <3> QED
      BY <3>1, ConcatIs
  <2>3. (o \o L) \o x = input.text
    BY <2>1 DEF Kept
  <2>4. (o \o (L \o x)) \o <<>> = input.text
    <3> HIDE DEF o, L, x
    <3>1. (o \o L) \o x = o \o (L \o x)
      BY <1>14, <2>2, MovedToken
    <3> QED
      BY <1>2, <2>3, <3>1, NothingAdded
  <2> QED
    BY <1>3, <1>13, <1>15, <2>1, <2>4, TextStaysSo
<1> QED
  BY <1>10, <1>11, <1>12, <1>16

\* A special segment that becomes a token keeps it.
LEMMA KeepsEmitSpecial == TkInv /\ EmitSpecial => TkInv'
<1> SUFFICES ASSUME TkInv, EmitSpecial PROVE TkInv'
  OBVIOUS
<1> DEFINE c == Head(segs).chars
           rest == FlattenSeq(Texts(Tail(segs)))
           R == SubSeq(input.text, from, Len(input.text))
<1> USE DEF TkInv
<1>1. /\ input \in Inputs /\ segs \in Seq(Segments) /\ segs # <<>> /\ at = 1 /\ ids = <<>>
      /\ tkAt = "chunk" /\ from \in 1 .. Len(input.text) + 1
  BY DEF TkTypes, TkPlaces, EmitSpecial
<1>2. /\ allIds' = Append(allIds, c) /\ segs' = Tail(segs) /\ input' = input /\ tkAt' = tkAt
      /\ from' = from /\ at' = at /\ ids' = ids
  BY DEF EmitSpecial
<1>3. c \in Seq(Chars) /\ Len(c) >= 1 /\ Tail(segs) \in Seq(Segments)
  BY <1>1, FirstSegment
<1>4. TkTypes'
  BY <1>2, <1>3 DEF TkTypes
<1>5. TkPlaces'
  <2>1. segs' # <<>> => Len(Head(segs').chars) >= 1
    BY <1>2, <1>3, FirstSegment
  <2> QED
    BY <1>1, <1>2, <2>1 DEF TkPlaces
<1>6. NoMarks'
  <2>1. segs \in Seq(Unmarked)
    BY DEF NoMarks
  <2>2. Tail(segs) \in Seq(Unmarked)
    BY <1>1, <2>1
  <2>3. Unmarked' = Unmarked
    BY <1>2 DEF Unmarked
  <2> QED
    BY <1>2, <2>2, <2>3 DEF NoMarks
<1>7. /\ LeftOf(segs, at) = c \o rest /\ rest \in Seq(Chars)
      /\ LeftOf(segs', at') = rest
  <2>1. LeftOf(segs, 1) = SubSeq(c, 1, Len(c)) \o rest /\ rest \in Seq(Chars)
    <3>1. 1 \in 1 .. Len(c) + 1
      BY <1>3
    <3> QED
      BY <1>1, <3>1, LeftIs
  <2>2. SubSeq(c, 1, Len(c)) = c
    <3> HIDE DEF c
    <3> QED
      BY <1>3
  <2>3. LeftOf(Tail(segs), 1) = rest
    BY <1>3, LeftFromStart
  <2> QED
    BY <1>1, <1>2, <2>1, <2>2, <2>3
<1>8. TkText'
  <2> SUFFICES ASSUME input.text # <<>> PROVE TkText'
    BY <1>2 DEF TkText
  <2>1. PICK out \in Seq(Seq(Chars)) : allIds = <<Bos>> \o out /\ Kept(out, ids, LeftOf(segs, at), from)
    BY <1>1 DEF TkText
  <2> DEFINE o == FlattenSeq(out)
             next == Append(out, c)
  <2>2. o \in Seq(Chars) /\ next \in Seq(Seq(Chars)) /\ FlattenSeq(next) = o \o c
    <3>1. o \in Seq(Chars)
      BY Parts
    <3> HIDE DEF c
    <3>2. FlattenSeq(next) = o \o c
      BY <1>3, FlattenAppend
    <3>3. next \in Seq(Seq(Chars))
      BY <1>3
    <3> HIDE DEF o, next
    <3> QED
      BY <3>1, <3>2, <3>3
  <2>3. allIds' = <<Bos>> \o next
    BY <1>2, <1>3, <2>1, BehindBos
  <2> HIDE DEF next
  <2>4. FlattenSeq(ids) = <<>> /\ FlattenSeq(ids') = <<>>
    BY <1>1, <1>2, FlattenNothing
  <2>5. ((o \o <<>>) \o (c \o rest)) \o R = input.text
    BY <1>7, <2>1, <2>4 DEF Kept
  <2>6. (((o \o c) \o <<>>) \o rest) \o R = input.text
    <3> HIDE DEF o, c, rest, R
    <3>1. o \o c \in Seq(Chars)
      BY <1>3, <2>2, ConcatIs
    <3>2. o \o <<>> = o /\ (o \o c) \o <<>> = o \o c
      BY <2>2, <3>1, NothingAdded
    <3>3. (o \o c) \o rest = o \o (c \o rest)
      BY <1>3, <1>7, <2>2, MovedToken
    <3> QED
      BY <2>5, <3>2, <3>3
  <2> QED
    BY <1>2, <1>7, <2>2, <2>3, <2>4, <2>6, TextStaysSo
<1> QED
  BY <1>4, <1>5, <1>6, <1>8

\* The end keeps it.
LEMMA KeepsEncodeEnds == TkInv /\ EncodeEnds => TkInv'
<1> SUFFICES ASSUME TkInv, EncodeEnds PROVE TkInv'
  OBVIOUS
<1> USE DEF TkInv
<1>1. /\ segs = <<>> /\ tkAt = "chunk" /\ tkAt' = "done"
      /\ UNCHANGED <<input, from, segs, at, ids, iters, allIds>>
  BY DEF EncodeEnds
<1>2. TkTypes'
  BY <1>1 DEF TkTypes
<1>3. TkPlaces'
  BY <1>1 DEF TkPlaces
<1>4. NoMarks'
  BY <1>1 DEF NoMarks, Unmarked
<1>5. TkText'
  <2> SUFFICES ASSUME input.text # <<>> PROVE TkText'
    BY <1>1 DEF TkText
  <2>1. PICK out \in Seq(Seq(Chars)) : allIds = <<Bos>> \o out /\ Kept(out, ids, LeftOf(segs, at), from)
    BY <1>1 DEF TkText
  <2>2. Kept(out, ids, LeftOf(segs, at), from)'
    BY <1>1, <2>1 DEF Kept
  <2> QED
    BY <1>1, <2>1, <2>2 DEF TkText
<1> QED
  BY <1>2, <1>3, <1>4, <1>5

\* The characters of a chunk, each a token.
LEMMA Pieces ==
  ASSUME NEW t \in Seq(Chars), NEW a \in 1 .. Len(t), NEW end \in a + 1 .. Len(t) + 1,
         NEW pieces, pieces = [i \in 1 .. end - a |-> <<t[a + i - 1]>>]
  PROVE  pieces \in Seq(Seq(Chars)) /\ FlattenSeq(pieces) = SubSeq(t, a, end - 1)
<1> DEFINE x == SubSeq(t, a, end - 1)
<1>1. x \in Seq(Chars) /\ Len(x) = end - a /\ \A i \in 1 .. end - a : x[i] = t[a + i - 1]
  <2>1. a \in 1 .. Len(t) + 1 /\ end \in a .. Len(t) + 1
    OBVIOUS
  <2> QED
    BY <2>1, CutAt
<1> HIDE DEF x
<1>2. pieces = [i \in 1 .. Len(x) |-> <<x[i]>>]
  BY <1>1
<1>3. \A i \in 1 .. Len(x) : <<x[i]>> \in Seq(Chars)
  BY <1>1
<1>4. pieces \in Seq(Seq(Chars))
  <2>1. Len(x) \in Nat
    BY <1>1
  <2>2. pieces \in [1 .. Len(x) -> Seq(Chars)]
    BY <1>2, <1>3
  <2> QED
    BY <2>1, <2>2
<1>5. FlattenSeq(pieces) = x
  BY <1>1, <1>2, FlattenSingles
<1> QED
  BY <1>4, <1>5 DEF x

\* A chunk that is split off, known or not, keeps it.
LEMMA KeepsNextChunk == TkInv /\ NextChunk => TkInv'
<1> SUFFICES ASSUME TkInv, NextChunk PROVE TkInv'
  OBVIOUS
<1> DEFINE t == Head(segs).chars
           end == ChunkEnd(t, at)
           pieces == [i \in 1 .. end - at |-> <<t[at + i - 1]>>]
           x == SubSeq(t, at, end - 1)
           y == SubSeq(t, end, Len(t))
           rest == FlattenSeq(Texts(Tail(segs)))
           R == SubSeq(input.text, from, Len(input.text))
           fine == \A i \in DOMAIN pieces : pieces[i][1] \in input.known
<1> USE DEF TkInv
<1>1. /\ input \in Inputs /\ segs \in Seq(Segments) /\ segs # <<>> /\ ids = <<>>
      /\ from \in 1 .. Len(input.text) + 1 /\ from = Len(input.text) + 1
      /\ tkAt = "chunk" /\ ~Head(segs).special /\ at \in Nat \ {0} /\ at <= Len(t)
  BY DEF TkTypes, TkPlaces, NextChunk
<1>2. t \in Seq(Chars) /\ Len(t) \in Nat /\ Tail(segs) \in Seq(Segments) /\ at \in 1 .. Len(t)
  <2>1. t \in Seq(Chars) /\ Tail(segs) \in Seq(Segments)
    BY <1>1, FirstSegment
  <2> HIDE DEF t
  <2> QED
    BY <1>1, <2>1
<1>3. end \in at + 1 .. Len(t) + 1 /\ end \in Nat
  <2> HIDE DEF t
  <2>1. end \in at + 1 .. Len(t) + 1
    BY <1>2, ChunkEndInText
  <2> HIDE DEF end
  <2> QED
    BY <1>2, <2>1
<1>4. input' = input /\ from' = from
  BY DEF NextChunk
<1>5. fine => /\ ids' = pieces /\ tkAt' = "merge" /\ allIds' = allIds
              /\ IF end > Len(t) THEN segs' = Tail(segs) /\ at' = 1 ELSE at' = end /\ segs' = segs
  BY DEF NextChunk
<1>6. ~fine => tkAt' = "failed" /\ ids' = ids /\ segs' = segs /\ at' = at
  BY DEF NextChunk
<1> HIDE DEF fine, end, t
<1>7. pieces \in Seq(Seq(Chars)) /\ FlattenSeq(pieces) = x
  BY <1>2, <1>3, Pieces
<1> HIDE DEF pieces
<1>8. TkTypes'
  <2>1. at' \in Nat \ {0} /\ segs' \in Seq(Segments) /\ ids' \in Seq(Seq(Chars))
    <3>1. CASE ~fine
      <4>1. ids \in Seq(Seq(Chars))
        BY DEF TkTypes
      <4> QED
        BY <1>1, <1>6, <3>1, <4>1
    <3>2. CASE fine
      <4>1. at' = 1 \/ at' = end
        BY <1>5, <3>2
      <4>2. at' \in Nat \ {0}
        BY <1>2, <1>3, <4>1
      <4>3. segs' = Tail(segs) \/ segs' = segs
        BY <1>5, <3>2
      <4> QED
        BY <1>1, <1>2, <1>5, <1>7, <3>2, <4>2, <4>3
    <3> QED
      BY <3>1, <3>2
  <2> QED
    BY <1>1, <1>4, <2>1 DEF TkTypes
<1>9. TkPlaces'
  <2>1. CASE ~fine
    BY <1>1, <1>4, <1>6, <2>1 DEF TkPlaces, t
  <2>2. CASE fine /\ end > Len(t)
    <3>1. segs' # <<>> => Len(Head(segs').chars) >= 1
      BY <1>2, <1>5, <2>2, FirstSegment
    <3> QED
      BY <1>1, <1>4, <1>5, <2>2, <3>1 DEF TkPlaces
  <2>3. CASE fine /\ ~(end > Len(t))
    <3>1. segs' = segs /\ at' = end /\ end <= Len(t)
      BY <1>2, <1>3, <1>5, <2>3
    <3> QED
      BY <1>1, <1>4, <1>5, <2>3, <3>1 DEF TkPlaces, t
  <2> QED
    BY <2>1, <2>2, <2>3
<1>10. NoMarks'
  <2>1. segs \in Seq(Unmarked)
    BY DEF NoMarks
  <2>2. Tail(segs) \in Seq(Unmarked)
    BY <1>1, <2>1
  <2>3. Unmarked' = Unmarked
    BY <1>4 DEF Unmarked
  <2>4. segs' = segs \/ segs' = Tail(segs)
    BY <1>5, <1>6
  <2> QED
    BY <2>1, <2>2, <2>3, <2>4 DEF NoMarks
<1>11. LeftOf(segs, at) = (x \o y) \o rest /\ x \in Seq(Chars) /\ y \in Seq(Chars) /\ rest \in Seq(Chars)
  <2>1. at \in 1 .. Len(t) + 1 /\ end \in at .. Len(t) + 1
    BY <1>2, <1>3
  <2>2. LeftOf(segs, at) = SubSeq(t, at, Len(t)) \o rest /\ rest \in Seq(Chars)
    BY <1>1, <2>1, LeftIs DEF t
  <2>3. SubSeq(t, at, Len(t)) = x \o y /\ x \in Seq(Chars) /\ y \in Seq(Chars)
    BY <1>2, <2>1, CutAt
  <2> QED
    BY <2>2, <2>3
<1>12. fine => LeftOf(segs', at') = y \o rest
  <2>1. CASE fine /\ end > Len(t)
    <3>1. LeftOf(segs', at') = rest
      BY <1>2, <1>5, <2>1, LeftFromStart
    <3>2. y = <<>>
      BY <1>2, <1>3, <2>1
    <3> QED
      BY <1>11, <3>1, <3>2, NothingAdded
  <2>2. CASE fine /\ ~(end > Len(t))
    <3>1. end \in 1 .. Len(t) + 1
      BY <1>2, <1>3
    <3>2. LeftOf(segs, end) = y \o rest
      BY <1>1, <3>1, LeftIs DEF t
    <3> QED
      BY <1>5, <2>2, <3>2
  <2> QED
    BY <2>1, <2>2
<1>13. TkText'
  <2> SUFFICES ASSUME input.text # <<>>, fine PROVE TkText'
    BY <1>4, <1>6 DEF TkText
  <2>1. PICK out \in Seq(Seq(Chars)) : allIds = <<Bos>> \o out /\ Kept(out, ids, LeftOf(segs, at), from)
    BY <1>1 DEF TkText
  <2> DEFINE o == FlattenSeq(out)
  <2>2. o \in Seq(Chars)
    BY Parts
  <2>3. FlattenSeq(ids) = <<>> /\ FlattenSeq(ids') = x
    BY <1>1, <1>5, <1>7, FlattenNothing
  <2>4. ((o \o <<>>) \o ((x \o y) \o rest)) \o R = input.text
    BY <1>11, <2>1, <2>3 DEF Kept
  <2>5. ((o \o x) \o (y \o rest)) \o R = input.text
    <3> HIDE DEF o, x, y, rest, R
    <3>1. o \o <<>> = o
      BY <2>2, NothingAdded
    <3>2. \A l, c, d \in Seq(Chars) : (o \o c) \o (d \o l) = o \o ((c \o d) \o l)
      BY <2>2, MovedChunk, Zenon
    <3>3. \A c, d \in Seq(Chars) : (o \o c) \o (d \o rest) = o \o ((c \o d) \o rest)
      BY <1>11, <3>2, Zenon
    <3>4. (o \o x) \o (y \o rest) = o \o ((x \o y) \o rest)
      BY <1>11, <3>3, Zenon
    <3> QED
      BY <2>4, <3>1, <3>4
  <2> QED
    BY <1>4, <1>5, <1>12, <2>1, <2>3, <2>5, TextStaysSo
<1> QED
  BY <1>8, <1>9, <1>10, <1>13

\* Two tokens that become one stand for the same characters.
LEMMA MergedText ==
  ASSUME ids \in Seq(Seq(Chars)), NEW i \in 1 .. Len(ids) - 1, NEW merged,
         merged = SubSeq(ids, 1, i - 1) \o <<ids[i] \o ids[i + 1]>> \o SubSeq(ids, i + 2, Len(ids))
  PROVE  merged \in Seq(Seq(Chars)) /\ FlattenSeq(merged) = FlattenSeq(ids)
<1> DEFINE S == Seq(Chars)
           n == Len(ids)
           x == SubSeq(ids, 1, i - 1)
           m == SubSeq(ids, i, n)
           y == SubSeq(ids, i + 2, n)
           pair == <<ids[i], ids[i + 1]>>
           one == <<ids[i] \o ids[i + 1]>>
<1>1. n \in Nat /\ i \in Nat /\ ids[i] \in S /\ ids[i + 1] \in S
  OBVIOUS
<1>2. 1 \in 1 .. n + 1 /\ i \in 1 .. n + 1 /\ i + 2 \in i .. n + 1
  OBVIOUS
<1>3. SubSeq(ids, 1, n) = x \o m /\ x \in Seq(S) /\ m \in Seq(S)
  BY <1>2, CutAt
<1>4. SubSeq(ids, 1, n) = ids
  OBVIOUS
<1>5. m = pair \o y /\ y \in Seq(S)
  <2> DEFINE e == i + 2
  <2>1. e \in i .. n + 1 /\ e - i = 2
    BY <1>1
  <2> HIDE DEF e
  <2>2. /\ m = SubSeq(ids, i, e - 1) \o SubSeq(ids, e, n) /\ SubSeq(ids, i, e - 1) \in Seq(S)
        /\ SubSeq(ids, e, n) \in Seq(S) /\ Len(SubSeq(ids, i, e - 1)) = 2
        /\ \A k \in 1 .. 2 : SubSeq(ids, i, e - 1)[k] = ids[i + k - 1]
    BY <1>2, <2>1, CutAt
  <2>3. SubSeq(ids, i, e - 1) = pair
    <3> DEFINE w == SubSeq(ids, i, e - 1)
    <3>1. w \in Seq(S) /\ Len(w) = 2 /\ w[1] = ids[i] /\ w[2] = ids[i + 1]
      <4>1. \A k \in 1 .. 2 : w[k] = ids[i + k - 1]
        BY <2>2
      <4>2. w[1] = ids[i + 1 - 1] /\ w[2] = ids[i + 2 - 1]
        <5> HIDE DEF w
        <5> QED
          BY <4>1
      <4>3. i + 1 - 1 = i /\ i + 2 - 1 = i + 1
        BY <1>1
      <4> QED
        BY <2>2, <4>2, <4>3
    <3> HIDE DEF w
    <3>2. w = <<w[1], w[2]>>
      BY <3>1
    <3> QED
      BY <3>1, <3>2 DEF w
  <2> QED
    BY <2>2, <2>3 DEF e
<1> HIDE DEF m, x, y, n, S
<1>6. pair \in Seq(S) /\ one \in Seq(S) /\ FlattenSeq(pair) = FlattenSeq(one)
  <2> DEFINE a == ids[i]
             b == ids[i + 1]
  <2>1. a \in Seq(Chars) /\ b \in Seq(Chars)
    BY <1>1 DEF S
  <2> HIDE DEF a, b
  <2>2. <<a>> \in Seq(Seq(Chars)) /\ a \o b \in Seq(Chars) /\ <<a, b>> = Append(<<a>>, b)
    BY <2>1
  <2>3. FlattenSeq(<<a, b>>) = a \o b
    BY <2>1, <2>2, FlattenAppend, FlattenOne
  <2>4. FlattenSeq(<<a \o b>>) = a \o b
    BY <2>2, FlattenOne
  <2>5. <<a, b>> \in Seq(Seq(Chars)) /\ <<a \o b>> \in Seq(Seq(Chars))
    BY <2>1, <2>2
  <2> QED
    BY <2>3, <2>4, <2>5 DEF a, b, S
<1> HIDE DEF pair, one
<1>7. ids = x \o (pair \o y)
  BY <1>3, <1>4, <1>5
<1>8. merged = (x \o one) \o y
  BY DEF x, y, n, one
<1>9. FlattenSeq(ids) = FlattenSeq(x) \o (FlattenSeq(pair) \o FlattenSeq(y))
  <2>1. pair \o y \in Seq(S) /\ FlattenSeq(pair \o y) = FlattenSeq(pair) \o FlattenSeq(y)
    BY <1>5, <1>6, FlattenConcat, ConcatIs DEF S
  <2>2. FlattenSeq(x \o (pair \o y)) = FlattenSeq(x) \o FlattenSeq(pair \o y)
    <3> DEFINE z == pair \o y
    <3> HIDE DEF z
    <3>1. z \in Seq(S)
      BY <2>1 DEF z
    <3>2. FlattenSeq(x \o z) = FlattenSeq(x) \o FlattenSeq(z)
      BY <1>3, <3>1, FlattenConcat DEF S
    <3> QED
      BY <3>2 DEF z
  <2> QED
    BY <1>7, <2>1, <2>2
<1>10. /\ merged \in Seq(S)
       /\ FlattenSeq(merged) = (FlattenSeq(x) \o FlattenSeq(one)) \o FlattenSeq(y)
  <2> DEFINE z == x \o one
  <2>1. z \in Seq(S) /\ FlattenSeq(z) = FlattenSeq(x) \o FlattenSeq(one)
    BY <1>3, <1>6, FlattenConcat, ConcatIs DEF S
  <2> HIDE DEF z
  <2>2. z \o y \in Seq(S) /\ FlattenSeq(z \o y) = FlattenSeq(z) \o FlattenSeq(y)
    BY <1>5, <2>1, FlattenConcat, ConcatIs DEF S
  <2> QED
    BY <1>8, <2>1, <2>2 DEF z
<1>11. (FlattenSeq(x) \o FlattenSeq(one)) \o FlattenSeq(y)
         = FlattenSeq(x) \o (FlattenSeq(one) \o FlattenSeq(y))
  <2>1. FlattenSeq(x) \in Seq(Chars) /\ FlattenSeq(one) \in Seq(Chars) /\ FlattenSeq(y) \in Seq(Chars)
    BY <1>3, <1>5, <1>6, FlattenType DEF S
  <2> QED
    BY <2>1, MovedToken
<1> QED
  BY <1>6, <1>9, <1>10, <1>11 DEF S

\* A merge keeps it.
LEMMA KeepsMerge == TkInv /\ Merge => TkInv'
<1> SUFFICES ASSUME TkInv, Merge PROVE TkInv'
  OBVIOUS
<1> USE DEF TkInv
<1>1. /\ input \in Inputs /\ ids \in Seq(Seq(Chars)) /\ tkAt = "merge" /\ Mergeable # {}
      /\ UNCHANGED <<input, tkAt, from, segs, at, allIds>>
  BY DEF TkTypes, Merge, MayMerge
<1> DEFINE i == BestPair
<1>2. ids' = SubSeq(ids, 1, i - 1) \o <<ids[i] \o ids[i + 1]>> \o SubSeq(ids, i + 2, Len(ids))
  BY DEF Merge
<1>3. i \in 1 .. Len(ids) - 1
  BY <1>1, BestPairIs
<1> HIDE DEF i
<1>4. ids' \in Seq(Seq(Chars)) /\ FlattenSeq(ids') = FlattenSeq(ids)
  BY <1>1, <1>2, <1>3, MergedText
<1>5. TkTypes'
  BY <1>1, <1>4 DEF TkTypes
<1>6. TkPlaces'
  BY <1>1 DEF TkPlaces
<1>7. NoMarks'
  BY <1>1 DEF NoMarks, Unmarked
<1>8. TkText'
  <2> SUFFICES ASSUME input.text # <<>> PROVE TkText'
    BY <1>1 DEF TkText
  <2>1. PICK out \in Seq(Seq(Chars)) : allIds = <<Bos>> \o out /\ Kept(out, ids, LeftOf(segs, at), from)
    BY <1>1 DEF TkText
  <2> QED
    BY <1>1, <1>4, <2>1, TextStaysSo DEF Kept
<1> QED
  BY <1>5, <1>6, <1>7, <1>8

\* The tokens of a chunk that move to all_ids keep it.
LEMMA KeepsEndChunk == TkInv /\ EndChunk => TkInv'
<1> SUFFICES ASSUME TkInv, EndChunk PROVE TkInv'
  OBVIOUS
<1> DEFINE L == LeftOf(segs, at)
           R == SubSeq(input.text, from, Len(input.text))
<1> USE DEF TkInv
<1>1. /\ ids \in Seq(Seq(Chars)) /\ tkAt = "merge" /\ tkAt' = "chunk"
      /\ allIds' = allIds \o ids /\ ids' = <<>>
      /\ UNCHANGED <<input, from, segs, at>>
  BY DEF TkTypes, EndChunk
<1>2. TkTypes'
  BY <1>1 DEF TkTypes
<1>3. TkPlaces'
  BY <1>1 DEF TkPlaces
<1>4. NoMarks'
  BY <1>1 DEF NoMarks, Unmarked
<1>5. TkText'
  <2> SUFFICES ASSUME input.text # <<>> PROVE TkText'
    BY <1>1 DEF TkText
  <2>1. PICK out \in Seq(Seq(Chars)) : allIds = <<Bos>> \o out /\ Kept(out, ids, LeftOf(segs, at), from)
    BY <1>1 DEF TkText
  <2> DEFINE o == FlattenSeq(out)
             c == FlattenSeq(ids)
             next == out \o ids
  <2>2. allIds' = <<Bos>> \o next
    BY <1>1, <2>1, BehindBos
  <2>3. next \in Seq(Seq(Chars)) /\ FlattenSeq(next) = o \o c
    BY <1>1, FlattenConcat, ConcatIs
  <2>4. o \in Seq(Chars) /\ c \in Seq(Chars)
    BY Parts
  <2>5. ((o \o c) \o L) \o R = input.text
    BY <2>1 DEF Kept
  <2>6. (((o \o c) \o <<>>) \o L) \o R = input.text
    <3> HIDE DEF o, c, L, R
    <3>1. o \o c \in Seq(Chars)
      BY <2>4, ConcatIs
    <3> QED
      BY <2>5, <3>1, NothingAdded
  <2>7. FlattenSeq(ids') = <<>>
    BY <1>1, FlattenNothing
  <2> HIDE DEF next
  <2> QED
    BY <1>1, <2>2, <2>3, <2>6, <2>7, TextStaysSo
<1> QED
  BY <1>2, <1>3, <1>4, <1>5

\* A step of nothing keeps it.
LEMMA TkStutter == TkInv /\ UNCHANGED tokenizerVars => TkInv'
BY DEF TkInv, TkTypes, TkPlaces, NoMarks, Unmarked, TkText, Kept, tokenizerVars

\* In every reachable state of rcpp_tokenizer_encode() the tokens behind the BOS, those of
\* the current chunk, what is left of the segments and what is not cut yet make the text.
THEOREM TkInvariant == TokenizerSpec => []TkInv
<1>1. TkInv /\ [TokenizerNext]_tokenizerVars => TkInv'
  BY KeepsCutSpecial, KeepsCutRest, KeepsNextChunk, KeepsEmitSpecial, KeepsEncodeEnds,
     KeepsMerge, KeepsEndChunk, TkStutter DEF TokenizerNext
<1> QED
  BY <1>1, TkInit, PTL DEF TokenizerSpec

\* For every text and every set of contractions: where not two blanks stand one after
\* another the six patterns with their fall-throughs and the fallback of
\* llama3_pre_tokenize() end the chunk where the cl100k_base expression ends its match.
THEOREM SingleBlanksAsExpression == TokenizerSpec => []SingleBlanksMatchRegex
<1>1. TkInv => SingleBlanksMatchRegex
  <2> SUFFICES ASSUME TkInv, AtChunk, ~(\A i \in at .. at + 1 : IsAt(Head(segs).chars, i, Blanks))
               PROVE  ChunkEnd(Head(segs).chars, at) = RegexEnd(Head(segs).chars, at)
    BY DEF SingleBlanksMatchRegex
  <2> DEFINE t == Head(segs).chars
  <2>1. t \in Seq(Chars) /\ at \in 1 .. Len(t)
    <3>1. t \in Seq(Chars) /\ at \in Nat \ {0} /\ at <= Len(t)
      BY FirstSegment DEF TkInv, TkTypes, TkPlaces, AtChunk
    <3> HIDE DEF t
    <3> QED
      BY <3>1
  <2>2. Llama3End(t, at) = RegexEnd(t, at)
    BY <2>1, EndsAgree
  <2> QED
    BY <2>2 DEF ChunkEnd, AtChunk
<1> QED
  BY <1>1, TkInvariant, PTL

\* For every text, vocabulary and list of special tokens encoding loses, doubles and moves
\* nothing, and leaves no special token in a segment that it splits.
THEOREM TextStays == TokenizerSpec => []TextIsKept
<1>1. TkInv => TextIsKept
  <2> SUFFICES ASSUME TkInv, input.text # <<>>, tkAt # "failed"
               PROVE  /\ FlattenSeq(Tail(allIds)) \o FlattenSeq(ids) \o LeftInSegments
                           \o SubSeq(input.text, from, Len(input.text)) = input.text
                      /\ \A i \in DOMAIN segs : ~segs[i].special =>
                           \A k \in DOMAIN input.special : \A p \in DOMAIN segs[i].chars :
                             ~StartsAt(input.special[k], p, segs[i].chars)
    BY DEF TextIsKept
  <2>1. PICK out \in Seq(Seq(Chars)) : allIds = <<Bos>> \o out /\ Kept(out, ids, LeftOf(segs, at), from)
    BY DEF TkInv, TkText
  <2>2. Tail(allIds) = out
    BY <2>1, BehindBos
  <2>3. LeftInSegments = LeftOf(segs, at)
    BY DEF LeftInSegments, LeftOf
  <2>4. segs \in Seq(Unmarked)
    BY DEF TkInv, NoMarks
  <2>5. \A i \in DOMAIN segs : segs[i] \in Unmarked
    BY <2>4
  <2> QED
    BY <2>1, <2>2, <2>3, <2>5 DEF Kept, Unmarked
<1> QED
  BY <1>1, TkInvariant, PTL

\* What rcpp_tokenizer_encode() returns stands for the text it was given, behind the BOS.
THEOREM TokensAreTheText ==
  TokenizerSpec => [](tkAt = "done" /\ input.text # <<>> => FlattenSeq(Tail(allIds)) = input.text)
<1>1. TkInv => (tkAt = "done" /\ input.text # <<>> => FlattenSeq(Tail(allIds)) = input.text)
  <2> SUFFICES ASSUME TkInv, tkAt = "done", input.text # <<>>
               PROVE  FlattenSeq(Tail(allIds)) = input.text
    OBVIOUS
  <2>1. PICK out \in Seq(Seq(Chars)) : allIds = <<Bos>> \o out /\ Kept(out, ids, LeftOf(segs, at), from)
    BY DEF TkInv, TkText
  <2>2. ids = <<>> /\ segs = <<>> /\ from = Len(input.text) + 1
    BY DEF TkInv, TkPlaces
  <2>3. input.text \in Seq(Chars) /\ FlattenSeq(out) \in Seq(Chars) /\ Tail(allIds) = out
    BY <2>1, BehindBos, Parts DEF TkInv
  <2>4. FlattenSeq(ids) = <<>> /\ LeftOf(segs, at) = <<>> /\ SubSeq(input.text, from, Len(input.text)) = <<>>
    BY <2>2, <2>3, FlattenNothing DEF LeftOf
  <2> QED
    BY <2>1, <2>3, <2>4, NothingAdded DEF Kept
<1> QED
  BY <1>1, TkInvariant, PTL

-----------------------------------------------------------------------------
(***************************************************************************)
(* The bound of the merge loop.                                            *)
(***************************************************************************)
\* As many iterations are left as there are tokens, or more.
ItersLeft == tkAt = "merge" => iters \in Nat /\ Len(ids) <= iters

\* How long the rest of a sequence is.
LEMMA RestLength ==
  ASSUME NEW S, NEW u \in Seq(S), NEW b \in 1 .. Len(u) + 1
  PROVE  SubSeq(u, b, Len(u)) \in Seq(S) /\ Len(SubSeq(u, b, Len(u))) = Len(u) + 1 - b
OBVIOUS

\* A merge makes one token less.
LEMMA MergedLength ==
  ASSUME ids \in Seq(Seq(Chars)), NEW i \in 1 .. Len(ids) - 1, NEW merged,
         merged = SubSeq(ids, 1, i - 1) \o <<ids[i] \o ids[i + 1]>> \o SubSeq(ids, i + 2, Len(ids))
  PROVE  Len(merged) = Len(ids) - 1
<1> DEFINE x == SubSeq(ids, 1, i - 1)
           pair == ids[i] \o ids[i + 1]
           one == <<pair>>
           e == i + 2
           y == SubSeq(ids, e, Len(ids))
<1>1. Len(ids) \in Nat /\ i \in Nat /\ ids[i] \in Seq(Chars) /\ ids[i + 1] \in Seq(Chars)
  OBVIOUS
<1>2. x \in Seq(Seq(Chars)) /\ Len(x) = i - 1
  <2>1. 1 \in 1 .. Len(ids) + 1 /\ i \in 1 .. Len(ids) + 1
    OBVIOUS
  <2> QED
    BY <2>1, CutAt
<1>3. one \in Seq(Seq(Chars)) /\ Len(one) = 1
  <2>1. pair \in Seq(Chars)
    BY <1>1, ConcatIs
  <2> HIDE DEF pair
  <2> QED
    BY <2>1
<1>4. e \in 1 .. Len(ids) + 1 /\ e = i + 2
  BY <1>1
<1>5. merged = (x \o one) \o y
  OBVIOUS
<1> HIDE DEF x, one, e
<1>6. y \in Seq(Seq(Chars)) /\ Len(y) = Len(ids) + 1 - e
  BY <1>4, RestLength
<1> HIDE DEF y
<1>7. Len((x \o one) \o y) = Len(x) + Len(one) + Len(y)
  <2> DEFINE w == x \o one
  <2>0. x \in Seq(Seq(Chars)) /\ one \in Seq(Seq(Chars)) /\ y \in Seq(Seq(Chars))
    BY <1>2, <1>3, <1>6
  <2>1. w \in Seq(Seq(Chars)) /\ Len(w) = Len(x) + Len(one)
    BY <2>0, ConcatProperties
  <2> HIDE DEF w
  <2>2. Len(w \o y) = Len(w) + Len(y)
    BY <2>0, <2>1, ConcatProperties
  <2>3. Len(w \o y) = Len(x) + Len(one) + Len(y)
    BY <2>1, <2>2
  <2> QED
    BY <2>3 DEF w
<1>8. Len(merged) = (i - 1) + 1 + (Len(ids) + 1 - e)
  BY <1>2, <1>3, <1>5, <1>6, <1>7
<1>9. \A n, k \in Nat : (k - 1) + 1 + (n + 1 - (k + 2)) = n - 1
  OBVIOUS
<1> QED
  BY <1>1, <1>4, <1>8, <1>9

\* Each step keeps enough iterations.
LEMMA ItersInductive == TkInv /\ ItersLeft /\ [TokenizerNext]_tokenizerVars => ItersLeft'
<1> SUFFICES ASSUME TkInv, ItersLeft, [TokenizerNext]_tokenizerVars, tkAt' = "merge"
             PROVE  iters' \in Nat /\ Len(ids') <= iters'
  BY DEF ItersLeft
<1>1. CASE NextChunk
  <2> DEFINE t == Head(segs).chars
             n == ChunkEnd(t, at) - at
             pieces == [i \in 1 .. n |-> <<t[at + i - 1]>>]
  <2>1. tkAt # "failed" /\ tkAt' # "failed"
    BY <1>1 DEF NextChunk
  <2>2. ids' = pieces /\ iters' = Len(pieces)
    BY <1>1, <2>1 DEF NextChunk
  <2>3. ids' \in Seq(Seq(Chars))
    BY <1>1, KeepsNextChunk DEF TkInv, TkTypes
  <2> HIDE DEF pieces
  <2>4. iters' = Len(ids') /\ Len(ids') \in Nat
    BY <2>2, <2>3
  <2> QED
    BY <2>4
<1>2. CASE Merge
  <2> DEFINE i == BestPair
  <2>1. /\ tkAt = "merge" /\ iters > 0 /\ iters' = iters - 1 /\ Mergeable # {}
        /\ ids' = SubSeq(ids, 1, i - 1) \o <<ids[i] \o ids[i + 1]>> \o SubSeq(ids, i + 2, Len(ids))
    BY <1>2 DEF Merge, MayMerge
  <2>2. ids \in Seq(Seq(Chars)) /\ input \in Inputs
    BY DEF TkInv, TkTypes
  <2>3. i \in 1 .. Len(ids) - 1
    BY <2>1, <2>2, BestPairIs
  <2> HIDE DEF i
  <2>4. Len(ids') = Len(ids) - 1
    BY <2>1, <2>2, <2>3, MergedLength
  <2>5. Len(ids) \in Nat
    BY <2>2
  <2>6. iters \in Nat /\ Len(ids) <= iters /\ iters > 0 /\ iters' = iters - 1
    BY <2>1 DEF ItersLeft
  <2> QED
    BY <2>4, <2>5, <2>6
<1>3. CASE CutSpecial \/ CutRest \/ EmitSpecial \/ EncodeEnds \/ EndChunk
  BY <1>3 DEF CutSpecial, CutRest, EmitSpecial, EncodeEnds, EndChunk
<1>4. CASE UNCHANGED tokenizerVars
  BY <1>4 DEF tokenizerVars, ItersLeft
<1> QED
  BY <1>1, <1>2, <1>3, <1>4 DEF TokenizerNext

\* max_iters, the number of the pieces, never ends bpe_chunk() with a pair left that could
\* be merged, whatever the chunk and the merges.
THEOREM MergesUntilNoneIsLeft ==
  TokenizerSpec => [](tkAt = "merge" /\ ~MayMerge => Mergeable = {})
<1>1. TokenizerInit => ItersLeft
  BY DEF TokenizerInit, ItersLeft
<1>2. TkInv /\ ItersLeft => (tkAt = "merge" /\ ~MayMerge => Mergeable = {})
  <2> SUFFICES ASSUME TkInv, ItersLeft, tkAt = "merge", ~MayMerge, NEW i \in Mergeable
               PROVE  FALSE
    OBVIOUS
  <2>1. Len(ids) \in Nat /\ i \in 1 .. Len(ids) - 1
    BY DEF TkInv, TkTypes, Mergeable
  <2>2. ~(iters > 0)
    BY DEF MayMerge
  <2> QED
    BY <2>1, <2>2 DEF ItersLeft
<1> QED
  BY <1>1, <1>2, ItersInductive, TkInvariant, PTL DEF TokenizerSpec

-----------------------------------------------------------------------------
(***************************************************************************)
(* Folds: what FoldLeft makes of a sequence, for the two folds of the      *)
(* property of the merges.                                                 *)
(***************************************************************************)
\* What holds at the start and is kept from each number to the next holds up to n.
LEMMA UpTo ==
  ASSUME NEW n \in Nat, NEW Q, 0 \in Q, \A k \in 1 .. n : k - 1 \in Q => k \in Q
  PROVE  \A k \in 0 .. n : k \in Q
<1> DEFINE P == {k \in Nat : k <= n => k \in Q}
<1>1. 0 \in P
  OBVIOUS
<1>2. ASSUME NEW k \in P
      PROVE  k + 1 \in P
  <2> SUFFICES ASSUME k + 1 <= n
               PROVE  k + 1 \in Q
    OBVIOUS
  <2>1. k + 1 \in 1 .. n /\ (k + 1) - 1 = k /\ k \in Q
    OBVIOUS
  <2> QED
    BY <2>1
<1>3. P = Nat
  <2>1. P \in SUBSET Nat
    OBVIOUS
  <2> HIDE DEF P
  <2> QED
    BY <1>1, <1>2, <2>1, Induction
<1> QED
  BY <1>3

\* The fold of the elements up to the greatest one of a set of places.
Folds(f, O, base, v, n) ==
  f = [s \in SUBSET (1 .. n) |->
         IF s = {} THEN base ELSE O[<<f[s \ {Max(s)}], v[Max(s)]>>]]

\* The greatest place of a set of places.
LEMMA MaxPlace ==
  ASSUME NEW n \in Nat, NEW s \in SUBSET (1 .. n), s # {}
  PROVE  Max(s) \in s /\ Max(s) \in 1 .. n /\ s \ {Max(s)} \in SUBSET (1 .. n)
<1>1. s \in SUBSET Nat /\ \A y \in s : y <= n
  OBVIOUS
<1>2. Max(s) \in s
  BY <1>1, MaxIs
<1> QED
  BY <1>2

\* There is such a function, with values in A.
LEMMA FoldExists ==
  ASSUME NEW A, NEW B, NEW O \in [A \X B -> A], NEW base \in A,
         NEW n \in Nat, NEW v \in [1 .. n -> B]
  PROVE  \E f \in [SUBSET (1 .. n) -> A] : Folds(f, O, base, v, n)
<1> DEFINE Q == {m \in 0 .. n : \E f \in [SUBSET (1 .. m) -> A] :
                    \A s \in SUBSET (1 .. m) :
                       f[s] = IF s = {} THEN base ELSE O[<<f[s \ {Max(s)}], v[Max(s)]>>]}
<1>1. 0 \in Q
  <2> DEFINE f == [s \in SUBSET (1 .. 0) |-> base]
  <2>1. f \in [SUBSET (1 .. 0) -> A] /\ \A s \in SUBSET (1 .. 0) : s = {} /\ f[s] = base
    OBVIOUS
  <2>2. 0 \in 0 .. n
    OBVIOUS
  <2> HIDE DEF f
  <2> QED
    BY <2>1, <2>2
<1>2. ASSUME NEW m \in 1 .. n, m - 1 \in Q
      PROVE  m \in Q
  <2> DEFINE l == m - 1
  <2>1. PICK f \in [SUBSET (1 .. l) -> A] :
          \A s \in SUBSET (1 .. l) :
             f[s] = IF s = {} THEN base ELSE O[<<f[s \ {Max(s)}], v[Max(s)]>>]
    BY <1>2
  <2> DEFINE g == [s \in SUBSET (1 .. m) |->
                     IF m \in s THEN O[<<f[s \ {m}], v[m]>>] ELSE f[s]]
  <2>2. \A s \in SUBSET (1 .. m) :
           /\ m \in s => s \ {m} \in SUBSET (1 .. l)
           /\ m \notin s => s \in SUBSET (1 .. l)
    OBVIOUS
  <2>3. g \in [SUBSET (1 .. m) -> A]
    <3>1. ASSUME NEW s \in SUBSET (1 .. m)
          PROVE  (IF m \in s THEN O[<<f[s \ {m}], v[m]>>] ELSE f[s]) \in A
      <4>1. CASE m \in s
        <5>1. f[s \ {m}] \in A /\ v[m] \in B
          BY <2>2, <4>1
        <5> QED
          BY <4>1, <5>1
      <4>2. CASE m \notin s
        BY <2>2, <4>2
      <4> QED
        BY <4>1, <4>2
    <3> QED
      BY <3>1
  <2>4. ASSUME NEW s \in SUBSET (1 .. m)
        PROVE  g[s] = IF s = {} THEN base ELSE O[<<g[s \ {Max(s)}], v[Max(s)]>>]
    <3>1. CASE m \in s
      <4>1. Max(s) = m
        <5>1. s \in SUBSET Nat /\ \A y \in s : y <= m
          OBVIOUS
        <5> QED
          BY <3>1, <5>1, MaxOfIt
      <4>2. g[s] = O[<<f[s \ {m}], v[m]>>] /\ s # {}
        BY <3>1
      <4>3. g[s \ {m}] = f[s \ {m}]
        <5>1. s \ {m} \in SUBSET (1 .. m) /\ m \notin s \ {m}
          OBVIOUS
        <5> QED
          BY <5>1
      <4> HIDE DEF g
      <4> QED
        BY <4>1, <4>2, <4>3
    <3>2. CASE m \notin s /\ s # {}
      <4>1. s \in SUBSET (1 .. l) /\ l \in Nat
        BY <2>2, <3>2
      <4> HIDE DEF l
      <4>2. Max(s) \in s /\ s \ {Max(s)} \in SUBSET (1 .. l)
        BY <3>2, <4>1, MaxPlace
      <4>3. g[s] = f[s] /\ f[s] = O[<<f[s \ {Max(s)}], v[Max(s)]>>]
        BY <2>1, <3>2, <4>1
      <4>4. g[s \ {Max(s)}] = f[s \ {Max(s)}]
        <5>1. s \ {Max(s)} \in SUBSET (1 .. m) /\ m \notin s \ {Max(s)}
          BY <3>2
        <5> QED
          BY <5>1
      <4> HIDE DEF g
      <4> QED
        BY <3>2, <4>3, <4>4
    <3>3. CASE s = {}
      <4>1. s \in SUBSET (1 .. l) /\ m \notin s
        BY <3>3
      <4>2. g[s] = f[s] /\ f[s] = base
        BY <2>1, <3>3, <4>1
      <4> QED
        BY <3>3, <4>2
    <3> QED
      BY <3>1, <3>2, <3>3
  <2>5. m \in 0 .. n
    OBVIOUS
  <2> HIDE DEF g
  <2> QED
    BY <2>3, <2>4, <2>5
<1>3. n \in Q
  <2> HIDE DEF Q
  <2>1. \A m \in 1 .. n : m - 1 \in Q => m \in Q
    BY <1>2
  <2>2. \A m \in 0 .. n : m \in Q
    BY <1>1, <2>1, UpTo
  <2> QED
    BY <2>2
<1>4. PICK f \in [SUBSET (1 .. n) -> A] :
        \A s \in SUBSET (1 .. n) :
           f[s] = IF s = {} THEN base ELSE O[<<f[s \ {Max(s)}], v[Max(s)]>>]
  BY <1>3
<1> QED
  BY <1>4 DEF Folds

\* What h gives is the fold wherever what it gives for one place less is in A.
FoldsIn(h, A, O, base, v, n) ==
  /\ \A s \in SUBSET (1 .. n) : s = {} => h[s] = base
  /\ \A s \in SUBSET (1 .. n) :
       s # {} /\ h[s \ {Max(s)}] \in A => h[s] = O[<<h[s \ {Max(s)}], v[Max(s)]>>]

\* g is the results of the fold after 0, 1, ... n elements.
Goes(g, O, base, v, n) == g[0] = base /\ \A k \in 1 .. n : g[k] = O[<<g[k - 1], v[k]>>]

\* What the fold does with the elements, one after another.
LEMMA FoldRuns ==
  ASSUME NEW A, NEW B, NEW O \in [A \X B -> A], NEW base \in A,
         NEW n \in Nat, NEW v \in [1 .. n -> B], NEW h, FoldsIn(h, A, O, base, v, n)
  PROVE  \E g \in [0 .. n -> A] : g[n] = h[1 .. n] /\ Goes(g, O, base, v, n)
<1> DEFINE g == [k \in 0 .. n |-> h[1 .. k]]
<1>0. /\ \A s \in SUBSET (1 .. n) : s = {} => h[s] = base
      /\ \A s \in SUBSET (1 .. n) :
           s # {} /\ h[s \ {Max(s)}] \in A => h[s] = O[<<h[s \ {Max(s)}], v[Max(s)]>>]
  BY DEF FoldsIn
<1>1. g[0] = base
  <2>1. 1 .. 0 = {} /\ 1 .. 0 \in SUBSET (1 .. n)
    OBVIOUS
  <2>2. h[1 .. 0] = base
    BY <1>0, <2>1
  <2> QED
    BY <2>2
<1>2. ASSUME NEW k \in 1 .. n, g[k - 1] \in A
      PROVE  g[k] = O[<<g[k - 1], v[k]>>] /\ g[k] \in A
  <2> DEFINE s == 1 .. k
  <2>1. s \in SUBSET (1 .. n) /\ s # {} /\ k \in s /\ s \in SUBSET Nat /\ \A y \in s : y <= k
    <3>1. k \in s
      OBVIOUS
    <3>2. s # {}
      BY <3>1
    <3>3. \A y \in s : y \in Nat /\ y <= k /\ y \in 1 .. n
      OBVIOUS
    <3> HIDE DEF g, s
    <3> QED
      BY <3>1, <3>2, <3>3
  <2>2. Max(s) = k
    <3> HIDE DEF s
    <3> QED
      BY <2>1, MaxOfIt
  <2>3. s \ {k} = 1 .. k - 1
    OBVIOUS
  <2>4. g[k] = h[s] /\ g[k - 1] = h[1 .. k - 1]
    <3>1. k \in 0 .. n /\ k - 1 \in 0 .. n
      OBVIOUS
    <3> QED
      BY <3>1
  <2> HIDE DEF s, g
  <2>5. h[s] = O[<<h[s \ {k}], v[k]>>]
    BY <1>0, <1>2, <2>1, <2>2, <2>3, <2>4
  <2>6. g[k] = O[<<g[k - 1], v[k]>>]
    BY <2>3, <2>4, <2>5
  <2>7. <<g[k - 1], v[k]>> \in A \X B
    BY <1>2
  <2> QED
    BY <2>6, <2>7
<1>3. \A k \in 0 .. n : g[k] \in A
  <2> DEFINE Q == {k \in 0 .. n : g[k] \in A}
  <2>1. 0 \in Q
    BY <1>1
  <2> HIDE DEF g
  <2>2. ASSUME NEW k \in 1 .. n, k - 1 \in Q
        PROVE  k \in Q
    <3>1. g[k - 1] \in A /\ k \in 0 .. n
      BY <2>2
    <3>2. g[k] \in A
      BY <1>2, <3>1
    <3> QED
      BY <3>1, <3>2
  <2> HIDE DEF Q
  <2>3. \A k \in 0 .. n : k \in Q
    BY <2>1, <2>2, UpTo
  <2> QED
    BY <2>3 DEF Q
<1>4. g \in [0 .. n -> A]
  BY <1>3
<1>5. \A k \in 1 .. n : g[k] = O[<<g[k - 1], v[k]>>]
  <2> HIDE DEF g
  <2>1. \A k \in 1 .. n : k - 1 \in 0 .. n
    OBVIOUS
  <2> QED
    BY <1>2, <1>3, <2>1
<1>6. g[n] = h[1 .. n]
  OBVIOUS
<1> HIDE DEF g
<1> QED
  BY <1>1, <1>4, <1>5, <1>6 DEF Goes

-----------------------------------------------------------------------------
(***************************************************************************)
(* One pair, wherever it stands.                                           *)
(***************************************************************************)
Tokens == Seq(Seq(Chars))

\* What ReplacePair() does with one token.
Step(done, x, pair) == IF done # <<>> /\ <<Last(done), x>> = pair
                       THEN Append(Front(done), Last(done) \o x) ELSE Append(done, x)

\* What is done so far is a sequence of tokens.
LEMMA StepType ==
  ASSUME NEW done \in Tokens, NEW x \in Seq(Chars), NEW pair
  PROVE  Step(done, x, pair) \in Tokens
<1>1. CASE done # <<>> /\ <<Last(done), x>> = pair
  <2>1. Last(done) \in Seq(Chars) /\ Front(done) \in Seq(Seq(Chars))
    BY <1>1 DEF Last, Front, Tokens
  <2>2. Last(done) \o x \in Seq(Chars)
    BY <2>1, ConcatProperties
  <2>3. Append(Front(done), Last(done) \o x) \in Seq(Seq(Chars))
    BY <2>1, <2>2, AppendProperties
  <2> QED
    BY <1>1, <2>3 DEF Step, Tokens
<1>2. CASE ~(done # <<>> /\ <<Last(done), x>> = pair)
  BY <1>2 DEF Step, Tokens
<1> QED
  BY <1>1, <1>2

ScanOf(f, tokens, pair) ==
  f = [s \in SUBSET DOMAIN tokens |->
         IF s = {} THEN <<>> ELSE Step(f[s \ {Max(s)}], tokens[Max(s)], pair)]

\* ReplacePair(), as the fold defines it.
LEMMA ScanIs ==
  ASSUME NEW tokens, NEW pair
  PROVE  ReplacePair(tokens, pair) = (CHOOSE f : ScanOf(f, tokens, pair))[DOMAIN tokens]
BY DEF ReplacePair, FoldLeft, MapThenFoldSet, ScanOf, Step

\* g is what ReplacePair() has after each of the tokens.
Scans(g, tokens, pair) ==
  g[0] = <<>> /\ \A k \in 1 .. Len(tokens) : g[k] = Step(g[k - 1], tokens[k], pair)

\* ReplacePair() goes through the tokens from the first to the last.
LEMMA ScanRuns ==
  ASSUME NEW tokens \in Tokens, NEW pair
  PROVE  \E g \in [0 .. Len(tokens) -> Tokens] :
           Scans(g, tokens, pair) /\ ReplacePair(tokens, pair) = g[Len(tokens)]
<1> DEFINE n == Len(tokens)
           S == Seq(Chars)
           O == [p \in Tokens \X S |-> Step(p[1], p[2], pair)]
<1>1. n \in Nat /\ DOMAIN tokens = 1 .. n /\ tokens \in [1 .. n -> S] /\ <<>> \in Tokens
  BY DEF Tokens
<1>2. O \in [Tokens \X S -> Tokens]
  BY StepType
<1>3. \A d \in Tokens, x \in S : O[<<d, x>>] = Step(d, x, pair)
  OBVIOUS
<1> HIDE DEF O, n, S
<1>4. PICK f \in [SUBSET (1 .. n) -> Tokens] : Folds(f, O, <<>>, tokens, n)
  BY <1>1, <1>2, FoldExists
<1>5. ScanOf(f, tokens, pair)
  <2>1. \A s \in SUBSET (1 .. n) :
          f[s] = IF s = {} THEN <<>> ELSE O[<<f[s \ {Max(s)}], tokens[Max(s)]>>]
    BY <1>4 DEF Folds
  <2>2. ASSUME NEW s \in SUBSET (1 .. n), s # {}
        PROVE  O[<<f[s \ {Max(s)}], tokens[Max(s)]>>] = Step(f[s \ {Max(s)}], tokens[Max(s)], pair)
    <3>1. Max(s) \in 1 .. n /\ s \ {Max(s)} \in SUBSET (1 .. n)
      BY <1>1, <2>2, MaxPlace
    <3>2. f[s \ {Max(s)}] \in Tokens /\ tokens[Max(s)] \in S
      BY <1>1, <3>1
    <3> QED
      BY <1>3, <3>2
  <2>3. f = [s \in SUBSET (1 .. n) |->
               IF s = {} THEN <<>> ELSE Step(f[s \ {Max(s)}], tokens[Max(s)], pair)]
    BY <2>1, <2>2
  <2> QED
    BY <1>1, <2>3 DEF ScanOf
<1> DEFINE h == CHOOSE e : ScanOf(e, tokens, pair)
<1>6. ScanOf(h, tokens, pair)
  BY <1>5
<1>7. ReplacePair(tokens, pair) = h[1 .. n]
  BY <1>1, ScanIs
<1> HIDE DEF h
<1>8. \A s \in SUBSET (1 .. n) :
        h[s] = IF s = {} THEN <<>> ELSE Step(h[s \ {Max(s)}], tokens[Max(s)], pair)
  BY <1>1, <1>6 DEF ScanOf
<1>9. \A s \in SUBSET (1 .. n) :
        s # {} /\ h[s \ {Max(s)}] \in Tokens => h[s] = O[<<h[s \ {Max(s)}], tokens[Max(s)]>>]
  <2> SUFFICES ASSUME NEW s \in SUBSET (1 .. n), s # {}, h[s \ {Max(s)}] \in Tokens
               PROVE  h[s] = O[<<h[s \ {Max(s)}], tokens[Max(s)]>>]
    OBVIOUS
  <2>1. tokens[Max(s)] \in S
    BY <1>1, MaxPlace
  <2> QED
    BY <1>3, <1>8, <2>1
<1>10. FoldsIn(h, Tokens, O, <<>>, tokens, n)
  BY <1>8, <1>9 DEF FoldsIn
<1>11. PICK g \in [0 .. n -> Tokens] : g[n] = h[1 .. n] /\ Goes(g, O, <<>>, tokens, n)
  BY <1>1, <1>2, <1>10, FoldRuns
<1>12. \A k \in 1 .. n : g[k] = Step(g[k - 1], tokens[k], pair)
  <2>1. \A k \in 1 .. n : k - 1 \in 0 .. n /\ tokens[k] \in S
    BY <1>1
  <2> QED
    BY <1>3, <1>11, <2>1 DEF Goes
<1> QED
  BY <1>7, <1>11, <1>12 DEF n, Goes, Scans

\* The first k elements: the last of them, and those before it.
LEMMA SubSeqOne ==
  ASSUME NEW S, NEW t \in Seq(S), NEW k \in 1 .. Len(t)
  PROVE  /\ SubSeq(t, 1, k) = Append(SubSeq(t, 1, k - 1), t[k])
         /\ SubSeq(t, 1, k) # <<>> /\ Last(SubSeq(t, 1, k)) = t[k]
         /\ Front(SubSeq(t, 1, k)) = SubSeq(t, 1, k - 1)
         /\ SubSeq(t, 1, k) \in Seq(S) /\ SubSeq(t, 1, k - 1) \in Seq(S)
<1>1. k \in Nat /\ k - 1 \in Nat /\ Len(t) \in Nat /\ k <= Len(t)
  OBVIOUS
<1>2. SubSeq(t, 1, k) = Append(SubSeq(t, 1, k - 1), t[k])
  BY <1>1
<1>3. SubSeq(t, 1, k) \in Seq(S) /\ Len(SubSeq(t, 1, k)) = k /\ SubSeq(t, 1, k)[k] = t[k]
  BY <1>1
<1>4. SubSeq(t, 1, k - 1) \in Seq(S)
  BY <1>1
<1> DEFINE u == SubSeq(t, 1, k)
<1>5. Front(u) = SubSeq(t, 1, k - 1)
  <2>1. Front(u) = SubSeq(u, 1, Len(u) - 1)
    BY DEF Front
  <2>2. SubSeq(u, 1, k - 1) = SubSeq(t, 1, k - 1)
    BY <1>1
  <2> QED
    BY <1>3, <2>1, <2>2
<1>6. Last(u) = t[k]
  <2>1. Last(u) = u[Len(u)]
    BY DEF Last
  <2> QED
    BY <1>3, <2>1
<1>7. u # <<>>
  BY <1>1, <1>3
<1> QED
  BY <1>2, <1>3, <1>4, <1>5, <1>6, <1>7

\* The pair stands nowhere in the first m tokens.
NotIn(tokens, pair, m) == \A i \in 1 .. m - 1 : <<tokens[i], tokens[i + 1]>> # pair

\* Tokens among which the pair does not stand are taken as they are.
LEMMA NoneReplaced ==
  ASSUME NEW tokens \in Tokens, NEW pair, NEW g, Scans(g, tokens, pair),
         NEW m \in 0 .. Len(tokens), NotIn(tokens, pair, m)
  PROVE  \A k \in 0 .. m : g[k] = SubSeq(tokens, 1, k)
<1> DEFINE Q == {k \in 0 .. m : g[k] = SubSeq(tokens, 1, k)}
<1>1. Len(tokens) \in Nat /\ m \in Nat /\ m <= Len(tokens) /\ tokens \in Seq(Seq(Chars))
  BY DEF Tokens
<1>2. 0 \in Q
  <2>1. g[0] = <<>> /\ SubSeq(tokens, 1, 0) = <<>> /\ 0 \in 0 .. m
    BY <1>1 DEF Scans
  <2> QED
    BY <2>1
<1>3. ASSUME NEW k \in 1 .. m, k - 1 \in Q
      PROVE  k \in Q
  <2>1. k \in 1 .. Len(tokens) /\ k \in 0 .. m
    BY <1>1
  <2>2. g[k] = Step(SubSeq(tokens, 1, k - 1), tokens[k], pair)
    BY <1>3, <2>1 DEF Scans
  <2>3. SubSeq(tokens, 1, k) = Append(SubSeq(tokens, 1, k - 1), tokens[k])
    BY <1>1, <2>1, SubSeqOne
  <2>4. CASE k = 1
    <3>1. SubSeq(tokens, 1, k - 1) = <<>>
      BY <2>4, <1>1
    <3> QED
      BY <2>1, <2>2, <2>3, <3>1 DEF Step
  <2>5. CASE k # 1
    <3>1. k - 1 \in 1 .. Len(tokens) /\ k - 1 \in 1 .. m - 1 /\ (k - 1) + 1 = k
      BY <2>1, <2>5
    <3>2. Last(SubSeq(tokens, 1, k - 1)) = tokens[k - 1]
      BY <1>1, <3>1, SubSeqOne
    <3>3. <<tokens[k - 1], tokens[k]>> # pair
      BY <3>1 DEF NotIn
    <3> QED
      BY <2>1, <2>2, <2>3, <3>2, <3>3 DEF Step
  <2> QED
    BY <2>4, <2>5
<1> HIDE DEF Q
<1>4. \A k \in 1 .. m : k - 1 \in Q => k \in Q
  BY <1>3
<1>5. \A k \in 0 .. m : k \in Q
  BY <1>1, <1>2, <1>4, UpTo
<1> QED
  BY <1>5 DEF Q

\* The pair stands in the tokens.
Has(tokens, pair) == \E i \in 1 .. Len(tokens) - 1 : <<tokens[i], tokens[i + 1]>> = pair

\* Where the pair does not stand, ReplacePair() leaves the tokens alone.
LEMMA NothingToReplace ==
  ASSUME NEW tokens \in Tokens, NEW pair, ~Has(tokens, pair)
  PROVE  ReplacePair(tokens, pair) = tokens
<1>1. PICK g \in [0 .. Len(tokens) -> Tokens] :
        Scans(g, tokens, pair) /\ ReplacePair(tokens, pair) = g[Len(tokens)]
  BY ScanRuns
<1>2. Len(tokens) \in 0 .. Len(tokens) /\ tokens \in Seq(Seq(Chars))
  BY DEF Tokens
<1>3. NotIn(tokens, pair, Len(tokens))
  BY DEF Has, NotIn
<1> DEFINE m == Len(tokens)
<1>4. g[m] = SubSeq(tokens, 1, m)
  <2>1. m \in 0 .. Len(tokens) /\ m \in 0 .. m /\ Scans(g, tokens, pair) /\ NotIn(tokens, pair, m)
    BY <1>1, <1>2, <1>3
  <2> HIDE DEF m
  <2>2. \A k \in 0 .. m : g[k] = SubSeq(tokens, 1, k)
    BY <2>1, NoneReplaced
  <2> QED
    BY <2>1, <2>2
<1> QED
  BY <1>1, <1>2, <1>4

\* The tokens with those at i and i + 1 put together.
Joined(tokens, i) ==
  SubSeq(tokens, 1, i - 1) \o <<tokens[i] \o tokens[i + 1]>> \o SubSeq(tokens, i + 2, Len(tokens))

\* The tokens that are left, place by place.
LEMMA JoinedIs ==
  ASSUME NEW tokens \in Tokens, NEW i \in 1 .. Len(tokens) - 1
  PROVE  /\ Joined(tokens, i) \in Tokens /\ Len(Joined(tokens, i)) = Len(tokens) - 1
         /\ \A j \in 1 .. i - 1 : Joined(tokens, i)[j] = tokens[j]
         /\ Joined(tokens, i)[i] = tokens[i] \o tokens[i + 1]
         /\ \A j \in i + 1 .. Len(tokens) - 1 : Joined(tokens, i)[j] = tokens[j + 1]
<1> DEFINE S == Seq(Chars)
           n == Len(tokens)
           x == SubSeq(tokens, 1, i - 1)
           p == tokens[i] \o tokens[i + 1]
           y == SubSeq(tokens, i + 2, n)
<1>1. n \in Nat /\ i \in Nat /\ tokens \in Seq(S) /\ tokens[i] \in S /\ tokens[i + 1] \in S
  BY DEF Tokens
<1>2. p \in S
  BY <1>1, ConcatProperties
<1>3. x \in Seq(S) /\ Len(x) = i - 1 /\ \A j \in 1 .. i - 1 : x[j] = tokens[j]
  BY <1>1
<1>4. y \in Seq(S) /\ Len(y) = n - i - 1 /\ \A j \in 1 .. n - i - 1 : y[j] = tokens[j + i + 1]
  BY <1>1
<1>5. Joined(tokens, i) = (x \o <<p>>) \o y
  BY DEF Joined
<1> HIDE DEF x, p, y
<1> DEFINE w == x \o <<p>>
<1>6. w \in Seq(S) /\ Len(w) = i /\ (\A j \in 1 .. i - 1 : w[j] = x[j]) /\ w[i] = p
  <2> DEFINE one == <<p>>
  <2>1. one \in Seq(S) /\ Len(one) = 1 /\ one[1] = p
    BY <1>2
  <2> HIDE DEF one
  <2>2. /\ x \o one \in Seq(S) /\ Len(x \o one) = Len(x) + Len(one)
        /\ \A j \in 1 .. Len(x) + Len(one) : (x \o one)[j] = IF j <= Len(x) THEN x[j] ELSE one[j - Len(x)]
    BY <1>3, <2>1, ConcatProperties
  <2>3. w = x \o one
    BY DEF one
  <2> HIDE DEF w
  <2>4. \A j \in 1 .. i : w[j] = IF j <= i - 1 THEN x[j] ELSE one[j - (i - 1)]
    BY <1>1, <1>3, <2>1, <2>2, <2>3
  <2>5. i \in 1 .. i /\ ~(i <= i - 1) /\ i - (i - 1) = 1
    BY <1>1
  <2>6. w[i] = p
    BY <2>1, <2>4, <2>5
  <2>7. \A j \in 1 .. i - 1 : j \in 1 .. i /\ j <= i - 1
    BY <1>1
  <2>8. \A j \in 1 .. i - 1 : w[j] = x[j]
    BY <2>4, <2>7
  <2>9. Len(w) = i
    BY <1>1, <1>3, <2>1, <2>2, <2>3
  <2> QED
    BY <2>2, <2>3, <2>6, <2>8, <2>9
<1> HIDE DEF w
<1> DEFINE z == w \o y
<1>7. z \in Seq(S) /\ Len(z) = Len(w) + Len(y)
  BY <1>4, <1>6, ConcatProperties
<1>8. \A j \in 1 .. Len(w) + Len(y) : z[j] = IF j <= Len(w) THEN w[j] ELSE y[j - Len(w)]
  BY <1>4, <1>6, ConcatProperties
<1> HIDE DEF z
<1>9. Len(z) = n - 1
  BY <1>1, <1>4, <1>6, <1>7
<1>10. n - i - 1 \in Nat /\ i <= n - 1
  BY <1>1
<1>11. \A j \in 1 .. n - 1 : z[j] = IF j <= i THEN w[j] ELSE y[j - i]
  <2>1. Len(w) + Len(y) = n - 1
    BY <1>1, <1>4, <1>6
  <2> QED
    BY <1>6, <1>8, <2>1
<1>12. \A j \in 1 .. i - 1 : z[j] = tokens[j]
  <2>1. \A j \in 1 .. i - 1 : j \in 1 .. n - 1 /\ j <= i
    BY <1>1, <1>10
  <2> QED
    BY <1>3, <1>6, <1>11, <2>1
<1>13. z[i] = p
  <2>1. i \in 1 .. n - 1 /\ i <= i
    BY <1>1, <1>10
  <2> QED
    BY <1>6, <1>11, <2>1
<1>14. ASSUME NEW j \in i + 1 .. n - 1
       PROVE  z[j] = tokens[j + 1]
  <2>1. j - i \in 1 .. n - i - 1 /\ (j - i) + i + 1 = j + 1 /\ ~(j <= i) /\ j \in 1 .. n - 1
    BY <1>1
  <2>2. y[j - i] = tokens[j + 1]
    BY <1>4, <2>1
  <2> QED
    BY <1>11, <2>1, <2>2
<1>15. Joined(tokens, i) = z
  BY <1>5 DEF w, z
<1> QED
  BY <1>7, <1>9, <1>12, <1>13, <1>14, <1>15 DEF p, Tokens

\* Putting the first occurrence of a pair together makes no difference for ReplacePair().
LEMMA FirstJoined ==
  ASSUME NEW tokens \in Tokens, NEW i \in 1 .. Len(tokens) - 1, NEW pair,
         pair = <<tokens[i], tokens[i + 1]>>, tokens[i] \o tokens[i + 1] # tokens[i + 1],
         NotIn(tokens, pair, i)
  PROVE  ReplacePair(tokens, pair) = ReplacePair(Joined(tokens, i), pair)
<1> DEFINE n == Len(tokens)
           l == n - 1
           p == tokens[i] \o tokens[i + 1]
           z == Joined(tokens, i)
           x == SubSeq(tokens, 1, i - 1)
<1>1. /\ n \in Nat /\ l \in Nat /\ n = l + 1 /\ i \in 1 .. l /\ tokens \in Seq(Seq(Chars))
      /\ i - 1 \in 0 .. l /\ i \in 0 .. n /\ i \in 1 .. n
  BY DEF Tokens
<1>2. /\ z \in Tokens /\ Len(z) = l /\ \A j \in 1 .. i - 1 : z[j] = tokens[j]
      /\ z[i] = p /\ \A j \in i + 1 .. l : z[j] = tokens[j + 1]
  BY JoinedIs
<1> HIDE DEF z
<1> HIDE DEF l, n, p
<1>3. PICK g : Scans(g, tokens, pair) /\ ReplacePair(tokens, pair) = g[n]
  BY ScanRuns DEF n
<1>4. PICK h : Scans(h, z, pair) /\ ReplacePair(z, pair) = h[l]
  <2>1. \E h : Scans(h, z, pair) /\ ReplacePair(z, pair) = h[Len(z)]
    BY <1>2, ScanRuns
  <2> QED
    BY <1>2, <2>1
<1>5. g[i] = SubSeq(tokens, 1, i)
  <2>1. i \in 0 .. Len(tokens) /\ i \in 0 .. i
    BY <1>1 DEF n
  <2>2. \A k \in 0 .. i : g[k] = SubSeq(tokens, 1, k)
    BY <1>3, <2>1, NoneReplaced
  <2> QED
    BY <2>1, <2>2
<1>6. g[i + 1] = Append(x, p)
  <2>1. i + 1 \in 1 .. n /\ (i + 1) - 1 = i
    BY <1>1
  <2>2. g[i + 1] = Step(SubSeq(tokens, 1, i), tokens[i + 1], pair)
    BY <1>3, <1>5, <2>1 DEF Scans, n
  <2>3. /\ SubSeq(tokens, 1, i) # <<>> /\ Last(SubSeq(tokens, 1, i)) = tokens[i]
        /\ Front(SubSeq(tokens, 1, i)) = x
    BY <1>1, SubSeqOne DEF n
  <2> HIDE DEF x
  <2> QED
    BY <2>2, <2>3 DEF Step, p
<1>7. h[i - 1] = x
  <2> DEFINE m == i - 1
  <2>1. m \in 0 .. Len(z) /\ m \in 0 .. m
    BY <1>1, <1>2
  <2>2. \A j \in 1 .. m - 1 : j \in 1 .. i - 1 /\ j + 1 \in 1 .. i - 1
    BY <1>1
  <2>3. NotIn(z, pair, m)
    <3>1. \A j \in 1 .. i - 1 : <<tokens[j], tokens[j + 1]>> # pair
      BY DEF NotIn
    <3> QED
      BY <1>2, <2>2, <3>1 DEF NotIn
  <2>4. SubSeq(z, 1, m) = x
    <3>1. z \in Seq(Seq(Chars)) /\ m <= Len(z) /\ m <= Len(tokens) /\ m \in Nat
      BY <1>1, <1>2, <2>1 DEF Tokens, n
    <3>2. \A j \in 1 .. m : z[j] = tokens[j]
      BY <1>2
    <3> HIDE DEF m
    <3>3. SubSeq(z, 1, m) = [j \in 1 .. m |-> z[j]] /\ SubSeq(tokens, 1, m) = [j \in 1 .. m |-> tokens[j]]
      BY <1>1, <3>1
    <3>4. SubSeq(z, 1, m) = SubSeq(tokens, 1, m)
      BY <3>2, <3>3
    <3> QED
      BY <3>4 DEF m
  <2> HIDE DEF m
  <2>5. \A k \in 0 .. m : h[k] = SubSeq(z, 1, k)
    BY <1>2, <1>4, <2>1, <2>3, NoneReplaced
  <2>6. h[m] = x
    BY <2>1, <2>4, <2>5
  <2> QED
    BY <2>6 DEF m
<1>8. h[i] = Append(x, p)
  <2>1. h[i] = Step(x, p, pair)
    BY <1>1, <1>2, <1>4, <1>7 DEF Scans
  <2>2. CASE i = 1
    <3>1. x = <<>>
      BY <2>2, <1>1
    <3> QED
      BY <2>1, <3>1 DEF Step
  <2>3. CASE i # 1
    <3>1. i - 1 \in 1 .. Len(tokens)
      BY <1>1, <2>3 DEF n
    <3>2. Last(x) = tokens[i - 1]
      BY <1>1, <3>1, SubSeqOne
    <3>3. p # tokens[i + 1]
      BY DEF p
    <3>4. <<Last(x), p>> # pair
      BY <3>3
    <3> HIDE DEF x
    <3> QED
      BY <2>1, <3>4 DEF Step
  <2> QED
    BY <2>2, <2>3
<1> DEFINE Q == {k \in Nat : i + k <= l => g[i + k + 1] = h[i + k]}
<1>9. Q = Nat
  <2>1. 0 \in Q
    <3>1. i + 0 = i
      BY <1>1
    <3> HIDE DEF x
    <3> QED
      BY <1>6, <1>8, <3>1
  <2>2. ASSUME NEW k \in Q
        PROVE  k + 1 \in Q
    <3> SUFFICES ASSUME i + (k + 1) <= l
                 PROVE  g[i + (k + 1) + 1] = h[i + (k + 1)]
      OBVIOUS
    <3> DEFINE a == i + (k + 1)
    <3>1. /\ k \in Nat /\ a \in 1 .. l /\ a \in i + 1 .. l /\ a - 1 = i + k
          /\ a + 1 \in 1 .. n /\ (a + 1) - 1 = i + k + 1
      BY <1>1
    <3>2. g[i + k + 1] = h[i + k]
      BY <3>1, <1>1
    <3> HIDE DEF a
    <3>3. h[a] = Step(h[i + k], z[a], pair)
      BY <1>2, <1>4, <3>1 DEF Scans
    <3>4. g[a + 1] = Step(g[i + k + 1], tokens[a + 1], pair)
      BY <1>3, <3>1 DEF Scans, n
    <3>5. z[a] = tokens[a + 1]
      BY <1>2, <3>1
    <3>6. g[a + 1] = h[a]
      BY <3>2, <3>3, <3>4, <3>5
    <3> QED
      BY <3>6 DEF a
  <2>3. Q \in SUBSET Nat
    OBVIOUS
  <2> HIDE DEF Q
  <2> QED
    BY <2>1, <2>2, <2>3, Induction
<1>10. g[n] = h[l]
  <2> DEFINE d == l - i
  <2>1. d \in Nat /\ i + d = l /\ i + d <= l /\ i + d + 1 = n
    BY <1>1
  <2> HIDE DEF d
  <2>2. g[i + d + 1] = h[i + d]
    BY <1>9, <2>1
  <2> QED
    BY <1>1, <2>1, <2>2
<1> QED
  BY <1>3, <1>4, <1>10 DEF z

-----------------------------------------------------------------------------
(***************************************************************************)
(* The list of the merges.                                                 *)
(***************************************************************************)
\* What is left of one run of replacements by the merges, in the order of the list.
MergedBy(tokens, merges) == FoldLeft(ReplacePair, tokens, merges)

MergesOf(f, tokens, merges) ==
  f = [s \in SUBSET DOMAIN merges |->
         IF s = {} THEN tokens ELSE ReplacePair(f[s \ {Max(s)}], merges[Max(s)])]

\* MergedBy(), as the fold defines it.
LEMMA MergedByIs ==
  ASSUME NEW tokens, NEW merges
  PROVE  MergedBy(tokens, merges) = (CHOOSE f : MergesOf(f, tokens, merges))[DOMAIN merges]
BY DEF MergedBy, FoldLeft, MapThenFoldSet, MergesOf

\* ReplacePair() makes a sequence of tokens.
LEMMA ReplaceType ==
  ASSUME NEW tokens \in Tokens, NEW pair
  PROVE  ReplacePair(tokens, pair) \in Tokens
<1>1. Len(tokens) \in 0 .. Len(tokens)
  BY DEF Tokens
<1> QED
  BY <1>1, ScanRuns

\* g is what the merges have made of the tokens, after each of them.
Merging(g, tokens, merges) ==
  g[0] = tokens /\ \A k \in 1 .. Len(merges) : g[k] = ReplacePair(g[k - 1], merges[k])

\* The merges are gone through from the first to the last.
LEMMA MergesRun ==
  ASSUME NEW tokens \in Tokens, NEW merges \in Seq(Seq(Chars) \X Seq(Chars))
  PROVE  \E g \in [0 .. Len(merges) -> Tokens] :
           Merging(g, tokens, merges) /\ MergedBy(tokens, merges) = g[Len(merges)]
<1> DEFINE n == Len(merges)
           S == Seq(Chars) \X Seq(Chars)
           O == [p \in Tokens \X S |-> ReplacePair(p[1], p[2])]
<1>1. n \in Nat /\ DOMAIN merges = 1 .. n /\ merges \in [1 .. n -> S]
  OBVIOUS
<1>2. O \in [Tokens \X S -> Tokens]
  BY ReplaceType
<1>3. \A d \in Tokens, x \in S : O[<<d, x>>] = ReplacePair(d, x)
  OBVIOUS
<1> HIDE DEF O, n, S
<1>4. PICK f \in [SUBSET (1 .. n) -> Tokens] : Folds(f, O, tokens, merges, n)
  BY <1>1, <1>2, FoldExists
<1>5. MergesOf(f, tokens, merges)
  <2>1. \A s \in SUBSET (1 .. n) :
          f[s] = IF s = {} THEN tokens ELSE O[<<f[s \ {Max(s)}], merges[Max(s)]>>]
    BY <1>4 DEF Folds
  <2>2. ASSUME NEW s \in SUBSET (1 .. n), s # {}
        PROVE  O[<<f[s \ {Max(s)}], merges[Max(s)]>>] = ReplacePair(f[s \ {Max(s)}], merges[Max(s)])
    <3>1. Max(s) \in 1 .. n /\ s \ {Max(s)} \in SUBSET (1 .. n)
      BY <1>1, <2>2, MaxPlace
    <3>2. f[s \ {Max(s)}] \in Tokens /\ merges[Max(s)] \in S
      BY <1>1, <3>1
    <3> QED
      BY <1>3, <3>2
  <2>3. f = [s \in SUBSET (1 .. n) |->
               IF s = {} THEN tokens ELSE ReplacePair(f[s \ {Max(s)}], merges[Max(s)])]
    BY <2>1, <2>2
  <2> QED
    BY <1>1, <2>3 DEF MergesOf
<1> DEFINE h == CHOOSE e : MergesOf(e, tokens, merges)
<1>6. MergesOf(h, tokens, merges)
  BY <1>5
<1>7. MergedBy(tokens, merges) = h[1 .. n]
  BY <1>1, MergedByIs
<1> HIDE DEF h
<1>8. \A s \in SUBSET (1 .. n) :
        h[s] = IF s = {} THEN tokens ELSE ReplacePair(h[s \ {Max(s)}], merges[Max(s)])
  BY <1>1, <1>6 DEF MergesOf
<1>9. \A s \in SUBSET (1 .. n) :
        s # {} /\ h[s \ {Max(s)}] \in Tokens => h[s] = O[<<h[s \ {Max(s)}], merges[Max(s)]>>]
  <2> SUFFICES ASSUME NEW s \in SUBSET (1 .. n), s # {}, h[s \ {Max(s)}] \in Tokens
               PROVE  h[s] = O[<<h[s \ {Max(s)}], merges[Max(s)]>>]
    OBVIOUS
  <2>1. merges[Max(s)] \in S
    BY <1>1, MaxPlace
  <2> QED
    BY <1>3, <1>8, <2>1
<1>10. FoldsIn(h, Tokens, O, tokens, merges, n)
  BY <1>8, <1>9 DEF FoldsIn
<1>11. PICK g \in [0 .. n -> Tokens] : g[n] = h[1 .. n] /\ Goes(g, O, tokens, merges, n)
  BY <1>1, <1>2, <1>10, FoldRuns
<1>12. \A k \in 1 .. n : g[k] = ReplacePair(g[k - 1], merges[k])
  <2>1. \A k \in 1 .. n : k - 1 \in 0 .. n /\ merges[k] \in S
    BY <1>1
  <2> QED
    BY <1>3, <1>11, <2>1 DEF Goes
<1> QED
  BY <1>7, <1>11, <1>12 DEF n, Goes, Merging

\* None of the first r pairs of the list stands in the tokens.
NoneOf(tokens, merges, r) == \A k \in 1 .. r : ~Has(tokens, merges[k])

\* Merges of a lower rank than r find nothing to replace.
LEMMA LowerMergesDoNothing ==
  ASSUME NEW tokens \in Tokens, NEW merges \in Seq(Seq(Chars) \X Seq(Chars)),
         NEW g, Merging(g, tokens, merges), NEW r \in 0 .. Len(merges), NoneOf(tokens, merges, r)
  PROVE  g[r] = tokens
<1> DEFINE Q == {k \in 0 .. r : g[k] = tokens}
<1>1. Len(merges) \in Nat /\ r \in Nat /\ r <= Len(merges)
  OBVIOUS
<1>2. 0 \in Q
  BY <1>1 DEF Merging
<1>3. ASSUME NEW k \in 1 .. r, k - 1 \in Q
      PROVE  k \in Q
  <2>1. k \in 1 .. Len(merges) /\ k \in 0 .. r
    BY <1>1
  <2>2. g[k] = ReplacePair(tokens, merges[k])
    BY <1>3, <2>1 DEF Merging
  <2>3. ~Has(tokens, merges[k])
    BY DEF NoneOf
  <2> QED
    BY <2>1, <2>2, <2>3, NothingToReplace
<1> HIDE DEF Q
<1>4. \A k \in 1 .. r : k - 1 \in Q => k \in Q
  BY <1>3
<1>5. \A k \in 0 .. r : k \in Q
  BY <1>1, <1>2, <1>4, UpTo
<1>6. r \in 0 .. r
  BY <1>1
<1> QED
  BY <1>5, <1>6 DEF Q

\* Where no pair of the list stands, the list makes nothing else of the tokens.
LEMMA NothingMerged ==
  ASSUME NEW tokens \in Tokens, NEW merges \in Seq(Seq(Chars) \X Seq(Chars)),
         NoneOf(tokens, merges, Len(merges))
  PROVE  MergedBy(tokens, merges) = tokens
<1>1. PICK g : Merging(g, tokens, merges) /\ MergedBy(tokens, merges) = g[Len(merges)]
  BY MergesRun
<1> DEFINE r == Len(merges)
<1>2. r \in 0 .. Len(merges) /\ NoneOf(tokens, merges, r)
  OBVIOUS
<1> HIDE DEF r
<1>3. g[r] = tokens
  BY <1>1, <1>2, LowerMergesDoNothing
<1> QED
  BY <1>1, <1>3 DEF r

\* At i stands the pair of rank r, which stands nowhere before it, and no pair of a lower rank.
Lowest(tokens, merges, r, i) ==
  /\ merges[r] = <<tokens[i], tokens[i + 1]>>
  /\ NoneOf(tokens, merges, r - 1)
  /\ NotIn(tokens, merges[r], i)

\* Putting two tokens together makes no pair of a lower rank.
LEMMA NoneOfJoined ==
  ASSUME NEW tokens \in Tokens, NEW merges \in Seq(Seq(Chars) \X Seq(Chars)),
         MadeBefore(merges), NEW r \in 1 .. Len(merges), NEW i \in 1 .. Len(tokens) - 1,
         Lowest(tokens, merges, r, i)
  PROVE  NoneOf(Joined(tokens, i), merges, r - 1) /\ tokens[i] \o tokens[i + 1] # tokens[i + 1]
<1> DEFINE n == Len(merges)
           z == Joined(tokens, i)
           p == tokens[i] \o tokens[i + 1]
           l == Len(tokens) - 1
<1>1. n \in Nat /\ r \in 1 .. n /\ DOMAIN merges = 1 .. n
  OBVIOUS
<1>2. \A k \in 1 .. n : p = merges[k][1] \/ p = merges[k][2] => r < k
  <2>1. \A k \in DOMAIN merges :
           merges[r][1] \o merges[r][2] \in {merges[k][1], merges[k][2]} =>
             \E j \in 1 .. k - 1 : merges[j] = merges[r]
    BY <1>1 DEF MadeBefore
  <2>2. merges[r][1] = tokens[i] /\ merges[r][2] = tokens[i + 1]
    <3>1. merges[r] = <<tokens[i], tokens[i + 1]>>
      BY DEF Lowest
    <3> QED
      BY <3>1
  <2>3. Has(tokens, merges[r])
    BY DEF Lowest, Has
  <2>4. \A j \in 1 .. r - 1 : merges[j] # merges[r]
    <3>1. \A j \in 1 .. r - 1 : ~Has(tokens, merges[j])
      BY DEF Lowest, NoneOf
    <3> QED
      BY <2>3, <3>1
  <2> SUFFICES ASSUME NEW k \in 1 .. n, p = merges[k][1] \/ p = merges[k][2]
               PROVE  r < k
    OBVIOUS
  <2>5. p = merges[r][1] \o merges[r][2]
    BY <2>2
  <2>6. \E j \in 1 .. k - 1 : merges[j] = merges[r]
    <3> HIDE DEF p
    <3> QED
      BY <1>1, <2>1, <2>5
  <2> HIDE DEF p, z, n, l
  <2>7. PICK j \in 1 .. k - 1 : merges[j] = merges[r]
    BY <2>6
  <2>8. j \notin 1 .. r - 1
    BY <2>4, <2>7
  <2> QED
    BY <1>1, <2>8
<1>3. Len(tokens) \in Nat /\ l \in Nat /\ i \in 1 .. l /\ i \in Nat /\ Len(tokens) = l + 1
  BY DEF Tokens
<1>4. /\ z \in Tokens /\ Len(z) = l /\ \A j \in 1 .. i - 1 : z[j] = tokens[j]
      /\ z[i] = p /\ \A j \in i + 1 .. l : z[j] = tokens[j + 1]
  BY JoinedIs
<1> HIDE DEF n, z, l, p
<1>5. p # tokens[i + 1]
  <2>1. merges[r] = <<tokens[i], tokens[i + 1]>>
    BY DEF Lowest
  <2>2. merges[r][2] = tokens[i + 1]
    BY <2>1
  <2>3. p = tokens[i + 1] => r < r
    BY <1>1, <1>2, <2>2
  <2> QED
    BY <1>1, <2>3
<1>6. ASSUME NEW k \in 1 .. r - 1, NEW j \in 1 .. l - 1, <<z[j], z[j + 1]>> = merges[k]
      PROVE  FALSE
  <2>1. k \in 1 .. n /\ ~(r < k) /\ ~Has(tokens, merges[k])
    <3>1. ~Has(tokens, merges[k])
      BY DEF Lowest, NoneOf
    <3>2. k \in 1 .. n /\ ~(r < k)
      BY <1>1
    <3> QED
      BY <3>1, <3>2
  <2>2. p # merges[k][1] /\ p # merges[k][2]
    BY <1>2, <2>1
  <2>3. merges[k][1] = z[j] /\ merges[k][2] = z[j + 1]
    <3>1. <<z[j], z[j + 1]>>[1] = z[j] /\ <<z[j], z[j + 1]>>[2] = z[j + 1]
      OBVIOUS
    <3>2. merges[k] = <<z[j], z[j + 1]>>
      BY <1>6
    <3> QED
      BY <3>1, <3>2
  <2>4. j # i /\ j + 1 # i
    BY <1>4, <2>2, <2>3
  <2>5. \A a, b \in Nat : a # b /\ a + 1 # b => a + 1 < b \/ b < a
    OBVIOUS
  <2>6. j \in Nat /\ 1 <= j /\ j + 1 <= l /\ Len(tokens) = l + 1
    BY <1>3
  <2>7. CASE j + 1 < i
    <3>1. \A a, b, c \in Nat : 1 <= a /\ a + 1 < b /\ b <= c =>
            a \in 1 .. b - 1 /\ a + 1 \in 1 .. b - 1 /\ a \in 1 .. (c + 1) - 1
      OBVIOUS
    <3>2. i \in Nat /\ i <= l
      BY <1>3
    <3>3. j \in 1 .. i - 1 /\ j + 1 \in 1 .. i - 1 /\ j \in 1 .. Len(tokens) - 1
      BY <1>3, <2>6, <2>7, <3>1, <3>2
    <3>4. <<tokens[j], tokens[j + 1]>> = merges[k]
      BY <1>4, <1>6, <3>3
    <3> QED
      BY <2>1, <3>3, <3>4 DEF Has
  <2>8. CASE i < j
    <3>1. \A a, b, c \in Nat : 1 <= a /\ a + 1 <= c /\ b < a =>
            a \in b + 1 .. c /\ a + 1 \in b + 1 .. c /\ a + 1 \in 1 .. (c + 1) - 1
      OBVIOUS
    <3>2. j \in i + 1 .. l /\ j + 1 \in i + 1 .. l /\ j + 1 \in 1 .. Len(tokens) - 1
      BY <1>3, <2>6, <2>8, <3>1
    <3>3. <<tokens[j + 1], tokens[(j + 1) + 1]>> = merges[k]
      BY <1>4, <1>6, <3>2
    <3> QED
      BY <2>1, <3>2, <3>3 DEF Has
  <2>9. j + 1 < i \/ i < j
    BY <1>3, <2>4, <2>5, <2>6
  <2> QED
    BY <2>7, <2>8, <2>9
<1>7. \A k \in 1 .. r - 1 : ~Has(z, merges[k])
  BY <1>4, <1>6 DEF Has
<1> QED
  BY <1>5, <1>7 DEF NoneOf, p, z

\* What the list makes of the tokens stays the same when the pair of the lowest rank is
\* put together where it stands first.
LEMMA LowestJoined ==
  ASSUME NEW tokens \in Tokens, NEW merges \in Seq(Seq(Chars) \X Seq(Chars)),
         MadeBefore(merges), NEW r \in 1 .. Len(merges), NEW i \in 1 .. Len(tokens) - 1,
         Lowest(tokens, merges, r, i)
  PROVE  MergedBy(tokens, merges) = MergedBy(Joined(tokens, i), merges)
<1> DEFINE n == Len(merges)
           z == Joined(tokens, i)
           pair == merges[r]
           q == r - 1
<1>1. n \in Nat /\ r \in 1 .. n /\ r \in Nat /\ q \in 0 .. n /\ n \in 0 .. n /\ r <= n
  OBVIOUS
<1>2. z \in Tokens /\ NoneOf(tokens, merges, q) /\ NoneOf(z, merges, q)
  BY JoinedIs, NoneOfJoined DEF Lowest
<1>3. ReplacePair(tokens, pair) = ReplacePair(z, pair)
  <2>1. pair = <<tokens[i], tokens[i + 1]>> /\ NotIn(tokens, pair, i)
    BY DEF Lowest
  <2>2. tokens[i] \o tokens[i + 1] # tokens[i + 1]
    BY NoneOfJoined
  <2> HIDE DEF pair
  <2> QED
    BY <2>1, <2>2, FirstJoined
<1> HIDE DEF n, z, q
<1>4. PICK g : Merging(g, tokens, merges) /\ MergedBy(tokens, merges) = g[n]
  BY MergesRun DEF n
<1>5. PICK h : Merging(h, z, merges) /\ MergedBy(z, merges) = h[n]
  BY <1>2, MergesRun DEF n
<1>6. g[q] = tokens /\ h[q] = z
  <2>1. q \in 0 .. Len(merges)
    BY <1>1 DEF n
  <2> HIDE DEF pair
  <2>2. \A f : \A u \in Tokens : Merging(f, u, merges) /\ NoneOf(u, merges, q) => f[q] = u
    BY <2>1, LowerMergesDoNothing
  <2>3. g[q] = tokens
    BY <1>2, <1>4, <2>2
  <2>4. h[q] = z
    BY <1>2, <1>5, <2>2
  <2> QED
    BY <2>3, <2>4
<1>7. g[r] = h[r]
  <2>1. g[r] = ReplacePair(g[q], pair) /\ h[r] = ReplacePair(h[q], pair)
    BY <1>1, <1>4, <1>5 DEF Merging, n, q
  <2> QED
    BY <1>3, <1>6, <2>1
<1> DEFINE Q == {k \in 0 .. n : r <= k => g[k] = h[k]}
<1>8. 0 \in Q
  BY <1>1
<1>9. ASSUME NEW k \in 1 .. n, k - 1 \in Q
      PROVE  k \in Q
  <2>1. CASE r <= k - 1
    <3>1. g[k - 1] = h[k - 1]
      BY <1>9, <2>1
    <3>2. g[k] = ReplacePair(g[k - 1], merges[k]) /\ h[k] = ReplacePair(h[k - 1], merges[k])
      BY <1>4, <1>5 DEF Merging, n
    <3>3. k \in 0 .. n
      BY <1>1
    <3> QED
      BY <3>1, <3>2, <3>3
  <2>2. CASE ~(r <= k - 1)
    <3>1. k \in 0 .. n /\ (r <= k => r = k)
      BY <1>1, <2>2
    <3> QED
      BY <1>7, <3>1
  <2> QED
    BY <2>1, <2>2
<1> HIDE DEF Q
<1>10. \A k \in 1 .. n : k - 1 \in Q => k \in Q
  BY <1>9
<1>11. \A k \in 0 .. n : k \in Q
  BY <1>1, <1>8, <1>10, UpTo
<1>12. g[n] = h[n]
  BY <1>1, <1>11 DEF Q
<1> QED
  BY <1>4, <1>5, <1>12 DEF z

-----------------------------------------------------------------------------
(***************************************************************************)
(* The merge loop and the list.                                            *)
(***************************************************************************)
\* The characters of a text, each a token.
Singles(t) == [i \in 1 .. Len(t) |-> <<t[i]>>]

\* The tokens are on the way to what the merges make of the chunk in the order of the list.
OnTheWay ==
  tkAt = "merge" /\ MadeBefore(input.merges) =>
    MergedBy(ids, input.merges) = MergedBy(Singles(FlattenSeq(ids)), input.merges)

\* BestPair is the first place of the pair of the lowest rank.
LEMMA BestIsLowest ==
  ASSUME input \in Inputs, ids \in Seq(Seq(Chars)), Mergeable # {}
  PROVE  \E r \in 1 .. Len(input.merges) : Lowest(ids, input.merges, r, BestPair)
<1> DEFINE merges == input.merges
           i == BestPair
           r == Rank(i)
<1>1. merges \in Seq(Seq(Chars) \X Seq(Chars)) /\ Len(ids) \in Nat
  BY InputFields
<1>2. /\ i \in 1 .. Len(ids) - 1 /\ i \in Mergeable
      /\ \A j \in Mergeable : r < Rank(j) \/ (r = Rank(j) /\ i <= j)
  BY BestPairIs
<1>3. r \in 1 .. Len(merges) /\ r \in Nat /\ merges[r] = <<ids[i], ids[i + 1]>>
  <2>1. DOMAIN merges = 1 .. Len(merges)
    BY <1>1
  <2> QED
    BY <1>2, <2>1, RankIs
<1>4. ASSUME NEW k \in DOMAIN merges, NEW j \in 1 .. Len(ids) - 1, <<ids[j], ids[j + 1]>> = merges[k]
      PROVE  j \in Mergeable /\ Rank(j) <= k
  <2>1. j \in Mergeable
    BY <1>4 DEF Mergeable, ToSet
  <2> QED
    BY <1>4, <2>1, RankIs
<1>5. \A j \in Mergeable : Rank(j) \in Nat
  BY RankIs
<1>6. \A k \in 1 .. r - 1 : k \in DOMAIN merges /\ k < r /\ k \in Nat
  <2>1. DOMAIN merges = 1 .. Len(merges) /\ Len(merges) \in Nat
    BY <1>1
  <2> HIDE DEF r, merges
  <2> QED
    BY <1>3, <2>1
<1>7. ASSUME NEW k \in 1 .. r - 1, NEW j \in 1 .. Len(ids) - 1, <<ids[j], ids[j + 1]>> = merges[k]
      PROVE  FALSE
  <2>1. j \in Mergeable /\ Rank(j) <= k
    BY <1>4, <1>6, <1>7
  <2> HIDE DEF r, i
  <2>2. Rank(j) \in Nat /\ (r < Rank(j) \/ r = Rank(j))
    BY <1>2, <1>5, <2>1
  <2>3. k < r /\ k \in Nat /\ r \in Nat
    BY <1>3, <1>6
  <2> QED
    BY <2>1, <2>2, <2>3
<1>8. ASSUME NEW j \in 1 .. i - 1, <<ids[j], ids[j + 1]>> = merges[r]
      PROVE  FALSE
  <2>0. DOMAIN merges = 1 .. Len(merges)
    BY <1>1
  <2>1. j \in 1 .. Len(ids) - 1 /\ j < i /\ r \in DOMAIN merges
    <3> HIDE DEF r, i, merges
    <3> QED
      BY <1>1, <1>2, <1>3, <2>0
  <2>2. j \in Mergeable /\ Rank(j) <= r
    BY <1>4, <1>8, <2>1
  <2> HIDE DEF r, i
  <2>3. Rank(j) \in Nat /\ (r < Rank(j) \/ i <= j)
    BY <1>2, <1>5, <2>2
  <2>4. i \in Nat
    BY <1>1, <1>2
  <2> QED
    BY <1>3, <2>1, <2>2, <2>3, <2>4
<1> HIDE DEF r, i, merges
<1>9. NoneOf(ids, merges, r - 1) /\ NotIn(ids, merges[r], i)
  BY <1>7, <1>8 DEF NoneOf, Has, NotIn
<1>10. Lowest(ids, merges, r, i)
  BY <1>3, <1>9 DEF Lowest
<1> QED
  BY <1>3, <1>10 DEF merges, i

\* Each step stays on the way.
LEMMA OnTheWayInductive == TkInv /\ OnTheWay /\ [TokenizerNext]_tokenizerVars => OnTheWay'
<1> SUFFICES ASSUME TkInv, OnTheWay, [TokenizerNext]_tokenizerVars,
                    tkAt' = "merge", MadeBefore(input.merges)'
             PROVE  (MergedBy(ids, input.merges) = MergedBy(Singles(FlattenSeq(ids)), input.merges))'
  BY DEF OnTheWay
<1>1. CASE NextChunk
  <2> DEFINE t == Head(segs).chars
             end == ChunkEnd(t, at)
             pieces == [i \in 1 .. end - at |-> <<t[at + i - 1]>>]
             x == SubSeq(t, at, end - 1)
  <2>1. ids' = pieces
    <3>1. tkAt # "failed" /\ tkAt' # "failed"
      BY <1>1 DEF NextChunk
    <3> QED
      BY <1>1, <3>1 DEF NextChunk
  <2>2. t \in Seq(Chars) /\ at \in 1 .. Len(t) /\ end \in at + 1 .. Len(t) + 1
    <3>1. segs # <<>> /\ segs \in Seq(Segments) /\ at \in Nat \ {0} /\ at <= Len(t)
      BY <1>1 DEF NextChunk, TkInv, TkTypes, TkPlaces
    <3>2. Head(segs) \in Segments
      BY <3>1
    <3>3. t \in Seq(Chars)
      BY <3>2 DEF Segments
    <3>4. at \in 1 .. Len(t)
      BY <3>1, <3>3
    <3> HIDE DEF t
    <3> QED
      BY <3>3, <3>4, ChunkEndInText
  <2> HIDE DEF t, end
  <2>3. FlattenSeq(pieces) = x
    BY <2>2, Pieces
  <2>4. x \in Seq(Chars) /\ Len(x) = end - at /\ \A i \in 1 .. end - at : x[i] = t[at + i - 1]
    <3>1. at \in 1 .. Len(t) + 1 /\ end \in at .. Len(t) + 1
      BY <2>2
    <3> QED
      BY <2>2, <3>1, CutAt
  <2>5. pieces = Singles(x)
    BY <2>4 DEF Singles
  <2> HIDE DEF pieces, x
  <2>6. ids' = Singles(FlattenSeq(ids'))
    BY <2>1, <2>3, <2>5
  <2> QED
    BY <2>6
<1>2. CASE Merge
  <2> DEFINE i == BestPair
  <2>1. tkAt = "merge" /\ Mergeable # {} /\ input' = input /\ ids' = Joined(ids, i)
    BY <1>2 DEF Merge, MayMerge, Joined
  <2>2. ids \in Seq(Seq(Chars)) /\ input \in Inputs /\ ids \in Tokens
    BY DEF TkInv, TkTypes, Tokens
  <2>3. i \in 1 .. Len(ids) - 1
    BY <2>1, <2>2, BestPairIs
  <2>4. PICK r \in 1 .. Len(input.merges) : Lowest(ids, input.merges, r, i)
    BY <2>1, <2>2, BestIsLowest
  <2>5. MadeBefore(input.merges) /\ input.merges \in Seq(Seq(Chars) \X Seq(Chars))
    BY <2>1, <2>2, InputFields
  <2> HIDE DEF i
  <2>6. MergedBy(ids, input.merges) = MergedBy(Joined(ids, i), input.merges)
    BY <2>2, <2>3, <2>4, <2>5, LowestJoined
  <2>7. FlattenSeq(ids') = FlattenSeq(ids)
    <3>1. ids' = SubSeq(ids, 1, i - 1) \o <<ids[i] \o ids[i + 1]>> \o SubSeq(ids, i + 2, Len(ids))
      BY <2>1 DEF Joined
    <3> QED
      BY <2>2, <2>3, <3>1, MergedText
  <2>8. MergedBy(ids, input.merges) = MergedBy(Singles(FlattenSeq(ids)), input.merges)
    BY <2>1, <2>5 DEF OnTheWay
  <2>9. MergedBy(ids', input') = MergedBy(ids', input)
    BY <2>1
  <2>10. MergedBy(ids', input'.merges) = MergedBy(Singles(FlattenSeq(ids')), input'.merges)
    BY <2>1, <2>6, <2>7, <2>8
  <2> QED
    BY <2>10
<1>3. CASE CutSpecial \/ CutRest \/ EmitSpecial \/ EncodeEnds \/ EndChunk
  BY <1>3 DEF CutSpecial, CutRest, EmitSpecial, EncodeEnds, EndChunk
<1>4. CASE UNCHANGED tokenizerVars
  <2>1. input' = input /\ ids' = ids /\ tkAt' = tkAt
    BY <1>4 DEF tokenizerVars
  <2>2. MergedBy(ids, input.merges) = MergedBy(Singles(FlattenSeq(ids)), input.merges)
    BY <2>1 DEF OnTheWay
  <2> QED
    BY <2>1, <2>2
<1> QED
  BY <1>1, <1>2, <1>3, <1>4 DEF TokenizerNext

\* Wherever each merge of the list stands before those that its result is a part of, merging
\* the pair of the lowest rank at its first place, again and again, ends with what the merges
\* make of the chunk one after another, each wherever it applies.
THEOREM MergesAsListed ==
  TokenizerSpec => [](MadeBefore(input.merges) => MergesInRankOrder)
<1>1. TokenizerInit => OnTheWay
  BY DEF TokenizerInit, OnTheWay
<1>2. TkInv /\ OnTheWay /\ (tkAt = "merge" /\ ~MayMerge => Mergeable = {})
        => (MadeBefore(input.merges) => MergesInRankOrder)
  <2> SUFFICES ASSUME TkInv, OnTheWay, MadeBefore(input.merges), tkAt = "merge", Mergeable = {}
               PROVE  ids = MergedBy(Singles(FlattenSeq(ids)), input.merges)
    BY DEF MergesInRankOrder, MergedBy, Singles
  <2>1. ids \in Tokens /\ input.merges \in Seq(Seq(Chars) \X Seq(Chars))
    BY InputFields DEF TkInv, TkTypes, Tokens
  <2>2. NoneOf(ids, input.merges, Len(input.merges))
    <3> SUFFICES ASSUME NEW k \in 1 .. Len(input.merges), NEW i \in 1 .. Len(ids) - 1,
                        <<ids[i], ids[i + 1]>> = input.merges[k]
                 PROVE  FALSE
      BY DEF NoneOf, Has
    <3>1. k \in DOMAIN input.merges
      BY <2>1
    <3>2. i \in Mergeable
      BY <3>1 DEF Mergeable, ToSet
    <3> QED
      BY <3>2
  <2>3. MergedBy(ids, input.merges) = ids
    BY <2>1, <2>2, NothingMerged
  <2> QED
    BY <2>3 DEF OnTheWay
<1> QED
  BY <1>1, <1>2, OnTheWayInductive, TkInvariant, MergesUntilNoneIsLeft, PTL DEF TokenizerSpec
================================================================================
