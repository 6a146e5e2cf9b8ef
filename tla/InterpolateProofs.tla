-------------------------- MODULE InterpolateProofs --------------------------
(***************************************************************************)
(* Proofs about Interpolate, for every query and every list of arguments.  *)
(* They are by induction over positions in a text, in the form of a least  *)
(* or a greatest counterexample.                                           *)
(***************************************************************************)
EXTENDS Interpolate, Induction, FiniteSetTheorems, SequenceTheorems, TLAPS

----------------------------------------------------------------------------
(* Positions *)

\* The first of a set of positions, or the default.
LEMMA FirstIs ==
  ASSUME NEW S \in SUBSET Nat, NEW d
  PROVE  /\ S = {} => First(S, d) = d
         /\ S # {} => First(S, d) \in S /\ \A y \in S : First(S, d) <= y
<1>1. CASE S = {}
  BY <1>1 DEF First
<1>2. CASE S # {}
  BY <1>2, MinIs DEF First
<1> QED
  BY <1>1, <1>2

----------------------------------------------------------------------------
(* The reader *)

Text == Seq(Characters)

Before(r, i) == IF i = 1 THEN Fresh ELSE r[i - 1]

\* r is what the reader knows after each character of s.
IsReading(r, s) == r = [i \in 1..Len(s) |-> After(Before(r, i), s[i])]

\* Read is defined: every text has a reading.
LEMMA ReadIsReading ==
  ASSUME NEW s \in Text
  PROVE  IsReading(Read(s), s)
<1> DEFINE D(r, i) == After(Before(r, i), s[i])
           P(n) == \E r : r = [i \in 1..n |-> D(r, i)]
<1>0. Len(s) \in Nat
  BY DEF Text
<1>1. P(0)
  <2>1. <<>> = [i \in 1..0 |-> D(<<>>, i)]
    OBVIOUS
  <2> QED
    BY <2>1
<1>2. ASSUME NEW n \in Nat, P(n)
      PROVE  P(n + 1)
  <2>1. PICK r : r = [i \in 1..n |-> D(r, i)]
    BY <1>2
  <2> DEFINE q == [i \in 1..(n + 1) |-> IF i <= n THEN r[i] ELSE D(r, n + 1)]
  <2>2. \A i \in 1..(n + 1) : Before(q, i) = Before(r, i)
    BY DEF Before
  <2>3. \A i \in 1..n : r[i] = D(r, i)
    BY <2>1
  <2>4. \A i \in 1..(n + 1) : q[i] = D(q, i)
    <3> SUFFICES ASSUME NEW i \in 1..(n + 1)
                 PROVE  q[i] = D(q, i)
      OBVIOUS
    <3>1. D(q, i) = D(r, i)
      BY <2>2
    <3>2. i <= n \/ i = n + 1
      OBVIOUS
    <3> QED
      BY <3>1, <3>2, <2>3
  <2>5. q = [i \in 1..(n + 1) |-> D(q, i)]
    BY <2>4
  <2> HIDE DEF q
  <2> QED
    BY <2>5
<1>3. P(Len(s))
  <2> DEFINE U == {n \in 0..Len(s) : P(n)}
  <2> HIDE DEF P
  <2>1. 0 \in U /\ \A n \in 0..(Len(s) - 1) : n \in U => n + 1 \in U
    BY <1>0, <1>1, <1>2
  <2> HIDE DEF U
  <2>2. 0..Len(s) \subseteq U
    BY <1>0, <2>1, Upwards
  <2> QED
    BY <1>0, <2>2 DEF U
<1>4. Read(s) = CHOOSE r : r = [i \in 1..Len(s) |-> D(r, i)]
  BY DEF Read, Before
<1> QED
  BY <1>3, <1>4 DEF IsReading

\* A reading goes on from character to character.
LEMMA ReadingAt ==
  ASSUME NEW s \in Text, NEW r, IsReading(r, s), NEW i \in 1..Len(s)
  PROVE  r[i] = After(Before(r, i), s[i])
BY DEF IsReading

\* A text has one reading.
LEMMA ReadingUnique ==
  ASSUME NEW s \in Text, NEW r, IsReading(r, s)
  PROVE  r = Read(s)
<1> DEFINE R == Read(s)
           U == {i \in 1..Len(s) : r[i] = R[i]}
<1>1. IsReading(R, s)
  BY ReadIsReading
<1>2. Len(s) \in Nat
  BY DEF Text
<1> HIDE DEF R
<1>3. 1 <= Len(s) => 1 \in U
  <2> SUFFICES ASSUME 1 <= Len(s)
               PROVE  r[1] = R[1]
    BY <1>2
  <2>1. 1 \in 1..Len(s)
    BY <1>2
  <2>2. r[1] = After(Fresh, s[1]) /\ R[1] = After(Fresh, s[1])
    BY <2>1, <1>1, ReadingAt DEF Before
  <2> QED
    BY <2>2
<1>4. ASSUME NEW i \in 1..(Len(s) - 1), i \in U
      PROVE  i + 1 \in U
  <2>1. i + 1 \in 1..Len(s) /\ i + 1 # 1 /\ (i + 1) - 1 = i
    BY <1>2
  <2>2. Before(r, i + 1) = Before(R, i + 1)
    BY <1>4, <2>1 DEF Before
  <2> QED
    BY <2>1, <2>2, <1>1, ReadingAt
<1>5. 1..Len(s) \subseteq U
  <2> HIDE DEF U
  <2> QED
    BY <1>2, <1>3, <1>4, Upwards
<1>6. r = [i \in 1..Len(s) |-> r[i]] /\ R = [i \in 1..Len(s) |-> R[i]]
  BY <1>1 DEF IsReading
<1>7. \A i \in 1..Len(s) : r[i] = R[i]
  BY <1>5
<1> QED
  BY <1>6, <1>7 DEF R

\* No character is none of the characters that matter.
LEMMA NoneIs == None \notin Quotes \cup {"-", "/", "*", "?"}
BY Zenon DEF None, Quotes, Quote

\* In code, with nothing before that a comment could begin with.
Calm(st) == st.mode = "code" /\ st.prev \notin {"-", "/"}

\* What a character does to code.
LEMMA AfterCode ==
  ASSUME NEW st, NEW c, st.mode = "code"
  PROVE  /\ c \in Quotes => After(st, c).mode = c
         /\ st.prev = "-" /\ c = "-" => After(st, c).mode = "line"
         /\ st.prev = "/" /\ c = "*" => After(st, c).mode = "block" /\ After(st, c).prev # "*"
         /\ c \notin Quotes /\ ~(st.prev = "-" /\ c = "-") /\ ~(st.prev = "/" /\ c = "*") =>
              After(st, c) = [mode |-> "code", prev |-> c]
BY DEF After, Reads, Quotes, Quote, None

\* A quote opens the same region after everything but the same quote.
LEMMA AfterQuote ==
  ASSUME NEW x, NEW y, NEW c \in Quotes, x.mode = "code", y.mode = "code", x.prev # c, y.prev # c
  PROVE  After(x, c) = After(y, c)
BY DEF After, Reads, Quotes, Quote

\* What a character does to a comment.
LEMMA AfterComment ==
  ASSUME NEW st, NEW c
  PROVE  /\ st.mode = "line" /\ c = "nl" => Calm(After(st, c))
         /\ st.mode = "line" /\ c # "nl" => After(st, c).mode = "line"
         /\ st.mode = "block" /\ st.prev = "*" /\ c = "/" => Calm(After(st, c))
         /\ st.mode = "block" /\ ~(st.prev = "*" /\ c = "/") => After(st, c) = [mode |-> "block", prev |-> c]
BY DEF Calm, After, Reads, Quotes, Quote, None

\* What a character does to a quoted region.
LEMMA AfterQuoted ==
  ASSUME NEW st, NEW c, st.mode \in Quotes
  PROVE  /\ c = st.mode => After(st, c) = [mode |-> "code", prev |-> c]
         /\ c # st.mode => After(st, c) = [mode |-> st.mode, prev |-> c]
BY DEF After, Reads, Quotes, Quote, None

----------------------------------------------------------------------------
(* The scanner jumps where the reader walks *)

\* g is the loop of skipQuoted on s for the quote q, from position k on.
PastEq(g, s, q, k) ==
  g = [j \in k..(Len(s) + 2) |->
         IF j > Len(s) THEN Len(s) + 1
         ELSE IF s[j] # q THEN g[j + 1]
         ELSE IF At(s, j + 1, q) THEN g[j + 2] ELSE j + 1]

\* The loop of skipQuoted is defined from every position.
LEMMA PastExists ==
  ASSUME NEW s \in Text, NEW q, NEW k \in 1..(Len(s) + 2)
  PROVE  \E g : PastEq(g, s, q, k)
<1> DEFINE N == Len(s) + 2
           P(m) == \E g : PastEq(g, s, q, m)
           U == {m \in 1..N : P(m)}
<1>1. Len(s) \in Nat
  BY DEF Text
<1>2. P(N)
  <2> DEFINE g == [j \in N..N |-> Len(s) + 1]
  <2>1. PastEq(g, s, q, N)
    BY <1>1 DEF PastEq
  <2> QED
    BY <2>1
<1>3. ASSUME NEW m \in 1..(N - 1), P(m + 1)
      PROVE  P(m)
  <2>1. PICK g : PastEq(g, s, q, m + 1)
    BY <1>3
  <2> DEFINE D(h, j) == IF j > Len(s) THEN Len(s) + 1
                        ELSE IF s[j] # q THEN h[j + 1]
                        ELSE IF At(s, j + 1, q) THEN h[j + 2] ELSE j + 1
             h == [j \in m..N |-> IF j = m THEN D(g, m) ELSE g[j]]
  <2>2. \A j \in (m + 1)..N : h[j] = g[j] /\ g[j] = D(g, j)
    BY <1>1, <2>1 DEF PastEq
  <2>3. \A j \in m..N : D(h, j) = D(g, j)
    <3> SUFFICES ASSUME NEW j \in m..N
                 PROVE  D(h, j) = D(g, j)
      OBVIOUS
    <3>1. CASE j > Len(s)
      BY <3>1
    <3>2. CASE j <= Len(s)
      <4>1. j + 1 \in (m + 1)..N /\ j + 2 \in (m + 1)..N
        BY <3>2, <1>1
      <4>2. h[j + 1] = g[j + 1] /\ h[j + 2] = g[j + 2]
        BY <4>1, <2>2
      <4> HIDE DEF h
      <4> QED
        BY <4>2
    <3> QED
      BY <3>1, <3>2, <1>1
  <2>4. \A j \in m..N : h[j] = D(h, j)
    <3> SUFFICES ASSUME NEW j \in m..N
                 PROVE  h[j] = D(g, j)
      BY <2>3
    <3>1. CASE j = m
      BY <3>1
    <3>2. CASE j # m
      <4>1. j \in (m + 1)..N
        BY <3>2
      <4> QED
        BY <4>1, <2>2
    <3> QED
      BY <3>1, <3>2
  <2>5. PastEq(h, s, q, m)
    BY <2>4 DEF PastEq
  <2> HIDE DEF h
  <2> QED
    BY <2>5
<1>4. 1..N \subseteq U
  <2> HIDE DEF P
  <2>1. \A m \in 1..N : (m + 1)..N \subseteq U => m \in U
    <3> SUFFICES ASSUME NEW m \in 1..N, (m + 1)..N \subseteq U
                 PROVE  P(m)
      OBVIOUS
    <3>1. CASE m = N
      BY <3>1, <1>2
    <3>2. CASE m # N
      <4>1. m \in 1..(N - 1) /\ m + 1 \in (m + 1)..N
        BY <3>2, <1>1
      <4> QED
        BY <4>1, <1>3
    <3> QED
      BY <3>1, <3>2
  <2> HIDE DEF U
  <2>2. N \in Nat
    BY <1>1
  <2> QED
    BY <2>1, <2>2, Downwards
<1> QED
  BY <1>4

\* skipQuoted unfolds.
LEMMA PastIs ==
  ASSUME NEW s \in Text, NEW i \in 1..Len(s)
  PROVE  \E g : PastEq(g, s, s[i], i + 1) /\ skipQuoted(s, i) = g[i + 1]
<1>1. i + 1 \in 1..(Len(s) + 2)
  BY DEF Text
<1>2. PastEq(CHOOSE g : PastEq(g, s, s[i], i + 1), s, s[i], i + 1)
  BY <1>1, PastExists
<1>3. skipQuoted(s, i) = (CHOOSE g : PastEq(g, s, s[i], i + 1))[i + 1]
  BY DEF skipQuoted, PastEq
<1> QED
  BY <1>2, <1>3

\* skipQuoted moves on, and stays in the text.
LEMMA SkipQuotedRange ==
  ASSUME NEW s \in Text, NEW i \in 1..Len(s)
  PROVE  skipQuoted(s, i) \in (i + 1)..(Len(s) + 1)
<1> DEFINE N == Len(s) + 2
<1>1. PICK g : PastEq(g, s, s[i], i + 1) /\ skipQuoted(s, i) = g[i + 1]
  BY PastIs
<1> DEFINE U == {j \in (i + 1)..N : j <= Len(s) + 1 => g[j] \in j..(Len(s) + 1)}
<1>2. Len(s) \in Nat
  BY DEF Text
<1>3. ASSUME NEW j \in (i + 1)..N, (j + 1)..N \subseteq U
      PROVE  j \in U
  <2>1. g[j] = IF j > Len(s) THEN Len(s) + 1
               ELSE IF s[j] # s[i] THEN g[j + 1]
               ELSE IF At(s, j + 1, s[i]) THEN g[j + 2] ELSE j + 1
    BY <1>1 DEF PastEq
  <2>2. CASE j > Len(s)
    BY <2>1, <2>2, <1>2
  <2>3. CASE j <= Len(s)
    <3>1. g[j + 1] \in (j + 1)..(Len(s) + 1)
      BY <2>3, <1>2, <1>3
    <3>2. At(s, j + 1, s[i]) => g[j + 2] \in (j + 2)..(Len(s) + 1)
      BY <2>3, <1>2, <1>3 DEF At
    <3>3. g[j] = g[j + 1] \/ (At(s, j + 1, s[i]) /\ g[j] = g[j + 2]) \/ g[j] = j + 1
      BY <2>1, <2>3, <1>2
    <3> QED
      BY <3>1, <3>2, <3>3, <2>3, <1>2
  <2> QED
    BY <2>2, <2>3, <1>2
<1>4. (i + 1)..N \subseteq U
  <2> HIDE DEF U
  <2>1. i + 1 \in Nat /\ N \in Nat
    BY <1>2
  <2> QED
    BY <2>1, <1>3, Downwards
<1>5. i + 1 \in (i + 1)..N /\ i + 1 <= Len(s) + 1
  BY <1>2
<1> QED
  BY <1>1, <1>4, <1>5

\* A placeholder to the reader whose reading of s is r.
Mark(s, r, j) == s[j] = "?" /\ r[j].mode = "code"

\* The scanner leaves a quoted region where the reader does, and there is no
\* placeholder in it.
LEMMA SkipQuoted ==
  ASSUME NEW s \in Text, NEW r, IsReading(r, s), NEW i \in 1..Len(s),
         s[i] \in Quotes, r[i].mode = s[i]
  PROVE  /\ skipQuoted(s, i) \in (i + 1)..(Len(s) + 1)
         /\ \A j \in (i + 1)..(skipQuoted(s, i) - 1) : ~Mark(s, r, j)
         /\ skipQuoted(s, i) <= Len(s) =>
              r[skipQuoted(s, i) - 1] = [mode |-> "code", prev |-> s[i]]
<1> DEFINE q == s[i]
           N == Len(s) + 2
<1>1. Len(s) \in Nat
  BY DEF Text
<1>2. PICK g : PastEq(g, s, q, i + 1) /\ skipQuoted(s, i) = g[i + 1]
  BY PastIs
<1> DEFINE Good(j, n) == /\ n \in j..(Len(s) + 1)
                         /\ \A k \in j..(n - 1) : ~Mark(s, r, k)
                         /\ n <= Len(s) => r[n - 1] = [mode |-> "code", prev |-> q]
           Claim(j) == j <= Len(s) + 1 /\ (j <= Len(s) => r[j - 1].mode = q) => Good(j, g[j])
           U == {j \in (i + 1)..N : Claim(j)}
<1>4. \A j \in (i + 1)..N : g[j] = IF j > Len(s) THEN Len(s) + 1
                                    ELSE IF s[j] # q THEN g[j + 1]
                                    ELSE IF At(s, j + 1, q) THEN g[j + 2] ELSE j + 1
  BY <1>2 DEF PastEq
<1>5. ASSUME NEW j \in (i + 1)..N, (j + 1)..N \subseteq U
      PROVE  j \in U
  <2> SUFFICES ASSUME j <= Len(s) + 1, j <= Len(s) => r[j - 1].mode = q
               PROVE  Good(j, g[j])
    OBVIOUS
  <2>1. CASE j > Len(s)
    <3>1. j = Len(s) + 1 /\ g[j] = Len(s) + 1
      BY <2>1, <1>1, <1>4
    <3> QED
      BY <3>1, <1>1
  <2>2. CASE j <= Len(s)
    <3>1. j \in 1..Len(s) /\ j # 1 /\ r[j - 1].mode = q
      BY <2>2
    <3>2. r[j] = After(r[j - 1], s[j])
      BY <3>1, ReadingAt DEF Before
    <3>3. CASE s[j] # q
      <4>1. r[j].mode = q
        BY <3>1, <3>2, <3>3, AfterQuoted
      <4>2. q # "code"
        BY DEF Quotes, Quote
      <4>3. ~Mark(s, r, j)
        BY <4>1, <4>2 DEF Mark
      <4>4. j + 1 \in (j + 1)..N /\ j + 1 <= Len(s) + 1 /\ (j + 1) - 1 = j
        BY <2>2, <1>1
      <4>5. Good(j + 1, g[j + 1])
        BY <4>1, <4>4, <1>5
      <4>6. g[j] = g[j + 1]
        BY <2>2, <3>3, <1>4
      <4>7. g[j] \in j..(Len(s) + 1) /\ \A k \in j..(g[j] - 1) : k = j \/ k \in (j + 1)..(g[j + 1] - 1)
        BY <4>5, <4>6, <4>4
      <4> QED
        BY <4>3, <4>5, <4>6, <4>7
    <3>4. CASE s[j] = q /\ At(s, j + 1, q)
      <4>1. j + 1 \in 1..Len(s) /\ s[j + 1] = q /\ j + 1 # 1 /\ (j + 1) - 1 = j
        BY <3>4, <3>1 DEF At
      <4>2. r[j] = [mode |-> "code", prev |-> q]
        BY <3>1, <3>2, <3>4, AfterQuoted
      <4>3. r[j + 1] = After(r[j], q)
        BY <4>1, ReadingAt DEF Before
      <4>4. r[j + 1].mode = q
        <5>1. r[j].mode = "code" /\ q \in Quotes
          BY <4>2
        <5>2. After(r[j], q).mode = q
          BY <5>1, AfterCode
        <5> QED
          BY <4>3, <5>2
      <4>5. ~Mark(s, r, j) /\ ~Mark(s, r, j + 1)
        BY <3>4, <4>1 DEF Mark, Quotes, Quote
      <4>6. j + 2 \in (j + 1)..N /\ j + 2 <= Len(s) + 1 /\ (j + 2) - 1 = j + 1
        <5>1. j \in Int /\ Len(s) \in Int /\ j + 1 <= Len(s)
          BY <4>1, <1>1
        <5> QED
          BY <5>1
      <4>7. Good(j + 2, g[j + 2])
        BY <4>4, <4>6, <1>5
      <4>8. g[j] = g[j + 2]
        BY <2>2, <3>4, <1>4
      <4>9. g[j] \in j..(Len(s) + 1)
              /\ \A k \in j..(g[j] - 1) : k = j \/ k = j + 1 \/ k \in (j + 2)..(g[j + 2] - 1)
        BY <4>7, <4>8, <4>6
      <4> QED
        BY <4>5, <4>7, <4>8, <4>9
    <3>5. CASE s[j] = q /\ ~At(s, j + 1, q)
      <4>1. r[j] = [mode |-> "code", prev |-> q]
        BY <3>1, <3>2, <3>5, AfterQuoted
      <4>2. g[j] = j + 1
        BY <2>2, <3>5, <1>4
      <4>3. ~Mark(s, r, j)
        BY <3>5 DEF Mark, Quotes, Quote
      <4>4. \A k \in j..((j + 1) - 1) : k = j
        OBVIOUS
      <4> QED
        BY <4>1, <4>2, <4>3, <4>4, <2>2, <1>1
    <3> QED
      BY <3>3, <3>4, <3>5
  <2> QED
    BY <2>1, <2>2, <1>1
<1>6. (i + 1)..N \subseteq U
  <2> HIDE DEF U
  <2>1. i + 1 \in Nat /\ N \in Nat
    BY <1>1
  <2> QED
    BY <2>1, <1>5, Downwards
<1>7. i + 1 \in (i + 1)..N /\ i + 1 <= Len(s) + 1 /\ (i + 1) - 1 = i
  BY <1>1
<1>8. Good(i + 1, g[i + 1])
  BY <1>6, <1>7
<1> QED
  BY <1>2, <1>8

\* The scanner stops before the newline that ends a line comment, where the
\* reader is still in the comment.
LEMMA SkipLine ==
  ASSUME NEW s \in Text, NEW r, IsReading(r, s), NEW i \in 1..Len(s),
         i < Len(s), s[i] = "-", s[i + 1] = "-", r[i + 1].mode = "line"
  PROVE  /\ skipLine(s, i) \in (i + 2)..(Len(s) + 1)
         /\ \A j \in (i + 1)..(skipLine(s, i) - 1) : ~Mark(s, r, j)
         /\ skipLine(s, i) <= Len(s) =>
              s[skipLine(s, i)] = "nl" /\ r[skipLine(s, i) - 1].mode = "line"
<1> DEFINE S == {j \in i..Len(s) : s[j] = "nl"}
           n == skipLine(s, i)
           U == {j \in (i + 1)..(n - 1) : r[j].mode = "line"}
<1>1. Len(s) \in Nat /\ S \in SUBSET Nat
  BY DEF Text
<1>2. n = First(S, Len(s) + 1)
  BY DEF skipLine
<1>3. n \in (i + 2)..(Len(s) + 1) /\ \A j \in i..(n - 1) : s[j] # "nl"
  <2>1. CASE S = {}
    <3>1. n = Len(s) + 1
      BY <2>1, <1>1, <1>2, FirstIs
    <3> QED
      BY <2>1, <3>1, <1>1
  <2>2. CASE S # {}
    <3>1. n \in S /\ \A y \in S : n <= y
      <4> HIDE DEF S, n
      <4> QED
        BY <2>2, <1>1, <1>2, FirstIs
    <3>2. n # i /\ n # i + 1
      BY <3>1
    <3> QED
      BY <3>1, <3>2, <1>1
  <2> QED
    BY <2>1, <2>2
<1>4. n <= Len(s) => s[n] = "nl"
  <2> SUFFICES ASSUME n <= Len(s)
               PROVE  n \in S
    OBVIOUS
  <2>1. S # {}
    <3> SUFFICES ASSUME S = {}
                 PROVE  FALSE
      OBVIOUS
    <3>1. n = Len(s) + 1
      BY <1>1, <1>2, FirstIs
    <3> QED
      BY <3>1, <1>1
  <2> HIDE DEF S, n
  <2> QED
    BY <2>1, <1>1, <1>2, FirstIs
<1> HIDE DEF n
<1>5. (i + 1)..(n - 1) \subseteq U
  <2>1. i + 1 <= n - 1 => i + 1 \in U
    OBVIOUS
  <2>2. ASSUME NEW j \in (i + 1)..((n - 1) - 1), j \in U
        PROVE  j + 1 \in U
    <3>1. j + 1 \in (i + 1)..(n - 1) /\ j + 1 \in 1..Len(s) /\ j + 1 # 1 /\ (j + 1) - 1 = j
      BY <1>1, <1>3
    <3>2. r[j + 1] = After(r[j], s[j + 1]) /\ s[j + 1] # "nl"
      BY <3>1, <1>3, ReadingAt DEF Before
    <3>3. After(r[j], s[j + 1]).mode = "line"
      <4>1. r[j].mode = "line"
        BY <2>2
      <4> QED
        BY <4>1, <3>2, AfterComment
    <3> QED
      BY <3>1, <3>2, <3>3
  <2>3. i + 1 \in Nat /\ n - 1 \in Nat
    BY <1>1, <1>3
  <2> HIDE DEF U
  <2> QED
    BY <2>1, <2>2, <2>3, Upwards
<1>6. \A j \in (i + 1)..(n - 1) : ~Mark(s, r, j)
  BY <1>5 DEF Mark
<1>7. n <= Len(s) => r[n - 1].mode = "line"
  <2>1. n - 1 \in (i + 1)..(n - 1)
    BY <1>1, <1>3
  <2> QED
    BY <2>1, <1>5
<1> QED
  BY <1>3, <1>4, <1>6, <1>7 DEF n

\* The scanner leaves a block comment where the reader does.
LEMMA SkipBlock ==
  ASSUME NEW s \in Text, NEW r, IsReading(r, s), NEW i \in 1..Len(s),
         i < Len(s), s[i] = "/", s[i + 1] = "*",
         r[i + 1].mode = "block", r[i + 1].prev # "*"
  PROVE  /\ skipBlock(s, i) \in (i + 2)..(Len(s) + 1)
         /\ \A j \in (i + 1)..(skipBlock(s, i) - 1) : ~Mark(s, r, j)
         /\ skipBlock(s, i) <= Len(s) => Calm(r[skipBlock(s, i) - 1])
<1> DEFINE Ends(k) == s[k] = "*" /\ At(s, k + 1, "/")
           S == {j + 2 : j \in {k \in (i + 2)..Len(s) : s[k] = "*" /\ At(s, k + 1, "/")}}
           n == skipBlock(s, i)
<1>1. Len(s) \in Nat /\ S \in SUBSET Nat
  BY DEF Text
<1>2. n = First(S, Len(s) + 1)
  BY DEF skipBlock
<1>3. \A k \in (i + 2)..Len(s) : Ends(k) => k + 2 \in S
  OBVIOUS
<1>4. \A x \in S : \E k \in (i + 2)..(Len(s) - 1) : x = k + 2 /\ Ends(k)
  BY <1>1 DEF At
<1> HIDE DEF S
\* Up to m the comment is not over.
<1>5. ASSUME NEW m \in (i + 1)..Len(s), \A k \in (i + 2)..(m - 1) : ~Ends(k)
      PROVE  \A j \in (i + 1)..m : r[j].mode = "block" /\ (j > i + 1 => r[j].prev = s[j])
  <2> DEFINE V == {j \in (i + 1)..m : r[j].mode = "block" /\ (j = i + 1 \/ r[j].prev = s[j])}
  <2>1. i + 1 \in V
    OBVIOUS
  <2>2. ASSUME NEW j \in (i + 1)..(m - 1), j \in V
        PROVE  j + 1 \in V
    <3>1. j + 1 \in (i + 1)..m /\ j + 1 \in 1..Len(s) /\ j + 1 # 1 /\ (j + 1) - 1 = j /\ j + 1 # i + 1
      BY <1>1
    <3>2. r[j + 1] = After(r[j], s[j + 1])
      BY <3>1, ReadingAt DEF Before
    <3>3. ~(r[j].prev = "*" /\ s[j + 1] = "/")
      <4>1. CASE j = i + 1
        BY <4>1
      <4>2. CASE j # i + 1
        <5>1. j \in (i + 2)..(m - 1)
          BY <4>2
        <5>2. r[j].prev = s[j] /\ ~Ends(j)
          BY <2>2, <4>2, <5>1, <1>5
        <5> QED
          BY <5>2, <3>1 DEF At
      <4> QED
        BY <4>1, <4>2
    <3>4. r[j].mode = "block"
      BY <2>2
    <3>5. r[j + 1] = [mode |-> "block", prev |-> s[j + 1]]
      BY <3>2, <3>3, <3>4, AfterComment
    <3> QED
      BY <3>1, <3>5
  <2>3. (i + 1)..m \subseteq V
    <3> HIDE DEF V
    <3>1. i + 1 \in Nat /\ m \in Nat
      BY <1>1
    <3> QED
      BY <3>1, <2>1, <2>2, Upwards
  <2> QED
    BY <2>3
<1>6. CASE S = {}
  <2>1. n = Len(s) + 1
    BY <1>6, <1>1, <1>2, FirstIs
  <2>2. \A k \in (i + 2)..(Len(s) - 1) : ~Ends(k)
    BY <1>6, <1>3, <1>1
  <2>3. Len(s) \in (i + 1)..Len(s)
    BY <1>1
  <2>4. \A j \in (i + 1)..Len(s) : r[j].mode = "block"
    BY <2>2, <2>3, <1>5
  <2>5. \A j \in (i + 1)..(n - 1) : ~Mark(s, r, j)
    BY <2>1, <2>4, <1>1 DEF Mark
  <2>6. n \in (i + 2)..(Len(s) + 1) /\ ~(n <= Len(s))
    BY <2>1, <1>1
  <2> QED
    BY <2>5, <2>6
<1>7. CASE S # {}
  <2>1. n \in S /\ \A y \in S : n <= y
    <3> HIDE DEF n
    <3> QED
      BY <1>7, <1>1, <1>2, FirstIs
  <2>2. PICK k \in (i + 2)..(Len(s) - 1) : n = k + 2 /\ Ends(k)
    BY <2>1, <1>4
  <2> HIDE DEF n
  <2>3. \A l \in (i + 2)..(k - 1) : ~Ends(l)
    <3> SUFFICES ASSUME NEW l \in (i + 2)..(k - 1), Ends(l)
                 PROVE  FALSE
      OBVIOUS
    <3>1. l + 2 \in S
      BY <1>3, <1>1
    <3> QED
      BY <3>1, <2>1, <2>2
  <2>4. k \in (i + 1)..Len(s) /\ k > i + 1
    BY <1>1
  <2>5. \A j \in (i + 1)..k : r[j].mode = "block" /\ (j > i + 1 => r[j].prev = s[j])
    <3> HIDE DEF Ends
    <3> QED
      BY <2>3, <2>4, <1>5
  <2>6. r[k].mode = "block" /\ r[k].prev = "*"
    BY <2>2, <2>4, <2>5
  <2>7. k + 1 \in 1..Len(s) /\ s[k + 1] = "/" /\ k + 1 # 1 /\ (k + 1) - 1 = k
    BY <2>2 DEF At
  <2>8. Calm(r[k + 1])
    <3>1. r[k + 1] = After(r[k], s[k + 1])
      BY <2>7, ReadingAt DEF Before
    <3> QED
      BY <3>1, <2>6, <2>7, AfterComment DEF Calm
  <2>9. \A j \in (i + 1)..(n - 1) : ~Mark(s, r, j)
    <3> SUFFICES ASSUME NEW j \in (i + 1)..(n - 1)
                 PROVE  ~Mark(s, r, j)
      OBVIOUS
    <3>1. j \in (i + 1)..k \/ j = k + 1
      BY <2>2
    <3> QED
      BY <3>1, <2>5, <2>7 DEF Mark
  <2>10. n \in (i + 2)..(Len(s) + 1) /\ n - 1 = k + 1
    BY <2>2, <1>1
  <2> QED
    BY <2>8, <2>9, <2>10 DEF n
<1> QED
  BY <1>6, <1>7

\* Position i is where the reader, too, expects something new: code in which
\* s[i] does not complete a comment delimiter, or the end of a line comment.
Clean(s, r, i) ==
  \/ i > Len(s)
  \/ /\ Before(r, i).mode = "code"
     /\ ~(Before(r, i).prev = "-" /\ s[i] = "-") /\ ~(Before(r, i).prev = "/" /\ s[i] = "*")
  \/ Before(r, i).mode = "line" /\ s[i] = "nl"

\* An iteration of the loop moves on, and stays in the text.
LEMMA NextRange ==
  ASSUME NEW s \in Text, NEW i \in 1..Len(s)
  PROVE  next(s, i) \in (i + 1)..(Len(s) + 1)
<1>1. Len(s) \in Nat
  BY DEF Text
<1>2. CASE s[i] \in Quotes
  <2>1. next(s, i) = skipQuoted(s, i)
    BY <1>2 DEF next, Quotes, Quote
  <2> QED
    BY <2>1, SkipQuotedRange
<1>3. CASE s[i] = "-" /\ At(s, i + 1, "-")
  <2> DEFINE S == {j \in i..Len(s) : s[j] = "nl"}
  <2>1. S \in SUBSET Nat /\ next(s, i) = First(S, Len(s) + 1)
    BY <1>3 DEF next, skipLine, Quotes, Quote
  <2>2. \A x \in S : x \in (i + 1)..(Len(s) + 1)
    BY <1>1, <1>3
  <2> HIDE DEF S
  <2>3. Len(s) + 1 \in (i + 1)..(Len(s) + 1)
    BY <1>1
  <2>4. First(S, Len(s) + 1) = Len(s) + 1 \/ First(S, Len(s) + 1) \in S
    BY <2>1, FirstIs
  <2> QED
    BY <2>1, <2>2, <2>3, <2>4
<1>4. CASE s[i] = "/" /\ At(s, i + 1, "*")
  <2> DEFINE S == {j + 2 : j \in {k \in (i + 2)..Len(s) : s[k] = "*" /\ At(s, k + 1, "/")}}
  <2>1. S \in SUBSET Nat /\ next(s, i) = First(S, Len(s) + 1)
    BY <1>4 DEF next, skipBlock, Quotes, Quote
  <2>2. \A x \in S : x \in (i + 1)..(Len(s) + 1)
    BY <1>1 DEF At
  <2> HIDE DEF S
  <2>3. Len(s) + 1 \in (i + 1)..(Len(s) + 1)
    BY <1>1
  <2>4. First(S, Len(s) + 1) = Len(s) + 1 \/ First(S, Len(s) + 1) \in S
    BY <2>1, FirstIs
  <2> QED
    BY <2>1, <2>2, <2>3, <2>4
<1>5. CASE s[i] \notin Quotes /\ ~(s[i] = "-" /\ At(s, i + 1, "-")) /\ ~(s[i] = "/" /\ At(s, i + 1, "*"))
  <2>1. next(s, i) = i + 1
    BY <1>5 DEF next
  <2> QED
    BY <2>1, <1>1
<1> QED
  BY <1>2, <1>3, <1>4, <1>5

\* From a clean position an iteration of the loop leads to a clean one, and
\* passes over no placeholder but the one it may begin with.
LEMMA NextClean ==
  ASSUME NEW s \in Text, NEW r, IsReading(r, s), NEW i \in 1..Len(s), Clean(s, r, i)
  PROVE  /\ s[i] = "?" <=> Mark(s, r, i)
         /\ \A j \in (i + 1)..(next(s, i) - 1) : ~Mark(s, r, j)
         /\ Clean(s, r, next(s, i))
<1> DEFINE st == Before(r, i)
<1>1. Len(s) \in Nat
  BY DEF Text
<1>2. r[i] = After(st, s[i])
  BY ReadingAt
<1>3. i + 1 # 1 /\ (i + 1) - 1 = i
  OBVIOUS
<1>4. i < Len(s) => r[i + 1] = After(r[i], s[i + 1])
  <2> SUFFICES ASSUME i < Len(s)
               PROVE  r[i + 1] = After(r[i], s[i + 1])
    OBVIOUS
  <2>1. i + 1 \in 1..Len(s)
    BY <1>1
  <2> QED
    BY <2>1, <1>3, ReadingAt DEF Before
<1> HIDE DEF st
<1>5. CASE st.mode = "line" /\ s[i] = "nl"
  <2>1. Calm(r[i])
    BY <1>2, <1>5, AfterComment
  <2>2. next(s, i) = i + 1
    BY <1>5 DEF next, Quotes, Quote
  <2>3. Clean(s, r, i + 1)
    BY <2>1, <1>3 DEF Clean, Before, Calm
  <2> QED
    BY <1>5, <2>2, <2>3 DEF Mark
<1>6. CASE /\ st.mode = "code"
           /\ ~(st.prev = "-" /\ s[i] = "-") /\ ~(st.prev = "/" /\ s[i] = "*")
  <2>1. CASE s[i] \in Quotes
    <3>1. r[i].mode = s[i]
      BY <1>2, <1>6, <2>1, AfterCode
    <3>2. next(s, i) = skipQuoted(s, i)
      BY <2>1 DEF next, Quotes, Quote
    <3>3. s[i] # "?" /\ s[i] \notin {"-", "/"}
      BY <2>1 DEF Quotes, Quote
    <3> DEFINE n == skipQuoted(s, i)
    <3>4. /\ n \in (i + 1)..(Len(s) + 1)
          /\ \A j \in (i + 1)..(n - 1) : ~Mark(s, r, j)
          /\ n <= Len(s) => r[n - 1] = [mode |-> "code", prev |-> s[i]]
      BY <2>1, <3>1, SkipQuoted
    <3> HIDE DEF n
    <3>5. n <= Len(s) => Calm(r[n - 1])
      BY <3>3, <3>4 DEF Calm
    <3>6. Clean(s, r, n)
      <4>1. n # 1 /\ (n <= Len(s) \/ n > Len(s))
        BY <3>4, <1>1
      <4> QED
        BY <3>5, <4>1 DEF Clean, Before, Calm
    <3> QED
      BY <3>2, <3>3, <3>4, <3>6 DEF n, Mark
  <2>2. CASE s[i] \notin Quotes
    <3>1. r[i] = [mode |-> "code", prev |-> s[i]]
      BY <1>2, <1>6, <2>2, AfterCode
    <3>2. r[i].mode = "code" /\ r[i].prev = s[i]
      BY <3>1
    <3>3. s[i] = "?" <=> Mark(s, r, i)
      BY <3>2 DEF Mark
    <3>4. CASE s[i] = "-" /\ At(s, i + 1, "-")
      <4>1. i < Len(s) /\ s[i + 1] = "-"
        BY <3>4, <1>1 DEF At
      <4>2. r[i + 1].mode = "line"
        BY <4>1, <1>4, <3>2, <3>4, AfterCode
      <4> DEFINE n == skipLine(s, i)
      <4>3. next(s, i) = n
        BY <3>4, <2>2 DEF next
      <4>4. /\ n \in (i + 2)..(Len(s) + 1)
            /\ \A j \in (i + 1)..(n - 1) : ~Mark(s, r, j)
            /\ n <= Len(s) => s[n] = "nl" /\ r[n - 1].mode = "line"
        BY <3>4, <4>1, <4>2, SkipLine
      <4> HIDE DEF n
      <4>5. n # 1 /\ (n <= Len(s) \/ n > Len(s))
        BY <4>4, <1>1
      <4>6. Clean(s, r, n)
        BY <4>4, <4>5 DEF Clean, Before
      <4> QED
        BY <3>3, <4>3, <4>4, <4>6
    <3>5. CASE s[i] = "/" /\ At(s, i + 1, "*")
      <4>1. i < Len(s) /\ s[i + 1] = "*"
        BY <3>5, <1>1 DEF At
      <4>2. r[i + 1].mode = "block" /\ r[i + 1].prev # "*"
        BY <4>1, <1>4, <3>2, <3>5, AfterCode
      <4> DEFINE n == skipBlock(s, i)
      <4>3. next(s, i) = n
        BY <3>5, <2>2 DEF next
      <4>4. /\ n \in (i + 2)..(Len(s) + 1)
            /\ \A j \in (i + 1)..(n - 1) : ~Mark(s, r, j)
            /\ n <= Len(s) => Calm(r[n - 1])
        BY <3>5, <4>1, <4>2, SkipBlock
      <4> HIDE DEF n
      <4>5. n # 1 /\ (n <= Len(s) \/ n > Len(s))
        BY <4>4, <1>1
      <4>6. Clean(s, r, n)
        BY <4>4, <4>5 DEF Clean, Before, Calm
      <4> QED
        BY <3>3, <4>3, <4>4, <4>6
    <3>6. CASE ~(s[i] = "-" /\ At(s, i + 1, "-")) /\ ~(s[i] = "/" /\ At(s, i + 1, "*"))
      <4>1. next(s, i) = i + 1
        BY <3>6, <2>2 DEF next
      <4>2. CASE i + 1 > Len(s)
        BY <4>1, <4>2, <3>3 DEF Clean
      <4>3. CASE i + 1 <= Len(s)
        <5>1. ~(s[i] = "-" /\ s[i + 1] = "-") /\ ~(s[i] = "/" /\ s[i + 1] = "*")
          BY <3>6, <4>3, <1>1 DEF At
        <5>2. Before(r, i + 1) = r[i]
          BY <1>3 DEF Before
        <5>3. Clean(s, r, i + 1)
          BY <5>1, <5>2, <3>2 DEF Clean
        <5> QED
          BY <4>1, <5>3, <3>3
      <4> QED
        BY <4>2, <4>3, <1>1
    <3> QED
      BY <3>4, <3>5, <3>6
  <2> QED
    BY <2>1, <2>2
<1>7. ~(i > Len(s))
  BY <1>1
<1> QED
  BY <1>5, <1>6, <1>7 DEF Clean, st

\* Where the iterations of interpolate's loop begin, from one that begins at
\* i or where the loop ends; g has the answer for the positions after i.
From(g, s, i) == IF i > Len(s) THEN {} ELSE {i} \cup g[next(s, i)]

FromEq(g, s, k) == g = [i \in k..(Len(s) + 1) |-> From(g, s, i)]

\* The loop of interpolate is defined from every position.
LEMMA FromExists ==
  ASSUME NEW s \in Text, NEW k \in 1..(Len(s) + 1)
  PROVE  \E g : FromEq(g, s, k)
<1> DEFINE N == Len(s) + 1
           P(m) == \E g : FromEq(g, s, m)
           U == {m \in 1..N : P(m)}
<1>1. Len(s) \in Nat
  BY DEF Text
<1>2. P(N)
  <2> DEFINE g == [j \in N..N |-> {}]
  <2>1. FromEq(g, s, N)
    BY <1>1 DEF FromEq, From
  <2> QED
    BY <2>1
<1>3. ASSUME NEW m \in 1..(N - 1), P(m + 1)
      PROVE  P(m)
  <2>1. PICK g : FromEq(g, s, m + 1)
    BY <1>3
  <2> DEFINE h == [j \in m..N |-> IF j = m THEN From(g, s, m) ELSE g[j]]
  <2>2. \A j \in (m + 1)..N : h[j] = g[j] /\ g[j] = From(g, s, j)
    BY <1>1, <2>1 DEF FromEq
  <2>3. \A j \in m..N : From(h, s, j) = From(g, s, j)
    <3> SUFFICES ASSUME NEW j \in m..N
                 PROVE  From(h, s, j) = From(g, s, j)
      OBVIOUS
    <3>1. CASE j > Len(s)
      BY <3>1 DEF From
    <3>2. CASE j <= Len(s)
      <4>1. next(s, j) \in (j + 1)..(Len(s) + 1)
        BY <3>2, <1>1, NextRange
      <4>2. next(s, j) \in (m + 1)..N
        BY <4>1, <1>1
      <4>3. h[next(s, j)] = g[next(s, j)]
        BY <4>2, <2>2
      <4> HIDE DEF h
      <4> QED
        BY <4>3 DEF From
    <3> QED
      BY <3>1, <3>2, <1>1
  <2>4. \A j \in m..N : h[j] = From(h, s, j)
    <3> SUFFICES ASSUME NEW j \in m..N
                 PROVE  h[j] = From(g, s, j)
      BY <2>3
    <3>1. CASE j = m
      BY <3>1
    <3>2. CASE j # m
      <4>1. j \in (m + 1)..N
        BY <3>2
      <4> QED
        BY <4>1, <2>2
    <3> QED
      BY <3>1, <3>2
  <2>5. FromEq(h, s, m)
    BY <2>4 DEF FromEq
  <2> HIDE DEF h
  <2> QED
    BY <2>5
<1>4. 1..N \subseteq U
  <2> HIDE DEF P
  <2>1. \A m \in 1..N : (m + 1)..N \subseteq U => m \in U
    <3> SUFFICES ASSUME NEW m \in 1..N, (m + 1)..N \subseteq U
                 PROVE  P(m)
      OBVIOUS
    <3>1. CASE m = N
      BY <3>1, <1>2
    <3>2. CASE m # N
      <4>1. m \in 1..(N - 1) /\ m + 1 \in (m + 1)..N
        BY <3>2, <1>1
      <4> QED
        BY <4>1, <1>3
    <3> QED
      BY <3>1, <3>2
  <2> HIDE DEF U
  <2>2. N \in Nat
    BY <1>1
  <2> QED
    BY <2>1, <2>2, Downwards
<1> QED
  BY <1>4

\* For every text: the placeholders that interpolate replaces, jumping over
\* quoted regions and comments, are exactly the question marks that a reader
\* who takes the text one character at a time finds in code.
THEOREM PlaceholdersAreMarks ==
  ASSUME NEW s \in Text
  PROVE  Placeholders(s) = Marks(s)
<1> DEFINE r == Read(s)
           N == Len(s) + 1
           g == CHOOSE g : FromEq(g, s, 1)
           Claim(i) == Clean(s, r, i) =>
                         /\ g[i] \subseteq i..Len(s)
                         /\ \A j \in i..Len(s) : j \in g[i] /\ s[j] = "?" <=> Mark(s, r, j)
           U == {i \in 1..N : Claim(i)}
<1>1. Len(s) \in Nat
  BY DEF Text
<1>2. IsReading(r, s)
  BY ReadIsReading
<1>3. FromEq(g, s, 1)
  <2>1. \E h : FromEq(h, s, 1)
    BY <1>1, FromExists
  <2> QED
    BY <2>1
<1>4. Starts(s) = g[1]
  BY DEF Starts, FromEq, From
<1> HIDE DEF g, r
<1>5. \A i \in 1..N : g[i] = From(g, s, i)
  BY <1>3 DEF FromEq
<1>6. ASSUME NEW i \in 1..N, (i + 1)..N \subseteq U
      PROVE  i \in U
  <2> SUFFICES ASSUME Clean(s, r, i)
               PROVE  /\ g[i] \subseteq i..Len(s)
                      /\ \A j \in i..Len(s) : j \in g[i] /\ s[j] = "?" <=> Mark(s, r, j)
    OBVIOUS
  <2>1. CASE i > Len(s)
    <3>1. g[i] = {}
      BY <2>1, <1>5 DEF From
    <3> QED
      BY <2>1, <3>1, <1>1
  <2>2. CASE i <= Len(s)
    <3> DEFINE n == next(s, i)
    <3>1. n \in (i + 1)..N
      BY <2>2, NextRange
    <3>2. /\ s[i] = "?" <=> Mark(s, r, i)
          /\ \A j \in (i + 1)..(n - 1) : ~Mark(s, r, j)
          /\ Clean(s, r, n)
      BY <2>2, <1>2, NextClean
    <3>3. g[i] = {i} \cup g[n]
      <4>1. ~(i > Len(s))
        BY <2>2, <1>1
      <4>2. g[i] = From(g, s, i)
        BY <1>5
      <4> QED
        BY <4>1, <4>2 DEF From
    <3> HIDE DEF n
    <3>4. /\ g[n] \subseteq n..Len(s)
          /\ \A j \in n..Len(s) : j \in g[n] /\ s[j] = "?" <=> Mark(s, r, j)
      BY <3>1, <3>2, <1>6
    <3>5. g[i] \subseteq i..Len(s)
      BY <2>2, <3>1, <3>3, <3>4, <1>1
    <3>6. ASSUME NEW j \in i..Len(s)
          PROVE  j \in g[i] /\ s[j] = "?" <=> Mark(s, r, j)
      <4>1. CASE j = i
        BY <4>1, <3>2, <3>3
      <4>2. CASE j \in (i + 1)..(n - 1)
        <5>1. j \notin g[i]
          BY <4>2, <3>1, <3>3, <3>4, <1>1
        <5> QED
          BY <5>1, <4>2, <3>2
      <4>3. CASE j \in n..Len(s)
        <5>1. j # i
          BY <4>3, <3>1
        <5> QED
          BY <5>1, <4>3, <3>3, <3>4
      <4> QED
        BY <4>1, <4>2, <4>3, <3>1, <1>1
    <3> QED
      BY <3>5, <3>6
  <2> QED
    BY <2>1, <2>2, <1>1
<1>7. 1..N \subseteq U
  <2> HIDE DEF U
  <2>1. N \in Nat
    BY <1>1
  <2> QED
    BY <2>1, <1>6, Downwards
<1>8. Clean(s, r, 1)
  BY NoneIs DEF Clean, Before, Fresh
<1>9. 1 \in 1..N
  BY <1>1
<1>10. /\ g[1] \subseteq 1..Len(s)
       /\ \A j \in 1..Len(s) : j \in g[1] /\ s[j] = "?" <=> Mark(s, r, j)
  BY <1>7, <1>8, <1>9
<1>11. Placeholders(s) = {j \in 1..Len(s) : Mark(s, r, j)}
  BY <1>4, <1>10 DEF Placeholders
<1> QED
  BY <1>11 DEF Marks, Mark, r

----------------------------------------------------------------------------
(* The specification *)

\* The driver sends what interpolate makes of the query and its arguments.
IInv ==
  /\ query \in Text
  /\ args \in Seq(Arguments)
  /\ sent = Unsent \/ sent = interpolate(query, args)

\* IInv is an invariant of every instance.
LEMMA Inductive == Spec => []IInv
<1>1. Init => IInv
  BY DEF Init, IInv, Text
<1>2. IInv /\ [Next]_vars => IInv'
  <2> SUFFICES ASSUME IInv, [Next]_vars
               PROVE  IInv'
    OBVIOUS
  <2> USE DEF IInv
  <2>1. CASE Write
    <3>1. PICK p \in Pieces : query' = query \o p
      BY <2>1 DEF Write
    <3>2. query' \in Text
      BY <3>1, InterpolateAssumption DEF Text
    <3> QED
      BY <2>1, <3>2 DEF Write
  <2>2. CASE Bind
    <3>1. args' \in Seq(Arguments)
      BY <2>2 DEF Bind
    <3> QED
      BY <2>2, <3>1 DEF Bind
  <2>3. CASE QueryContext
    BY <2>3 DEF QueryContext
  <2>4. CASE UNCHANGED vars
    BY <2>4 DEF vars
  <2> QED
    BY <2>1, <2>2, <2>3, <2>4 DEF Next
<1> QED
  BY <1>1, <1>2, PTL DEF Spec

\* What interpolate answers.
LEMMA InterpolateCases ==
  ASSUME NEW s, NEW as
  PROVE  LET named    == \E i \in 1..Len(as) : as[i].name # None
             plain    == as = <<>> /\ \A i \in 1..Len(s) : s[i] # "?"
             matched  == Cardinality(Placeholders(s)) = Len(as)
             literals == \A i \in 1..Len(as) : HasLiteral(as[i].value)
         IN  /\ interpolate(s, as).e = "sent" <=> ~named /\ (plain \/ (matched /\ literals))
             /\ ~named /\ plain => interpolate(s, as).text = s
             /\ ~named /\ ~plain /\ matched /\ literals =>
                  interpolate(s, as).text = FlattenSeq(Filled(s, as))
<1> DEFINE named    == \E i \in 1..Len(as) : as[i].name # None
           plain    == as = <<>> /\ \A i \in 1..Len(s) : s[i] # "?"
           matched  == Cardinality(Placeholders(s)) = Len(as)
           literals == \A i \in 1..Len(as) : HasLiteral(as[i].value)
           full     == FlattenSeq(Filled(s, as))
<1>1. CASE named
  <2>1. interpolate(s, as) = Error
    BY <1>1 DEF interpolate
  <2>2. interpolate(s, as).e # "sent"
    BY <2>1 DEF Error
  <2> QED
    BY <1>1, <2>2
<1>2. CASE ~named /\ plain
  <2>1. interpolate(s, as) = [e |-> "sent", text |-> s]
    BY <1>2 DEF interpolate
  <2> QED
    BY <1>2, <2>1
<1>3. CASE ~named /\ ~plain /\ ~(matched /\ literals)
  <2>1. interpolate(s, as) = Error
    BY <1>3 DEF interpolate
  <2>2. interpolate(s, as).e # "sent"
    BY <2>1 DEF Error
  <2> QED
    BY <1>3, <2>2
<1>4. CASE ~named /\ ~plain /\ matched /\ literals
  <2>1. interpolate(s, as) = [e |-> "sent", text |-> full]
    BY <1>4 DEF interpolate
  <2> HIDE DEF full
  <2>2. interpolate(s, as).e = "sent" /\ interpolate(s, as).text = full
    BY <2>1
  <2> QED
    BY <1>4, <2>2 DEF full
<1> QED
  BY <1>1, <1>2, <1>3, <1>4

\* A query without a question mark has no placeholder.
LEMMA NoMarks ==
  ASSUME NEW s \in Text, \A i \in 1..Len(s) : s[i] # "?"
  PROVE  Marks(s) = {} /\ Cardinality(Marks(s)) = 0
<1>1. Marks(s) = {}
  BY DEF Marks
<1> QED
  BY <1>1, FS_EmptySet

\* For every query and every list of arguments: interpolate succeeds if and
\* only if the reader finds as many placeholders in code as there are
\* arguments and every argument is unnamed and has a literal.
THEOREM Matched == Spec => []PlaceholdersMatched
<1>1. IInv => PlaceholdersMatched
  <2> SUFFICES ASSUME IInv, sent # Unsent
               PROVE  (sent.e = "sent" <=>
                         /\ Cardinality(Marks(query)) = Len(args)
                         /\ \A i \in 1..Len(args) : args[i].name = None /\ HasLiteral(args[i].value))
    BY DEF PlaceholdersMatched, Sent
  <2>1. sent = interpolate(query, args) /\ query \in Text
    BY DEF IInv
  <2>2. Placeholders(query) = Marks(query)
    BY <2>1, PlaceholdersAreMarks
  <2> DEFINE plain == args = <<>> /\ \A i \in 1..Len(query) : query[i] # "?"
             literals == \A i \in 1..Len(args) : HasLiteral(args[i].value)
             unnamed == \A i \in 1..Len(args) : args[i].name = None
             matched == Cardinality(Marks(query)) = Len(args)
  <2>3. sent.e = "sent" <=> unnamed /\ (plain \/ (matched /\ literals))
    BY <2>1, <2>2, InterpolateCases
  <2>4. plain => matched /\ literals
    <3> SUFFICES ASSUME plain
                 PROVE  matched /\ literals
      OBVIOUS
    <3>1. Cardinality(Marks(query)) = 0
      BY <2>1, NoMarks
    <3>2. Len(args) = 0
      OBVIOUS
    <3> QED
      BY <3>1, <3>2
  <2>5. sent.e = "sent" <=> unnamed /\ matched /\ literals
    BY <2>3, <2>4
  <2> QED
    BY <2>5
<1> QED
  BY <1>1, Inductive, PTL

----------------------------------------------------------------------------
(* Readings of texts that are put together *)

State == [mode : {"code", "line", "block"} \cup Quotes, prev : Characters \cup {None}]

\* What the reader knows at the end of a text.
End(s) == IF s = <<>> THEN Fresh ELSE Read(s)[Len(s)]

\* A state and a character lead to a state.
LEMMA AfterType ==
  ASSUME NEW st \in State, NEW c \in Characters
  PROVE  After(st, c) \in State /\ After(st, c).prev \in {c, None}
<1>1. Reads(st.mode, st.prev, c) \in {"code", "line", "block"} \cup Quotes
  BY DEF Reads, State, Quotes, Quote
<1> QED
  BY <1>1 DEF After, State

\* The reading of a text is a sequence of states, one for each character.
LEMMA ReadType ==
  ASSUME NEW s \in Text
  PROVE  Read(s) \in Seq(State) /\ Len(Read(s)) = Len(s)
<1> DEFINE r == Read(s)
           U == {i \in 1..Len(s) : r[i] \in State}
<1>1. Len(s) \in Nat /\ \A i \in 1..Len(s) : s[i] \in Characters
  BY DEF Text
<1>2. IsReading(r, s)
  BY ReadIsReading
<1> HIDE DEF r
<1>3. Fresh \in State
  BY DEF Fresh, State
<1>4. 1 <= Len(s) => 1 \in U
  <2> SUFFICES ASSUME 1 <= Len(s)
               PROVE  r[1] \in State
    BY <1>1
  <2>1. 1 \in 1..Len(s)
    BY <1>1
  <2>2. r[1] = After(Fresh, s[1])
    BY <2>1, <1>2, ReadingAt DEF Before
  <2> QED
    BY <2>1, <2>2, <1>1, <1>3, AfterType
<1>5. ASSUME NEW i \in 1..(Len(s) - 1), i \in U
      PROVE  i + 1 \in U
  <2>1. i + 1 \in 1..Len(s) /\ i + 1 # 1 /\ (i + 1) - 1 = i
    BY <1>1
  <2>2. r[i + 1] = After(r[i], s[i + 1])
    BY <2>1, <1>2, ReadingAt DEF Before
  <2>3. r[i + 1] \in State
    BY <1>5, <2>1, <2>2, <1>1, AfterType
  <2> QED
    BY <2>1, <2>3
<1>6. 1..Len(s) \subseteq U
  <2> HIDE DEF U
  <2> QED
    BY <1>1, <1>4, <1>5, Upwards
<1>7. r = [i \in 1..Len(s) |-> r[i]]
  BY <1>2 DEF IsReading
<1>8. r \in [1..Len(s) -> State]
  BY <1>6, <1>7
<1> QED
  BY <1>1, <1>8 DEF r

\* The reader reads on where a text ends.
LEMMA ReadOn ==
  ASSUME NEW a \in Text, NEW b \in Text, b # <<>>,
         NEW q \in Seq(State), Len(q) = Len(b),
         \A i \in 1..Len(b) : q[i] = After(IF i = 1 THEN End(a) ELSE q[i - 1], b[i])
  PROVE  /\ a \o b \in Text /\ a \o b # <<>>
         /\ Read(a \o b) = Read(a) \o q
         /\ End(a \o b) = q[Len(b)]
<1> DEFINE r == Read(a)
           s == a \o b
           t == r \o q
<1>1. /\ Len(a) \in Nat /\ Len(b) \in Nat /\ Len(b) # 0
      /\ s \in Text /\ Len(s) = Len(a) + Len(b)
      /\ \A i \in 1..Len(s) : s[i] = IF i <= Len(a) THEN a[i] ELSE b[i - Len(a)]
  BY DEF Text
<1>2. IsReading(r, a)
  BY ReadIsReading
<1>3. r \in Seq(State) /\ Len(r) = Len(a)
  BY ReadType
<1>4. End(a) = IF Len(a) = 0 THEN Fresh ELSE r[Len(a)]
  BY <1>1 DEF End, Text
<1> HIDE DEF r
<1>5. /\ t \in Seq(State) /\ Len(t) = Len(s)
      /\ \A i \in 1..Len(s) : t[i] = IF i <= Len(a) THEN r[i] ELSE q[i - Len(a)]
  <2>1. t \in Seq(State) /\ Len(t) = Len(r) + Len(q)
    BY <1>3
  <2>2. \A i \in 1..(Len(r) + Len(q)) : t[i] = IF i <= Len(r) THEN r[i] ELSE q[i - Len(r)]
    BY <1>3
  <2> QED
    BY <2>1, <2>2, <1>1, <1>3
<1> HIDE DEF s, t
<1>6. ASSUME NEW i \in 1..Len(s)
      PROVE  t[i] = After(Before(t, i), s[i])
  <2>1. CASE i <= Len(a)
    <3>1. i \in 1..Len(a) /\ t[i] = r[i] /\ s[i] = a[i]
      BY <2>1, <1>1, <1>5
    <3>2. Before(t, i) = Before(r, i)
      <4>1. i # 1 => i - 1 \in 1..Len(s) /\ i - 1 <= Len(a)
        BY <2>1, <1>1
      <4>2. i # 1 => t[i - 1] = r[i - 1]
        BY <4>1, <1>5
      <4> QED
        BY <4>2 DEF Before
    <3> QED
      BY <3>1, <3>2, <1>2, ReadingAt
  <2>2. CASE i = Len(a) + 1
    <3>1. i - Len(a) = 1 /\ ~(i <= Len(a)) /\ 1 \in 1..Len(b)
      BY <2>2, <1>1
    <3>2. t[i] = q[1] /\ s[i] = b[1]
      BY <3>1, <1>1, <1>5
    <3>3. q[1] = After(End(a), b[1])
      BY <3>1
    <3>4. Before(t, i) = End(a)
      <4>1. CASE Len(a) = 0
        BY <4>1, <2>2, <1>4 DEF Before
      <4>2. CASE Len(a) # 0
        <5>1. i # 1 /\ i - 1 = Len(a) /\ Len(a) \in 1..Len(s) /\ Len(a) <= Len(a)
          BY <4>2, <2>2, <1>1
        <5>2. t[Len(a)] = r[Len(a)]
          BY <5>1, <1>5
        <5> QED
          BY <4>2, <5>1, <5>2, <1>4 DEF Before
      <4> QED
        BY <4>1, <4>2
    <3> QED
      BY <3>2, <3>3, <3>4
  <2>3. CASE i > Len(a) + 1
    <3> DEFINE j == i - Len(a)
    <3>1. /\ j \in 1..Len(b) /\ j # 1 /\ ~(i <= Len(a))
          /\ i - 1 \in 1..Len(s) /\ ~(i - 1 <= Len(a)) /\ (i - 1) - Len(a) = j - 1 /\ i # 1
      BY <2>3, <1>1
    <3>2. t[i] = q[j] /\ s[i] = b[j] /\ t[i - 1] = q[j - 1]
      BY <3>1, <1>1, <1>5
    <3>3. q[j] = After(q[j - 1], b[j])
      BY <3>1
    <3>4. Before(t, i) = t[i - 1]
      BY <3>1 DEF Before
    <3> QED
      BY <3>2, <3>3, <3>4
  <2> QED
    BY <2>1, <2>2, <2>3, <1>1
<1>7. t = [i \in 1..Len(s) |-> t[i]]
  BY <1>5
<1>8. IsReading(t, s)
  BY <1>6, <1>7 DEF IsReading
<1>9. t = Read(s)
  BY <1>1, <1>8, ReadingUnique
<1>10. s # <<>> /\ t[Len(s)] = q[Len(b)]
  BY <1>1, <1>5
<1>11. End(s) = q[Len(b)]
  BY <1>9, <1>10 DEF End
<1> QED
  BY <1>1, <1>9, <1>10, <1>11 DEF s, t, r

\* A text is read after another one as it is read alone if its first
\* character is.
LEMMA ReadConcat ==
  ASSUME NEW a \in Text, NEW b \in Text, b # <<>>,
         After(End(a), b[1]) = After(Fresh, b[1])
  PROVE  /\ a \o b \in Text /\ a \o b # <<>>
         /\ Read(a \o b) = Read(a) \o Read(b)
         /\ End(a \o b) = End(b)
<1> DEFINE q == Read(b)
<1>1. q \in Seq(State) /\ Len(q) = Len(b)
  BY ReadType
<1>2. IsReading(q, b)
  BY ReadIsReading
<1>3. End(b) = q[Len(b)]
  BY DEF End
<1> HIDE DEF q
<1>4. ASSUME NEW i \in 1..Len(b)
      PROVE  q[i] = After(IF i = 1 THEN End(a) ELSE q[i - 1], b[i])
  <2>1. q[i] = After(Before(q, i), b[i])
    BY <1>2, ReadingAt
  <2> QED
    BY <2>1 DEF Before
<1>5. /\ a \o b \in Text /\ a \o b # <<>>
      /\ Read(a \o b) = Read(a) \o q
      /\ End(a \o b) = q[Len(b)]
  BY <1>1, <1>4, ReadOn
<1> QED
  BY <1>3, <1>5 DEF q

\* One character more.
LEMMA ReadAppend ==
  ASSUME NEW a \in Text, NEW c \in Characters
  PROVE  /\ a \o <<c>> \in Text /\ a \o <<c>> # <<>>
         /\ Read(a \o <<c>>) = Read(a) \o <<After(End(a), c)>>
         /\ End(a \o <<c>>) = After(End(a), c)
<1> DEFINE b == <<c>>
           q == <<After(End(a), c)>>
<1>1. b \in Text /\ b # <<>> /\ Len(b) = 1 /\ b[1] = c
  BY DEF Text
<1>2. Len(a) \in Nat /\ (a # <<>> => Len(a) \in 1..Len(a))
  BY DEF Text
<1>3. Read(a) \in Seq(State) /\ Len(Read(a)) = Len(a)
  BY ReadType
<1>4. End(a) \in State
  <2>1. Fresh \in State
    BY DEF Fresh, State
  <2>2. a # <<>> => Read(a)[Len(a)] \in State
    BY <1>2, <1>3
  <2> QED
    BY <2>1, <2>2 DEF End
<1>5. After(End(a), c) \in State
  BY <1>4, AfterType
<1>6. q \in Seq(State) /\ Len(q) = 1 /\ q[1] = After(End(a), c)
  BY <1>5
<1> HIDE DEF b, q
<1>7. \A i \in 1..Len(b) : q[i] = After(IF i = 1 THEN End(a) ELSE q[i - 1], b[i])
  BY <1>1, <1>6
<1>8. /\ a \o b \in Text /\ a \o b # <<>>
      /\ Read(a \o b) = Read(a) \o q
      /\ End(a \o b) = q[Len(b)]
  BY <1>1, <1>6, <1>7, ReadOn
<1> QED
  BY <1>1, <1>6, <1>8 DEF b, q

----------------------------------------------------------------------------
(* Literals *)

\* A sequence is the flattened sequence of its elements.
LEMMA FlattenSingles ==
  ASSUME NEW S, NEW s \in Seq(S)
  PROVE  FlattenSeq([i \in 1..Len(s) |-> <<s[i]>>]) = s
<1> DEFINE F == [i \in 1..Len(s) |-> <<s[i]>>]
           n == Len(s)
<1>1. n \in Nat /\ F \in [1..n -> Seq(S)]
  OBVIOUS
<1>2. PICK f \in [0..n -> Seq(S)] :
         /\ f[0] = <<>>
         /\ \A i \in 1..n : f[i] = f[i - 1] \o F[i]
         /\ FlattenSeq(F) = f[n]
  <2> HIDE DEF F, n
  <2> QED
    BY <1>1, Flatten
<1> DEFINE U == {i \in 0..n : Len(f[i]) = i /\ \A j \in 1..i : f[i][j] = s[j]}
<1>3. 0 \in U
  BY <1>1, <1>2
<1>4. ASSUME NEW i \in 0..(n - 1), i \in U
      PROVE  i + 1 \in U
  <2>1. i + 1 \in 1..n /\ (i + 1) - 1 = i
    BY <1>1
  <2>2. f[i + 1] = f[i] \o <<s[i + 1]>> /\ f[i] \in Seq(S) /\ Len(f[i]) = i
    BY <2>1, <1>2, <1>4
  <2>3. Len(f[i + 1]) = i + 1 /\ f[i + 1][i + 1] = s[i + 1]
    <3>1. <<s[i + 1]>> \in Seq(S) /\ Len(<<s[i + 1]>>) = 1 /\ <<s[i + 1]>>[1] = s[i + 1]
      BY <2>1
    <3> DEFINE x == f[i]
               y == <<s[i + 1]>>
    <3>2. x \in Seq(S) /\ Len(x) = i /\ f[i + 1] = x \o y
      BY <2>2
    <3> HIDE DEF x, y
    <3>3. Len(x \o y) = Len(x) + Len(y)
      BY <3>1, <3>2 DEF y
    <3>4. \A k \in 1..(Len(x) + Len(y)) : (x \o y)[k] = IF k <= Len(x) THEN x[k] ELSE y[k - Len(x)]
      BY <3>1, <3>2 DEF y
    <3>5. i + 1 \in 1..(Len(x) + Len(y)) /\ ~(i + 1 <= Len(x)) /\ (i + 1) - Len(x) = 1
      BY <3>1, <3>2 DEF y
    <3>6. (x \o y)[i + 1] = y[1]
      BY <3>4, <3>5
    <3> QED
      BY <3>1, <3>2, <3>3, <3>6 DEF y
  <2>4. \A j \in 1..i : f[i + 1][j] = f[i][j]
    BY <2>1, <2>2
  <2>5. \A j \in 1..(i + 1) : f[i + 1][j] = s[j]
    <3> SUFFICES ASSUME NEW j \in 1..(i + 1)
                 PROVE  f[i + 1][j] = s[j]
      OBVIOUS
    <3>1. j \in 1..i \/ j = i + 1
      OBVIOUS
    <3> QED
      BY <3>1, <2>3, <2>4, <1>4
  <2> QED
    BY <2>1, <2>3, <2>5
<1>5. 0..n \subseteq U
  <2> HIDE DEF U, n
  <2> QED
    BY <1>1, <1>3, <1>4, Upwards
<1>6. f[n] \in Seq(S) /\ Len(f[n]) = n /\ \A j \in 1..n : f[n][j] = s[j]
  BY <1>1, <1>5
<1>7. f[n] = s
  BY <1>6
<1> QED
  BY <1>2, <1>7

\* Texts may be put together in any order.
LEMMA TextConcat == \A x, y, z \in Text : x \o (y \o z) = (x \o y) \o z
BY ConcatAssociative DEF Text

\* What comes first stays first.
LEMMA ConcatFirst ==
  ASSUME NEW a \in Text, a # <<>>, NEW b \in Text
  PROVE  (a \o b)[1] = a[1]
<1>1. Len(a) \in Nat /\ Len(b) \in Nat /\ Len(a) # 0
  BY DEF Text
<1>2. \A i \in 1..(Len(a) + Len(b)) : (a \o b)[i] = IF i <= Len(a) THEN a[i] ELSE b[i - Len(a)]
  BY ConcatProperties DEF Text
<1>3. 1 \in 1..(Len(a) + Len(b)) /\ 1 <= Len(a)
  BY <1>1
<1> QED
  BY <1>2, <1>3

\* Short texts.
LEMMA ShortTexts ==
  ASSUME NEW C, NEW x \in C, NEW y \in C, NEW z \in C
  PROVE  /\ <<x>> \in Seq(C)
         /\ <<x>> \o <<y>> = <<x, y>>
         /\ <<x, y>> \in Seq(C) /\ Len(<<x, y>>) = 2 /\ <<x, y>> # <<>> /\ <<x, y>>[1] = x
         /\ <<x, y, x, z, x>> \in Seq(C)
<1>1. <<x>> \in Seq(C) /\ <<y>> \in Seq(C) /\ Len(<<x>>) = 1 /\ Len(<<y>>) = 1
  OBVIOUS
<1>2. <<x, y>> \in Seq(C)
  OBVIOUS
<1>3. Len(<<x, y>>) = 2 /\ <<x, y>>[1] = x
  OBVIOUS
<1>4. <<x, y>> # <<>>
  BY <1>3
<1>5. <<x>> \o <<y>> = <<x, y>>
  <2> DEFINE a == <<x>>
             b == <<y>>
             w == a \o b
  <2>1. a \in Seq(C) /\ b \in Seq(C) /\ Len(a) = 1 /\ Len(b) = 1 /\ a[1] = x /\ b[1] = y
    OBVIOUS
  <2> HIDE DEF a, b
  <2>2. w \in Seq(C) /\ Len(w) = 2 /\ w[1] = x /\ w[2] = y
    BY <2>1, ConcatProperties
  <2> HIDE DEF w
  <2>3. w = <<x, y>>
    BY <2>2
  <2> QED
    BY <2>3 DEF w, a, b
<1>6. <<x, y, x, z, x>> \in Seq(C)
  OBVIOUS
<1> QED
  BY <1>1, <1>2, <1>3, <1>4, <1>5, <1>6

\* A text of one character.
LEMMA EndOne ==
  ASSUME NEW c \in Characters
  PROVE  <<c>> \in Text /\ End(<<c>>) = After(Fresh, c)
<1>1. <<>> \in Text /\ <<>> \o <<c>> = <<c>> /\ End(<<>>) = Fresh
  BY DEF Text, End
<1> QED
  BY <1>1, ReadAppend

\* A text that ends inside a string.
Open(u) == u \in Text /\ End(u).mode = Quote

\* The quote opens a string, and any other character leaves it open.
LEMMA OpenSteps ==
  /\ Open(<<Quote>>)
  /\ \A u, c : Open(u) /\ c \in Characters \ {Quote} => Open(u \o <<c>>)
<1>1. Quote \in Characters /\ Quote \in Quotes
  BY DEF Quote, Characters, Quotes
<1>2. Open(<<Quote>>)
  <2>1. Fresh.mode = "code"
    BY DEF Fresh
  <2>2. After(Fresh, Quote).mode = Quote
    BY <1>1, <2>1, AfterCode
  <2> QED
    BY <1>1, <2>2, EndOne DEF Open
<1>3. ASSUME NEW u, NEW c, Open(u), c \in Characters \ {Quote}
      PROVE  Open(u \o <<c>>)
  <2>1. After(End(u), c) = [mode |-> Quote, prev |-> c]
    BY <1>1, <1>3, AfterQuoted DEF Open
  <2>2. After(End(u), c).mode = Quote
    BY <2>1
  <2> QED
    BY <1>3, <2>2, ReadAppend DEF Open
<1> QED
  BY <1>2, <1>3

\* A doubled quote leaves the string open.
LEMMA OpenDoubled ==
  ASSUME NEW u, Open(u)
  PROVE  Open(u \o <<Quote, Quote>>)
<1>1. Quote \in Characters /\ Quote \in Quotes
  BY DEF Quote, Characters, Quotes
<1> DEFINE w == u \o <<Quote>>
<1>2. u \in Text /\ End(u).mode = Quote
  BY DEF Open
<1>3. w \in Text /\ End(w) = After(End(u), Quote)
  BY <1>1, <1>2, ReadAppend
<1>4. End(w) = [mode |-> "code", prev |-> Quote]
  BY <1>1, <1>2, <1>3, AfterQuoted
<1>5. End(w).mode = "code"
  BY <1>4
<1>6. w \o <<Quote>> \in Text /\ End(w \o <<Quote>>) = After(End(w), Quote)
  BY <1>1, <1>3, ReadAppend
<1>7. After(End(w), Quote).mode = Quote
  BY <1>1, <1>5, AfterCode
<1>8. w \o <<Quote>> = u \o <<Quote, Quote>>
  BY <1>1, <1>2 DEF Text
<1> QED
  BY <1>6, <1>7, <1>8 DEF Open

\* Whatever a string argument contains, its escaped text stays inside the
\* string that is open before it.
LEMMA EscapeStaysOpen ==
  ASSUME NEW u, Open(u), NEW s \in Text
  PROVE  escape(s) \in Text /\ Open(u \o escape(s))
<1> DEFINE n == Len(s)
           F == [i \in 1..n |-> IF s[i] = Quote THEN <<Quote, Quote>> ELSE <<s[i]>>]
<1>1. n \in Nat /\ \A i \in 1..n : s[i] \in Characters
  BY DEF Text
<1>2. Quote \in Characters /\ <<Quote, Quote>> \in Text /\ u \in Text
  <2>1. Quote \in Characters
    BY DEF Quote, Characters
  <2>2. <<Quote, Quote>> \in Text
    BY <2>1 DEF Text
  <2> QED
    BY <2>1, <2>2 DEF Open
<1>3. F \in [1..n -> Text]
  BY <1>1, <1>2 DEF Text
<1>4. escape(s) = FlattenSeq(F)
  BY DEF escape
<1>5. \A i \in 1..n : F[i] = IF s[i] = Quote THEN <<Quote, Quote>> ELSE <<s[i]>>
  OBVIOUS
<1> HIDE DEF n, F
<1>6. PICK f \in [0..n -> Text] :
         /\ f[0] = <<>>
         /\ \A i \in 1..n : f[i] = f[i - 1] \o F[i]
         /\ FlattenSeq(F) = f[n]
  BY <1>1, <1>3, Flatten DEF Text
<1> DEFINE U == {i \in 0..n : Open(u \o f[i])}
<1>7. 0 \in U
  <2>1. u \o f[0] = u
    BY <1>2, <1>6 DEF Text
  <2>2. Open(u \o f[0])
    BY <2>1
  <2> QED
    BY <2>2, <1>1
<1>8. ASSUME NEW i \in 0..(n - 1), i \in U
      PROVE  i + 1 \in U
  <2>1. i + 1 \in 1..n /\ i + 1 \in 0..n /\ (i + 1) - 1 = i
    BY <1>1
  <2>2. f[i + 1] = f[i] \o F[i + 1]
    BY <2>1, <1>6
  <2>3. f[i] \in Text /\ F[i + 1] \in Text
    <3>1. i \in 0..n
      BY <1>1
    <3> QED
      BY <3>1, <2>1, <1>3, <1>6
  <2>4. u \o f[i + 1] = (u \o f[i]) \o F[i + 1]
    <3>1. u \o (f[i] \o F[i + 1]) = (u \o f[i]) \o F[i + 1]
      BY <2>3, <1>2, TextConcat
    <3> QED
      BY <2>2, <3>1
  <2>5. Open(u \o f[i])
    BY <1>8
  <2>6. CASE s[i + 1] = Quote
    BY <2>1, <2>4, <2>5, <2>6, <1>5, OpenDoubled
  <2>7. CASE s[i + 1] # Quote
    <3>1. s[i + 1] \in Characters \ {Quote} /\ F[i + 1] = <<s[i + 1]>>
      BY <2>1, <2>7, <1>1, <1>5
    <3>2. Open((u \o f[i]) \o <<s[i + 1]>>)
      BY <2>5, <3>1, OpenSteps
    <3> QED
      BY <2>1, <2>4, <3>1, <3>2
  <2> QED
    BY <2>6, <2>7
<1>9. 0..n \subseteq U
  <2> HIDE DEF U
  <2> QED
    BY <1>1, <1>7, <1>8, Upwards
<1>10. n \in 0..n
  BY <1>1
<1> QED
  BY <1>4, <1>6, <1>9, <1>10

\* A text without quotes is escaped as it is.
LEMMA EscapePlain ==
  ASSUME NEW s \in Seq(Characters \ {Quote})
  PROVE  s \in Text /\ escape(s) = s
<1>1. s \in Text
  BY DEF Text
<1>2. \A i \in 1..Len(s) : s[i] # Quote
  OBVIOUS
<1>3. [i \in 1..Len(s) |-> IF s[i] = Quote THEN <<Quote, Quote>> ELSE <<s[i]>>] = [i \in 1..Len(s) |-> <<s[i]>>]
  BY <1>2
<1>4. escape(s) = FlattenSeq([i \in 1..Len(s) |-> <<s[i]>>])
  BY <1>3 DEF escape
<1> QED
  BY <1>1, <1>4, FlattenSingles

\* A string literal is closed by its last quote.
LEMMA QuotedEnd ==
  ASSUME NEW t \in Text, Open(<<Quote>> \o t)
  PROVE  /\ Quoted(t) \in Text /\ Quoted(t) # <<>> /\ Quoted(t)[1] = Quote
         /\ End(Quoted(t)) = [mode |-> "code", prev |-> Quote]
<1>1. Quote \in Characters /\ Quote \in Quotes
  BY DEF Quote, Characters, Quotes
<1> DEFINE u == <<Quote>> \o t
<1>2. u \in Text /\ End(u).mode = Quote
  BY DEF Open
<1>3. Quoted(t) = u \o <<Quote>>
  BY DEF Quoted
<1>4. u[1] = Quote /\ Len(u) >= 1
  BY <1>1 DEF Text
<1> HIDE DEF u
<1>5. u \o <<Quote>> \in Text /\ u \o <<Quote>> # <<>> /\ End(u \o <<Quote>>) = After(End(u), Quote)
  BY <1>1, <1>2, ReadAppend
<1>6. (u \o <<Quote>>)[1] = Quote
  BY <1>1, <1>2, <1>4 DEF Text
<1>7. After(End(u), Quote) = [mode |-> "code", prev |-> Quote]
  BY <1>1, <1>2, AfterQuoted
<1> QED
  BY <1>3, <1>5, <1>6, <1>7

\* A literal may stand for a placeholder: it begins with a letter, a minus
\* sign or a quote, and the reader is back in code when it ends.
Fits(l) ==
  /\ l \in Text /\ l # <<>> /\ l[1] \in {"a", "-", Quote}
  /\ End(l).mode = "code" /\ End(l).prev \in {"a", Quote}

\* Every argument that has a literal, whatever it contains, has one that fits.
LEMMA LiteralFits ==
  ASSUME NEW v \in Values, HasLiteral(v)
  PROVE  Fits(literal(v))
<1>1. "a" \in Characters \ {Quote} /\ "-" \in Characters \ {Quote} /\ " " \in Characters \ {Quote}
  BY DEF Characters, Quote
<1>2. Fresh.mode = "code" /\ Fresh.prev = None
  BY DEF Fresh
<1>3. {"a", "-", " "} \cap Quotes = {} /\ Quote \in Quotes
  BY DEF Quotes, Quote
<1> DEFINE word == <<"a">>
           neg  == <<"-", "a">>
           time == <<"a", "-", "a", " ", "a">>
<1>4. Fits(word)
  <2>1. word \in Text /\ End(word) = After(Fresh, "a")
    BY <1>1, EndOne
  <2>2. After(Fresh, "a") = [mode |-> "code", prev |-> "a"]
    BY <1>2, <1>3, AfterCode
  <2>3. End(word).mode = "code" /\ End(word).prev = "a"
    BY <2>1, <2>2
  <2> QED
    BY <2>1, <2>3 DEF Fits
<1>5. Fits(neg)
  <2>1. <<"-">> \in Text /\ End(<<"-">>) = After(Fresh, "-")
    BY <1>1, EndOne
  <2>2. After(Fresh, "-") = [mode |-> "code", prev |-> "-"]
    BY <1>2, <1>3, NoneIs, AfterCode
  <2>3. End(<<"-">>).mode = "code"
    BY <2>1, <2>2
  <2>4. <<"-">> \o <<"a">> \in Text /\ End(<<"-">> \o <<"a">>) = After(End(<<"-">>), "a")
    BY <2>1, <1>1, ReadAppend
  <2>5. After(End(<<"-">>), "a") = [mode |-> "code", prev |-> "a"]
    BY <2>3, <1>3, AfterCode
  <2>6. <<"-">> \o <<"a">> = neg /\ neg # <<>> /\ neg[1] = "-"
    BY <1>1, ShortTexts
  <2>7. End(neg) = [mode |-> "code", prev |-> "a"] /\ neg \in Text
    <3> HIDE DEF neg
    <3> QED
      BY <2>4, <2>5, <2>6
  <2> HIDE DEF neg
  <2>8. End(neg).mode = "code" /\ End(neg).prev = "a"
    BY <2>7
  <2> QED
    BY <2>6, <2>7, <2>8 DEF Fits
<1>6. ASSUME NEW t \in Text, Open(<<Quote>> \o t)
      PROVE  Fits(Quoted(t))
  <2>1. /\ Quoted(t) \in Text /\ Quoted(t) # <<>> /\ Quoted(t)[1] = Quote
        /\ End(Quoted(t)) = [mode |-> "code", prev |-> Quote]
    BY <1>6, QuotedEnd
  <2> QED
    BY <2>1 DEF Fits
<1>7. ASSUME NEW t \in Text, Open(<<Quote>> \o t)
      PROVE  Fits(Quoted(t) \o <<"a">>)
  <2> DEFINE b == Quoted(t)
  <2>1. /\ b \in Text /\ b # <<>> /\ b[1] = Quote
        /\ End(b) = [mode |-> "code", prev |-> Quote]
    BY <1>7, QuotedEnd
  <2> HIDE DEF b
  <2>2. End(b).mode = "code"
    BY <2>1
  <2>3. b \o <<"a">> \in Text /\ b \o <<"a">> # <<>> /\ End(b \o <<"a">>) = After(End(b), "a")
    BY <2>1, <1>1, ReadAppend
  <2>4. After(End(b), "a") = [mode |-> "code", prev |-> "a"]
    BY <2>2, <1>3, AfterCode
  <2>5. (b \o <<"a">>)[1] = Quote
    BY <2>1, <1>4, ConcatFirst DEF Fits
  <2>6. End(b \o <<"a">>).mode = "code" /\ End(b \o <<"a">>).prev = "a"
    BY <2>3, <2>4
  <2> QED
    BY <2>3, <2>5, <2>6 DEF Fits, b
<1>8. ASSUME NEW t \in Seq(Characters \ {Quote})
      PROVE  t \in Text /\ Open(<<Quote>> \o t)
  BY OpenSteps, EscapePlain, EscapeStaysOpen
<1>9. /\ word \in Seq(Characters \ {Quote}) /\ neg \in Seq(Characters \ {Quote})
      /\ time \in Seq(Characters \ {Quote})
  <2> DEFINE C == Characters \ {Quote}
  <2>1. "a" \in C /\ "-" \in C /\ " " \in C
    BY <1>1
  <2> HIDE DEF C
  <2>2. word \in Seq(C) /\ neg \in Seq(C) /\ time \in Seq(C)
    BY <2>1, ShortTexts
  <2> QED
    BY <2>2 DEF C
<1>10. CASE v[1] \in {"nil", "bool"}
  BY <1>4, <1>10 DEF literal
<1>11. CASE v[1] \in {"int64", "float64", "Decimal"}
  <2>1. literal(v) \in {neg, word}
    BY <1>11 DEF literal
  <2> QED
    BY <2>1, <1>4, <1>5
<1>12. CASE v[1] = "infinite"
  <2>1. literal(v) \in {Quoted(neg) \o <<"a">>, Quoted(word) \o <<"a">>}
    BY <1>12 DEF literal
  <2> HIDE DEF neg, word
  <2> QED
    BY <2>1, <1>7, <1>8, <1>9
<1>13. CASE v[1] = "string"
  <2>1. v[2] \in Text
    BY <1>13 DEF Values, Text
  <2>2. escape(v[2]) \in Text /\ Open(<<Quote>> \o escape(v[2]))
    BY <2>1, OpenSteps, EscapeStaysOpen
  <2>3. literal(v) = Quoted(escape(v[2]))
    BY <1>13 DEF literal
  <2> QED
    BY <2>2, <2>3, <1>6
<1>14. CASE v[1] = "bytes"
  <2>1. literal(v) = Quoted(word) \o <<"a">>
    BY <1>14 DEF literal
  <2> HIDE DEF word
  <2> QED
    BY <2>1, <1>7, <1>8, <1>9
<1>15. CASE v[1] = "time"
  <2> DEFINE a == <<"a", " ">>
             b == Quoted(time)
  <2>1. literal(v) = a \o b
    BY <1>15 DEF literal
  <2>2. /\ b \in Text /\ b # <<>> /\ b[1] = Quote
        /\ End(b) = [mode |-> "code", prev |-> Quote]
    <3> HIDE DEF time
    <3> QED
      BY <1>8, <1>9, QuotedEnd
  <2>3. a \in Text /\ a[1] = "a" /\ a # <<>> /\ End(a) = [mode |-> "code", prev |-> " "]
    <3>1. End(word).mode = "code" /\ word \in Text
      BY <1>4 DEF Fits
    <3>2. word \o <<" ">> \in Text /\ End(word \o <<" ">>) = After(End(word), " ")
      BY <3>1, <1>1, ReadAppend
    <3>3. After(End(word), " ") = [mode |-> "code", prev |-> " "]
      BY <3>1, <1>3, AfterCode
    <3>4. word \o <<" ">> = a /\ a # <<>> /\ a[1] = "a"
      <4> DEFINE C == Characters \ {Quote}
                 x == "a"
                 y == " "
      <4>1. x \in C /\ y \in C
        BY <1>1
      <4> HIDE DEF C, x, y
      <4>2. <<x>> \o <<y>> = <<x, y>> /\ <<x, y>> # <<>> /\ <<x, y>>[1] = x
        BY <4>1, ShortTexts
      <4> QED
        BY <4>2 DEF x, y
    <3> HIDE DEF a
    <3> QED
      BY <3>2, <3>3, <3>4
  <2> HIDE DEF a, b
  <2>4. After(End(a), Quote) = After(Fresh, Quote)
    <3>1. End(a).mode = "code" /\ End(a).prev = " "
      <4> DEFINE c == " "
      <4>1. End(a) = [mode |-> "code", prev |-> c]
        BY <2>3
      <4> HIDE DEF c
      <4>2. End(a).mode = "code" /\ End(a).prev = c
        BY <4>1
      <4> QED
        BY <4>2, Zenon DEF c
    <3>5. " " # Quote
      BY <1>1
    <3>2. None # Quote
      BY NoneIs, <1>3
    <3> QED
      BY <3>1, <3>2, <3>5, <1>2, <1>3, AfterQuote
  <2>5. a \o b \in Text /\ a \o b # <<>> /\ End(a \o b) = End(b)
    BY <2>2, <2>3, <2>4, ReadConcat
  <2>6. (a \o b)[1] = "a"
    BY <2>2, <2>3, ConcatFirst
  <2>7. End(b).mode = "code" /\ End(b).prev = Quote
    BY <2>2
  <2> QED
    BY <2>1, <2>5, <2>6, <2>7 DEF Fits
<1> QED
  BY <1>10, <1>11, <1>12, <1>13, <1>14, <1>15 DEF Values, HasLiteral

----------------------------------------------------------------------------
(* Literals in the place of placeholders *)

\* The reader is in code before a placeholder, and remembers at most the
\* character before it.
LEMMA BeforeMark ==
  ASSUME NEW s \in Text, NEW i \in Marks(s)
  PROVE  /\ i \in 1..Len(s) /\ Before(Read(s), i).mode = "code"
         /\ Before(Read(s), i).prev = None \/ At(s, i - 1, Before(Read(s), i).prev)
         /\ Read(s)[i].mode = "code" /\ Read(s)[i].prev = "?"
<1> DEFINE r == Read(s)
           x == Before(r, i)
<1>1. i \in 1..Len(s) /\ s[i] = "?" /\ r[i].mode = "code"
  BY DEF Marks
<1>2. IsReading(r, s)
  BY ReadIsReading
<1>3. r \in Seq(State) /\ Len(r) = Len(s)
  BY ReadType
<1>4. Len(s) \in Nat /\ \A j \in 1..Len(s) : s[j] \in Characters
  BY DEF Text
<1> HIDE DEF r
<1>5. r[i] = After(x, "?")
  BY <1>1, <1>2, ReadingAt
<1>6. x \in State /\ (x.prev = None \/ At(s, i - 1, x.prev))
  <2>1. CASE i = 1
    <3>1. x = Fresh
      BY <2>1 DEF Before
    <3> HIDE DEF x
    <3>2. Fresh \in State /\ Fresh.prev = None
      BY DEF Fresh, State
    <3> QED
      BY <3>1, <3>2
  <2>2. CASE i # 1
    <3> DEFINE j == i - 1
    <3>1. j \in 1..Len(s)
      BY <1>1, <1>4, <2>2
    <3>2. x = r[j]
      BY <2>2 DEF Before
    <3> HIDE DEF j, x
    <3>3. r[j] = After(Before(r, j), s[j]) /\ s[j] \in Characters
      BY <3>1, <1>2, <1>4, ReadingAt
    <3>4. Before(r, j) \in State
      <4>1. Fresh \in State
        BY DEF Fresh, State
      <4>2. j # 1 => r[j - 1] \in State
        BY <3>1, <1>3, <1>4
      <4> QED
        BY <4>1, <4>2 DEF Before
    <3>5. x \in State /\ x.prev \in {s[j], None}
      BY <3>2, <3>3, <3>4, AfterType
    <3>6. x.prev = s[j] => At(s, j, x.prev)
      BY <3>1 DEF At
    <3> QED
      BY <3>5, <3>6 DEF j
  <2> QED
    BY <2>1, <2>2
<1> HIDE DEF x
<1>7. "?" \notin Quotes /\ "?" # "nl" /\ "?" # "/"
  BY DEF Quotes, Quote
<1>8. x.mode = "code"
  <2>1. x.mode \in {"code", "line", "block"} \cup Quotes
    BY <1>6 DEF State
  <2>2. CASE x.mode = "line"
    BY <2>2, <1>1, <1>5, <1>7, AfterComment
  <2>3. CASE x.mode = "block"
    <3>1. r[i] = [mode |-> "block", prev |-> "?"]
      BY <2>3, <1>5, <1>7, AfterComment
    <3>2. r[i].mode = "block"
      BY <3>1
    <3> QED
      BY <3>2, <1>1
  <2>4. CASE x.mode \in Quotes
    <3>1. r[i] = [mode |-> x.mode, prev |-> "?"]
      BY <2>4, <1>5, <1>7, AfterQuoted
    <3>2. r[i].mode = x.mode
      BY <3>1
    <3> QED
      BY <3>2, <1>1
  <2> QED
    BY <2>1, <2>2, <2>3, <2>4
<1>9. r[i] = [mode |-> "code", prev |-> "?"]
  BY <1>5, <1>7, <1>8, AfterCode
<1>10. r[i].mode = "code" /\ r[i].prev = "?"
  BY <1>9
<1> QED
  BY <1>1, <1>6, <1>8, <1>10 DEF r, x

\* A literal that fits is read in the place of a placeholder as it is alone.
LEMMA LiteralAfter ==
  ASSUME NEW x, NEW l, Fits(l), x.mode = "code", x.prev \notin Quotes,
         ~(x.prev = "-" /\ l[1] = "-")
  PROVE  After(x, l[1]) = After(Fresh, l[1])
<1>1. Fresh.mode = "code" /\ Fresh.prev = None
  BY DEF Fresh
<1>2. Quote \in Quotes /\ "a" \notin Quotes /\ "-" \notin Quotes
  BY DEF Quotes, Quote
<1>3. None \notin Quotes /\ None # "-" /\ None # "/"
  BY NoneIs
<1>4. l[1] \in {"a", "-", Quote}
  BY DEF Fits
<1>5. CASE l[1] = "a"
  <2>1. After(x, "a") = [mode |-> "code", prev |-> "a"] /\ After(Fresh, "a") = [mode |-> "code", prev |-> "a"]
    BY <1>1, <1>2, AfterCode
  <2> QED
    BY <2>1, <1>5
<1>6. CASE l[1] = "-"
  <2>1. After(x, "-") = [mode |-> "code", prev |-> "-"] /\ After(Fresh, "-") = [mode |-> "code", prev |-> "-"]
    BY <1>1, <1>2, <1>3, <1>6, AfterCode
  <2> QED
    BY <2>1, <1>6
<1>7. CASE l[1] = Quote
  BY <1>1, <1>2, <1>3, <1>7, AfterQuote
<1> QED
  BY <1>4, <1>5, <1>6, <1>7

\* The text with a literal L[i] in the place of every placeholder i.
Put(s, L) == [i \in 1..Len(s) |-> IF i \in Marks(s) THEN L[i] ELSE <<s[i]>>]

\* The reading of s with the reading of L[i] in the place of every placeholder.
PutRead(s, L) == [i \in 1..Len(s) |-> IF i \in Marks(s) THEN Read(L[i]) ELSE <<Read(s)[i]>>]

\* Placeholders touch neither quotes nor each other, and none follows a minus
\* sign and stands for a literal that begins with one.
Separate(s, L) ==
  \A i \in Marks(s) : /\ \A c \in Quotes \cup {"?"} : ~At(s, i - 1, c) /\ ~At(s, i + 1, c)
                      /\ ~(At(s, i - 1, "-") /\ L[i][1] = "-")

\* Literals that fit leave the reading of the rest of a text as it is.
LEMMA Substituted ==
  ASSUME NEW s \in Text, NEW L, \A i \in Marks(s) : Fits(L[i]), Separate(s, L)
  PROVE  Read(FlattenSeq(Put(s, L))) = FlattenSeq(PutRead(s, L))
<1> DEFINE n == Len(s)
           r == Read(s)
           M == Marks(s)
           T == Put(s, L)
           P == PutRead(s, L)
<1>1. n \in Nat /\ \A j \in 1..n : s[j] \in Characters
  BY DEF Text
<1>2. IsReading(r, s)
  BY ReadIsReading
<1>3. r \in Seq(State) /\ Len(r) = n
  BY ReadType
<1>4. M \subseteq 1..n /\ \A i \in M : s[i] = "?"
  BY DEF Marks
<1>5. \A i \in M : L[i] \in Text /\ Read(L[i]) \in Seq(State)
  BY ReadType DEF Fits
<1>6. T \in [1..n -> Text] /\ \A i \in 1..n : T[i] = IF i \in M THEN L[i] ELSE <<s[i]>>
  BY <1>1, <1>5 DEF Put, Text
<1>7. P \in [1..n -> Seq(State)] /\ \A i \in 1..n : P[i] = IF i \in M THEN Read(L[i]) ELSE <<r[i]>>
  BY <1>1, <1>3, <1>5 DEF PutRead
<1>8. \A i \in M : /\ Before(r, i).mode = "code"
                   /\ Before(r, i).prev = None \/ At(s, i - 1, Before(r, i).prev)
                   /\ r[i].mode = "code" /\ r[i].prev = "?"
  BY BeforeMark
<1>9. \A i \in M : /\ \A c \in Quotes \cup {"?"} : ~At(s, i - 1, c) /\ ~At(s, i + 1, c)
                   /\ ~(At(s, i - 1, "-") /\ L[i][1] = "-")
                   /\ Fits(L[i])
  BY DEF Separate
<1> HIDE DEF n, r, M, T, P
<1>10. PICK f \in [0..n -> Text] :
         /\ f[0] = <<>>
         /\ \A i \in 1..n : f[i] = f[i - 1] \o T[i]
         /\ FlattenSeq(T) = f[n]
  <2>1. n \in Nat /\ T \in [1..n -> Seq(Characters)]
    BY <1>1, <1>6 DEF Text
  <2>2. \E f \in [0..n -> Seq(Characters)] :
          /\ f[0] = <<>>
          /\ \A i \in 1..n : f[i] = f[i - 1] \o T[i]
          /\ FlattenSeq(T) = f[n]
    BY <2>1, Flatten
  <2> QED
    BY <2>2 DEF Text
<1>11. PICK g \in [0..n -> Seq(State)] :
         /\ g[0] = <<>>
         /\ \A i \in 1..n : g[i] = g[i - 1] \o P[i]
         /\ FlattenSeq(P) = g[n]
  <2>1. n \in Nat /\ P \in [1..n -> Seq(State)]
    BY <1>1, <1>7
  <2> QED
    BY <2>1, Flatten
<1> DEFINE Same(i) == IF i \in M THEN End(f[i]).mode = "code" /\ End(f[i]).prev \in {"a", Quote}
                                 ELSE End(f[i]) = Before(r, i + 1)
           U == {i \in 0..n : Read(f[i]) = g[i] /\ Same(i)}
<1>12. 0 \in U
  <2>1. Read(<<>>) = <<>>
    <3>1. <<>> \in Text /\ Len(<<>>) = 0
      BY DEF Text
    <3>2. Read(<<>>) \in Seq(State) /\ Len(Read(<<>>)) = 0
      BY <3>1, ReadType
    <3> QED
      BY <3>2
  <2>2. End(<<>>) = Fresh
    BY DEF End
  <2>3. 0 \notin M /\ 0 + 1 = 1 /\ 0 \in 0..n
    BY <1>1, <1>4
  <2>4. Before(r, 0 + 1) = Fresh
    BY <2>3 DEF Before
  <2>5. Same(0)
    BY <2>2, <2>3, <2>4, <1>10
  <2> HIDE DEF Same
  <2> QED
    BY <2>1, <2>3, <2>5, <1>10, <1>11
<1>13. ASSUME NEW i \in 0..(n - 1), i \in U
       PROVE  i + 1 \in U
  <2> DEFINE k == i + 1
  <2>1. k \in 1..n /\ k \in 0..n /\ k - 1 = i /\ k # k + 1 /\ (k + 1) - 1 = k /\ k + 1 # 1 /\ i \in 0..n
    BY <1>1
  <2>2. f[k] = f[i] \o T[k] /\ g[k] = g[i] \o P[k] /\ f[i] \in Text
    BY <2>1, <1>10, <1>11
  <2>3. Read(f[i]) = g[i] /\ Same(i)
    BY <1>13
  <2>4. r[k] = After(Before(r, k), s[k])
    BY <2>1, <1>2, ReadingAt DEF n
  <2>5. Before(r, k + 1) = r[k]
    BY <2>1 DEF Before
  <2>6. i \notin M => End(f[i]) = Before(r, k)
    BY <2>3
  <2>7. i \in M => End(f[i]).mode = "code" /\ End(f[i]).prev \in {"a", Quote}
    BY <2>3
  <2>8. i \in M => Before(r, k) = r[i]
    <3>1. i \in M => k # 1
      BY <1>1, <1>4
    <3> QED
      BY <3>1, <2>1 DEF Before
  <2>9. SUFFICES Read(f[k]) = g[k] /\ Same(k)
    BY <2>1
  <2> HIDE DEF k
  <2>10. CASE k \notin M
    <3> DEFINE c == s[k]
    <3>1. T[k] = <<c>> /\ P[k] = <<r[k]>> /\ c \in Characters
      BY <2>1, <2>10, <1>1, <1>6, <1>7
    <3>2. After(End(f[i]), c) = r[k]
      <4>1. CASE i \notin M
        BY <4>1, <2>4, <2>6
      <4>2. CASE i \in M
        <5>1. At(s, i + 1, c)
          BY <2>1 DEF At, n, k
        <5>2. c \notin Quotes
          BY <5>1, <4>2, <1>9
        <5> HIDE DEF c
        <5>3. {"a", Quote, "?"} \cap {"-", "/"} = {}
          BY DEF Quote
        <5>4. After(End(f[i]), c) = [mode |-> "code", prev |-> c]
          BY <4>2, <5>2, <5>3, <2>7, AfterCode
        <5>5. r[i].mode = "code" /\ r[i].prev = "?"
          BY <4>2, <1>8
        <5>6. After(r[i], c) = [mode |-> "code", prev |-> c]
          BY <5>2, <5>3, <5>5, AfterCode
        <5>7. r[k] = After(r[i], c)
          BY <4>2, <2>4, <2>8 DEF c
        <5> QED
          BY <5>4, <5>6, <5>7
      <4> QED
        BY <4>1, <4>2
    <3> HIDE DEF c
    <3>3. /\ Read(f[i] \o <<c>>) = Read(f[i]) \o <<After(End(f[i]), c)>>
          /\ End(f[i] \o <<c>>) = After(End(f[i]), c)
      BY <2>2, <3>1, ReadAppend
    <3>4. Read(f[k]) = g[k]
      BY <3>1, <3>2, <3>3, <2>2, <2>3
    <3>5. End(f[k]) = r[k]
      BY <3>1, <3>2, <3>3, <2>2
    <3> QED
      BY <3>4, <3>5, <2>5, <2>10
  <2>11. CASE k \in M
    <3> DEFINE l == L[k]
               x == End(f[i])
    <3>1. T[k] = l /\ P[k] = Read(l)
      BY <2>1, <2>11, <1>6, <1>7
    <3>2. Fits(l) /\ ~(At(s, i, "-") /\ l[1] = "-") /\ \A c \in Quotes \cup {"?"} : ~At(s, i, c)
      BY <2>1, <2>11, <1>9
    <3>3. i \notin M
      <4> SUFFICES ASSUME i \in M
                   PROVE  FALSE
        OBVIOUS
      <4>1. At(s, i, "?")
        BY <1>4 DEF At, n
      <4> QED
        BY <4>1, <3>2
    <3>4. x.mode = "code" /\ (x.prev = None \/ At(s, i, x.prev))
      BY <3>3, <2>1, <2>6, <2>11, <1>8
    <3> HIDE DEF l, x
    <3>5. x.prev \notin Quotes /\ ~(x.prev = "-" /\ l[1] = "-")
      BY <3>2, <3>4, NoneIs
    <3>6. After(x, l[1]) = After(Fresh, l[1])
      BY <3>2, <3>4, <3>5, LiteralAfter
    <3>7. l \in Text /\ l # <<>> /\ End(l).mode = "code" /\ End(l).prev \in {"a", Quote}
      BY <3>2 DEF Fits
    <3>8. Read(f[i] \o l) = Read(f[i]) \o Read(l) /\ End(f[i] \o l) = End(l)
      BY <3>6, <3>7, <2>2, ReadConcat DEF x
    <3>9. Read(f[k]) = g[k]
      BY <3>1, <3>8, <2>2, <2>3
    <3>10. End(f[k]) = End(l)
      BY <3>1, <3>8, <2>2
    <3> QED
      BY <3>7, <3>9, <3>10, <2>11
  <2> QED
    BY <2>10, <2>11
<1>14. 0..n \subseteq U
  <2> HIDE DEF U
  <2> QED
    BY <1>1, <1>12, <1>13, Upwards
<1>15. Read(f[n]) = g[n]
  <2>1. n \in 0..n
    BY <1>1
  <2> QED
    BY <2>1, <1>14
<1> QED
  BY <1>10, <1>11, <1>15 DEF T, P

\* The placeholders up to one of them are some, and no more than all.
LEMMA UptoCounts ==
  ASSUME NEW n \in Nat, NEW M \in SUBSET (1..n), NEW i \in M
  PROVE  Cardinality(Upto(M, i)) \in 1..Cardinality(M)
<1> DEFINE V == Upto(M, i)
<1>1. i \in V /\ V \subseteq M
  BY DEF Upto
<1> HIDE DEF V
<1>2. IsFiniteSet(1..n)
  BY FS_Interval
<1>3. IsFiniteSet(M)
  BY <1>2, FS_Subset
<1>4. IsFiniteSet(V) /\ Cardinality(V) <= Cardinality(M)
  BY <1>1, <1>3, FS_Subset
<1>5. Cardinality(V) \in Nat /\ Cardinality(M) \in Nat
  BY <1>3, <1>4, FS_CardinalityType
<1>6. Cardinality(V) # 0
  BY <1>1, <1>4, FS_EmptySet
<1> QED
  BY <1>4, <1>5, <1>6 DEF V

\* For every query whose placeholders stand apart, and every list of
\* arguments, a string that holds quotes, comments or question marks
\* included: the server reads what interpolate sends as the query with the
\* literals in the place of its placeholders, unless a negative number
\* follows a minus sign.
THEOREM Kept == Spec => []LiteralsIntact
<1>1. IInv => LiteralsIntact
  <2> SUFFICES ASSUME IInv, sent.e = "sent", Apart, ~MinusBeforeNegative
               PROVE  Read(sent.text) = Meant
    BY DEF LiteralsIntact, Intact
  <2> DEFINE M == Marks(query)
             L == [i \in M |-> literal(ArgumentAt(i))]
             named    == \E i \in 1..Len(args) : args[i].name # None
             plain    == args = <<>> /\ \A i \in 1..Len(query) : query[i] # "?"
             matched  == Cardinality(M) = Len(args)
             literals == \A i \in 1..Len(args) : HasLiteral(args[i].value)
  <2>1. sent = interpolate(query, args) /\ query \in Text /\ args \in Seq(Arguments)
    <3>1. Unsent.e # "sent"
      BY DEF Unsent
    <3> QED
      BY <3>1 DEF IInv
  <2>2. Placeholders(query) = M
    BY <2>1, PlaceholdersAreMarks
  <2>3. ~named /\ (plain \/ (matched /\ literals))
    BY <2>1, <2>2, InterpolateCases
  <2>4. plain => M = {}
    BY <2>1, NoMarks
  <2>5. M \subseteq 1..Len(query) /\ Len(query) \in Nat /\ Len(args) \in Nat
    BY <2>1 DEF Marks, Text
  <2>6. ASSUME NEW i \in M
        PROVE  Fits(L[i])
    <3> DEFINE k == Cardinality(Upto(M, i))
    <3>1. matched /\ literals
      BY <2>3, <2>4
    <3>2. k \in 1..Len(args)
      <4> HIDE DEF M
      <4>1. k \in 1..Cardinality(M)
        BY <2>5, <2>6, UptoCounts
      <4> QED
        BY <4>1, <3>1
    <3>3. L[i] = literal(args[k].value)
      BY DEF ArgumentAt
    <3> HIDE DEF k, L, M
    <3>4. args[k] \in Arguments
      BY <3>2, <2>1
    <3>5. args[k].value \in Values
      BY <3>4, InterpolateAssumption
    <3>6. HasLiteral(args[k].value)
      BY <3>1, <3>2
    <3>7. Fits(literal(args[k].value))
      BY <3>5, <3>6, LiteralFits
    <3> QED
      BY <3>3, <3>7
  <2>7. Separate(query, L)
    <3> SUFFICES ASSUME NEW i \in M
                 PROVE  /\ \A c \in Quotes \cup {"?"} : ~At(query, i - 1, c) /\ ~At(query, i + 1, c)
                        /\ ~(At(query, i - 1, "-") /\ L[i][1] = "-")
      BY DEF Separate
    <3>1. \A c \in Quotes \cup {"?"} : ~At(query, i - 1, c) /\ ~At(query, i + 1, c)
      BY DEF Apart
    <3>2. L[i] = literal(ArgumentAt(i))
      OBVIOUS
    <3>3. ~(At(query, i - 1, "-") /\ literal(ArgumentAt(i))[1] = "-")
      BY DEF MinusBeforeNegative
    <3> QED
      BY <3>1, <3>2, <3>3
  <2>8. Meant = FlattenSeq(PutRead(query, L))
    <3>1. \A i \in 1..Len(query) : i \in M => Read(literal(ArgumentAt(i))) = Read(L[i])
      OBVIOUS
    <3> HIDE DEF L
    <3> QED
      BY <3>1 DEF Meant, PutRead
  <2>9. sent.text = FlattenSeq(Put(query, L))
    <3>1. CASE plain
      <4>1. Put(query, L) = [i \in 1..Len(query) |-> <<query[i]>>]
        BY <3>1, <2>4 DEF Put
      <4>2. FlattenSeq([i \in 1..Len(query) |-> <<query[i]>>]) = query
        BY <2>1, FlattenSingles DEF Text
      <4>3. sent.text = query
        BY <3>1, <2>1, <2>3, InterpolateCases
      <4> QED
        BY <4>1, <4>2, <4>3
    <3>2. CASE ~plain
      <4>1. sent.text = FlattenSeq(Filled(query, args))
        BY <3>2, <2>1, <2>2, <2>3, InterpolateCases
      <4>2. \A i \in 1..Len(query) : i \in M => literal(args[Cardinality(Upto(M, i))].value) = L[i]
        BY DEF ArgumentAt
      <4> HIDE DEF L
      <4>3. Filled(query, args) = Put(query, L)
        BY <4>2, <2>2 DEF Filled, Put
      <4> QED
        BY <4>1, <4>3
    <3> QED
      BY <3>1, <3>2
  <2> HIDE DEF L
  <2> QED
    BY <2>1, <2>6, <2>7, <2>8, <2>9, Substituted
<1> QED
  BY <1>1, Inductive, PTL
=============================================================================
