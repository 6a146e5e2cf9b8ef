------------------------------ MODULE Induction ------------------------------
(***************************************************************************)
(* Induction over positions, for the proofs about texts and documents.  A  *)
(* property is given as the set of the positions that have it, and the     *)
(* argument is that of a least or a greatest position outside the set.     *)
(***************************************************************************)
EXTENDS Integers, SequencesExt, WellFoundedInduction, SequenceTheorems, TLAPS

----------------------------------------------------------------------------
(* Least and greatest elements *)

\* A set of natural numbers has a least element.
LEMMA Least ==
  ASSUME NEW T \in SUBSET Nat, T # {}
  PROVE  \E x \in T : \A y \in T : x <= y
<1> DEFINE R == OpToRel(<, Nat)
<1>1. IsWellFoundedOn(R, Nat)
  BY NatLessThanWellFounded
<1>2. \A x, y \in Nat : y < x => <<y, x>> \in R
  BY DEF OpToRel
<1> HIDE DEF R
<1>3. \E x \in T : \A y \in T : ~(<<y, x>> \in R)
  BY <1>1, WFMin
<1>4. \A x, y \in Nat : ~(<<y, x>> \in R) => x <= y
  BY <1>2
<1> QED
  BY <1>3, <1>4

\* A set of numbers from 0 to n has a greatest element.
LEMMA Greatest ==
  ASSUME NEW n \in Nat, NEW T \in SUBSET (0..n), T # {}
  PROVE  \E x \in T : \A y \in T : y <= x
<1> DEFINE U == {k \in 0..n : n - k \in T}
<1>1. U \in SUBSET Nat /\ U # {}
  <2>1. PICK t \in T : TRUE
    OBVIOUS
  <2>2. n - t \in 0..n /\ n - (n - t) = t
    OBVIOUS
  <2> QED
    BY <2>1, <2>2
<1>2. PICK u \in U : \A v \in U : u <= v
  <2> HIDE DEF U
  <2> QED
    BY <1>1, Least
<1>3. ASSUME NEW y \in T
      PROVE  y <= n - u
  <2>1. n - y \in U
    BY n - (n - y) = y
  <2> QED
    BY <1>2, <2>1
<1> QED
  BY <1>2, <1>3

\* Induction from a to n, over the set of numbers for which something holds.
LEMMA Upwards ==
  ASSUME NEW a \in Nat, NEW n \in Nat, NEW U,
         a <= n => a \in U,
         \A k \in a..(n - 1) : k \in U => k + 1 \in U
  PROVE  a..n \subseteq U
<1> DEFINE T == {k \in a..n : k \notin U}
<1> SUFFICES ASSUME T # {}
             PROVE  FALSE
  OBVIOUS
<1>1. T \in SUBSET Nat
  OBVIOUS
<1>2. PICK k \in T : \A y \in T : k <= y
  <2> HIDE DEF T
  <2> QED
    BY <1>1, Least
<1>3. k # a
  OBVIOUS
<1>4. k - 1 \in a..(n - 1) /\ k - 1 \notin T
  BY <1>2, <1>3
<1>5. (k - 1) + 1 \in U
  BY <1>4
<1> QED
  BY <1>5

\* Induction from n down to a, where each number may rest on all above it.
LEMMA Downwards ==
  ASSUME NEW a \in Nat, NEW n \in Nat, NEW U,
         \A k \in a..n : (k + 1)..n \subseteq U => k \in U
  PROVE  a..n \subseteq U
<1> DEFINE T == {k \in a..n : k \notin U}
<1> SUFFICES ASSUME T # {}
             PROVE  FALSE
  OBVIOUS
<1>1. T \in SUBSET (0..n)
  OBVIOUS
<1>2. PICK k \in T : \A y \in T : y <= k
  <2> HIDE DEF T
  <2> QED
    BY <1>1, Greatest
<1>3. (k + 1)..n \subseteq U
  BY <1>2
<1> QED
  BY <1>3

\* The least element of a set is what Min chooses.
LEMMA MinIs ==
  ASSUME NEW S \in SUBSET Nat, S # {}
  PROVE  Min(S) \in S /\ \A y \in S : Min(S) <= y
<1>1. \E x \in S : \A y \in S : x =< y
  BY Least
<1> QED
  BY <1>1 DEF Min

----------------------------------------------------------------------------
(* FlattenSeq *)

\* FlattenSeq puts its pieces together from left to right.
LEMMA Flatten ==
  ASSUME NEW S, NEW n \in Nat, NEW F \in [1..n -> Seq(S)]
  PROVE  \E f \in [0..n -> Seq(S)] :
           /\ f[0] = <<>>
           /\ \A i \in 1..n : f[i] = f[i - 1] \o F[i]
           /\ FlattenSeq(F) = f[n]
<1> DEFINE D(g, i) == IF i = 1 THEN F[i] ELSE g[i - 1] \o F[i]
           P(m) == \E g : g = [i \in 1..m |-> D(g, i)]
<1>1. F \in Seq(Seq(S)) /\ Len(F) = n
  OBVIOUS
<1>2. P(0)
  <2>1. <<>> = [i \in 1..0 |-> D(<<>>, i)]
    OBVIOUS
  <2> QED
    BY <2>1
<1>3. ASSUME NEW m \in Nat, P(m)
      PROVE  P(m + 1)
  <2>1. PICK g : g = [i \in 1..m |-> D(g, i)]
    BY <1>3
  <2> DEFINE h == [i \in 1..(m + 1) |-> IF i <= m THEN g[i] ELSE D(g, m + 1)]
  <2>2. \A i \in 1..(m + 1) : D(h, i) = D(g, i)
    <3> SUFFICES ASSUME NEW i \in 1..(m + 1), i # 1
                 PROVE  h[i - 1] = g[i - 1]
      OBVIOUS
    <3> QED
      OBVIOUS
  <2>3. \A i \in 1..m : g[i] = D(g, i)
    BY <2>1
  <2>4. \A i \in 1..(m + 1) : h[i] = D(h, i)
    <3> SUFFICES ASSUME NEW i \in 1..(m + 1)
                 PROVE  h[i] = D(g, i)
      BY <2>2
    <3>1. i <= m \/ i = m + 1
      OBVIOUS
    <3> QED
      BY <3>1, <2>3
  <2>5. h = [i \in 1..(m + 1) |-> D(h, i)]
    BY <2>4
  <2> HIDE DEF h
  <2> QED
    BY <2>5
<1>4. P(n)
  <2> DEFINE U == {m \in 0..n : P(m)}
  <2> HIDE DEF P
  <2>1. 0 \in U /\ \A m \in 0..(n - 1) : m \in U => m + 1 \in U
    BY <1>2, <1>3
  <2> HIDE DEF U
  <2>2. 0..n \subseteq U
    BY <2>1, Upwards
  <2> QED
    BY <2>2 DEF U
<1> DEFINE g == CHOOSE g : g = [i \in 1..n |-> D(g, i)]
           f == [i \in 0..n |-> IF i = 0 THEN <<>> ELSE g[i]]
           V == {i \in 0..n : f[i] \in Seq(S)}
<1>5. g = [i \in 1..n |-> D(g, i)]
  BY <1>4
<1>6. n # 0 => FlattenSeq(F) = g[n]
  BY <1>1 DEF FlattenSeq
<1>7. n = 0 => FlattenSeq(F) = <<>>
  BY <1>1 DEF FlattenSeq
<1> HIDE DEF g
<1>8. \A i \in 1..n : g[i] = D(g, i)
  BY <1>5
<1>9. ASSUME NEW i \in 0..(n - 1), i \in V
      PROVE  f[i + 1] = f[i] \o F[i + 1] /\ i + 1 \in V
  <2>1. i + 1 \in 1..n /\ i + 1 \in 0..n /\ i + 1 # 0 /\ (i + 1) - 1 = i
    OBVIOUS
  <2>2. f[i + 1] = D(g, i + 1) /\ f[i] \in Seq(S) /\ F[i + 1] \in Seq(S)
    BY <2>1, <1>8, <1>9
  <2>3. f[i + 1] = f[i] \o F[i + 1]
    <3>1. CASE i = 0
      <4>1. f[i] = <<>> /\ f[i + 1] = F[i + 1]
        BY <3>1, <2>1, <2>2
      <4> HIDE DEF f
      <4> QED
        BY <4>1, <2>2
    <3>2. CASE i # 0
      <4>1. f[i] = g[i] /\ i + 1 # 1
        BY <3>2
      <4> QED
        BY <4>1, <2>1, <2>2
    <3> QED
      BY <3>1, <3>2
  <2> HIDE DEF f
  <2>4. f[i + 1] \in Seq(S)
    <3>1. f[i] \in Seq(S) /\ F[i + 1] \in Seq(S)
      BY <2>2
    <3>2. \A x, y \in Seq(S) : x \o y \in Seq(S)
      OBVIOUS
    <3> QED
      BY <3>1, <3>2, <2>3
  <2> QED
    BY <2>1, <2>3, <2>4
<1>10. 0 \in V
  OBVIOUS
<1>11. 0..n \subseteq V
  <2> HIDE DEF V
  <2> QED
    BY <1>9, <1>10, Upwards
<1>12. f \in [0..n -> Seq(S)] /\ f[0] = <<>>
  BY <1>11
<1>13. \A i \in 1..n : f[i] = f[i - 1] \o F[i]
  <2> SUFFICES ASSUME NEW i \in 1..n
               PROVE  f[i] = f[i - 1] \o F[i]
    OBVIOUS
  <2>1. i - 1 \in 0..(n - 1) /\ i - 1 \in 0..n /\ (i - 1) + 1 = i
    OBVIOUS
  <2> HIDE DEF f, V
  <2>2. f[(i - 1) + 1] = f[i - 1] \o F[(i - 1) + 1]
    BY <2>1, <1>9, <1>11
  <2> QED
    BY <2>1, <2>2
<1>14. FlattenSeq(F) = f[n]
  BY <1>6, <1>7
<1> HIDE DEF f
<1> QED
  BY <1>12, <1>13, <1>14

----------------------------------------------------------------------------
(* Iteration *)

\* f has a and what becomes of it when G is applied up to n times.
Iterates(f, S, a, G, n) == f \in [0..n -> S] /\ f[0] = a /\ \A i \in 1..n : f[i] = G[f[i - 1]]

\* A loop that applies the same function again and again.
LEMMA Iteration ==
  ASSUME NEW S, NEW a \in S, NEW G \in [S -> S], NEW n \in Nat
  PROVE  \E f : Iterates(f, S, a, G, n)
<1> DEFINE D(f, i) == IF i = 0 THEN a ELSE G[f[i - 1]]
           P(m) == \E f \in [0..m -> S] : f = [i \in 0..m |-> D(f, i)]
           U == {m \in 0..n : P(m)}
<1>1. 0 \in U
  <2> DEFINE f == [i \in 0..0 |-> a]
  <2>1. f \in [0..0 -> S] /\ f = [i \in 0..0 |-> D(f, i)]
    OBVIOUS
  <2> HIDE DEF f, D
  <2>2. P(0)
    BY <2>1
  <2> HIDE DEF P
  <2> QED
    BY <2>2
<1>2. ASSUME NEW m \in 0..(n - 1), m \in U
      PROVE  m + 1 \in U
  <2>1. PICK f \in [0..m -> S] : f = [i \in 0..m |-> D(f, i)]
    BY <1>2
  <2> DEFINE g == [i \in 0..(m + 1) |-> IF i <= m THEN f[i] ELSE G[f[m]]]
  <2>2. \A i \in 0..m : f[i] = D(f, i)
    BY <2>1
  <2>3. \A i \in 0..(m + 1) : g[i] = D(g, i)
    <3> SUFFICES ASSUME NEW i \in 0..(m + 1)
                 PROVE  g[i] = D(g, i)
      OBVIOUS
    <3>1. CASE i <= m
      <4>1. g[i] = f[i] /\ (i # 0 => g[i - 1] = f[i - 1])
        BY <3>1
      <4>2. D(g, i) = D(f, i)
        BY <4>1
      <4>3. i \in 0..m
        BY <3>1
      <4> QED
        BY <4>1, <4>2, <4>3, <2>2
    <3>2. CASE i = m + 1
      <4>1. i - 1 = m /\ m \in 0..(m + 1) /\ i # 0 /\ ~(i <= m)
        BY <3>2
      <4>2. g[i] = G[f[m]] /\ g[m] = f[m]
        BY <4>1
      <4> QED
        BY <4>1, <4>2
    <3> QED
      BY <3>1, <3>2
  <2>4. g \in [0..(m + 1) -> S]
    BY <2>1
  <2>5. g = [i \in 0..(m + 1) |-> D(g, i)]
    BY <2>3
  <2> HIDE DEF g, D
  <2>6. P(m + 1)
    BY <2>4, <2>5
  <2> HIDE DEF P
  <2> QED
    BY <2>6
<1>3. 0..n \subseteq U
  <2> HIDE DEF U
  <2> QED
    BY <1>1, <1>2, Upwards
<1>4. PICK f \in [0..n -> S] : f = [i \in 0..n |-> D(f, i)]
  BY <1>3
<1>5. \A i \in 0..n : f[i] = D(f, i)
  BY <1>4
<1>6. f[0] = a /\ \A i \in 1..n : f[i] = G[f[i - 1]]
  BY <1>5
<1> QED
  BY <1>4, <1>6 DEF Iterates

----------------------------------------------------------------------------
(* What follows *)

\* What follows a sequence is what was appended to it.
LEMMA Following ==
  ASSUME NEW S, NEW x \in Seq(S), NEW y \in Seq(S)
  PROVE  SubSeq(x \o y, Len(x) + 1, Len(x \o y)) = y
<1> DEFINE z == x \o y
           s == SubSeq(z, Len(x) + 1, Len(z))
<1>1. z \in Seq(S) /\ Len(z) = Len(x) + Len(y) /\ \A i \in 1..Len(y) : z[Len(x) + i] = y[i]
  BY ConcatProperties
<1> HIDE DEF z
<1>2. Len(x) \in Nat /\ Len(y) \in Nat
  OBVIOUS
<1>3. s \in Seq(S) /\ Len(s) = Len(y)
  BY <1>1, <1>2, SubSeqProperties
<1>4. \A i \in 1..Len(y) : s[i] = y[i]
  <2> SUFFICES ASSUME NEW i \in 1..Len(y)
               PROVE  s[i] = y[i]
    OBVIOUS
  <2>1. s[i] = z[(Len(x) + 1) + i - 1]
    BY <1>1, <1>2, <1>3, SubSeqProperties
  <2>2. (Len(x) + 1) + i - 1 = Len(x) + i
    BY <1>2
  <2> QED
    BY <1>1, <2>1, <2>2
<1> HIDE DEF s
<1>5. s = y
  BY <1>3, <1>4, SeqEqual
<1> QED
  BY <1>5 DEF s, z

\* x \o y, kept from the provers' own rules for sequences.
Joined(x, y) == x \o y

\* Appending is associative.
LEMMA Regroup ==
  ASSUME NEW S, NEW a \in Seq(S), NEW b \in Seq(S), NEW c \in Seq(S)
  PROVE  /\ Joined(a, b) \in Seq(S)
         /\ Joined(Joined(a, b), c) = Joined(a, Joined(b, c))
BY DEF Joined

\* g has what follows each of the pieces of F, which t follows.
Follows(g, S, F, n, t) ==
  /\ g \in [0..n -> Seq(S)] /\ g[0] = FlattenSeq(F) \o t /\ g[n] = t
  /\ \A i \in 1..n : g[i - 1] = F[i] \o g[i]

\* A document is read piece by piece.
LEMMA Piecewise ==
  ASSUME NEW S, NEW n \in Nat, NEW F \in [1..n -> Seq(S)], NEW t \in Seq(S)
  PROVE  \E g : Follows(g, S, F, n, t)
<1>0. \A x, y, w \in Seq(S) : Joined(Joined(x, y), w) = Joined(x, Joined(y, w))
  BY Regroup
<1>1. PICK f \in [0..n -> Seq(S)] :
        /\ f[0] = <<>>
        /\ \A i \in 1..n : f[i] = f[i - 1] \o F[i]
        /\ FlattenSeq(F) = f[n]
  BY Flatten, Zenon
<1> DEFINE z == f[n] \o t
           g == [i \in 0..n |-> SubSeq(z, Len(f[i]) + 1, Len(z))]
           U == {i \in 0..n : g[i] \in Seq(S) /\ z = f[i] \o g[i]}
<1>2. \A x, y \in Seq(S) : x \o y \in Seq(S)
  OBVIOUS
<1>3. ASSUME NEW i \in 0..n, NEW y \in Seq(S), z = f[i] \o y
      PROVE  g[i] = y
  <2>1. f[i] \in Seq(S) /\ g[i] = SubSeq(z, Len(f[i]) + 1, Len(z))
    OBVIOUS
  <2> HIDE DEF z, g
  <2> QED
    BY <1>3, <2>1, Following
<1>4. g[n] = t
  <2>1. n \in 0..n /\ z = f[n] \o t
    OBVIOUS
  <2> HIDE DEF z, g
  <2> QED
    BY <2>1, <1>3
<1>5. n \in U
  <2>1. n \in 0..n /\ z = f[n] \o t
    OBVIOUS
  <2> HIDE DEF z, g
  <2> QED
    BY <2>1, <1>4
<1>6. ASSUME NEW i \in 1..n, i \in U
      PROVE  i - 1 \in U /\ g[i - 1] = F[i] \o g[i]
  <2>1. i - 1 \in 0..n /\ f[i] = f[i - 1] \o F[i]
    <3>1. i - 1 \in 0..n
      OBVIOUS
    <3>2. f[i] = f[i - 1] \o F[i]
      BY <1>1, Zenon
    <3> QED
      BY <3>1, <3>2, Zenon
  <2>2. g[i] \in Seq(S) /\ z = f[i] \o g[i]
    BY <1>6
  <2> HIDE DEF z, g, U
  <2>3. f[i - 1] \in Seq(S) /\ F[i] \in Seq(S)
    BY <2>1
  <2>4. z = Joined(Joined(f[i - 1], F[i]), g[i])
    BY <2>1, <2>2, Zenon DEF Joined
  <2>5. z = Joined(f[i - 1], Joined(F[i], g[i])) /\ Joined(F[i], g[i]) \in Seq(S)
    <3>1. Joined(F[i], g[i]) \in Seq(S)
      BY <2>2, <2>3, Regroup
    <3>2. Joined(Joined(f[i - 1], F[i]), g[i]) = Joined(f[i - 1], Joined(F[i], g[i]))
      BY <2>2, <2>3, <1>0, Zenon
    <3> QED
      BY <2>4, <3>1, <3>2, Zenon
  <2>6. z = f[i - 1] \o (F[i] \o g[i]) /\ F[i] \o g[i] \in Seq(S)
    BY <2>5, Zenon DEF Joined
  <2> DEFINE y == F[i] \o g[i]
  <2>7. y \in Seq(S) /\ z = f[i - 1] \o y
    BY <2>6, Zenon
  <2> HIDE DEF y
  <2>8. g[i - 1] = y
    BY <2>1, <2>7, <1>3
  <2> QED
    BY <2>1, <2>7, <2>8 DEF U, y
<1>7. 0..n \subseteq U
  <2>1. ASSUME NEW k \in 0..n, (k + 1)..n \subseteq U
        PROVE  k \in U
    <3>1. CASE k = n
      <4> HIDE DEF U
      <4> QED
        BY <3>1, <1>5
    <3>2. CASE k # n
      <4>1. k + 1 \in 1..n /\ k + 1 \in (k + 1)..n /\ (k + 1) - 1 = k
        BY <3>2
      <4> HIDE DEF U
      <4>2. k + 1 \in U
        BY <4>1, <2>1
      <4>3. (k + 1) - 1 \in U
        BY <4>1, <4>2, <1>6
      <4> QED
        BY <4>1, <4>3
    <3> QED
      BY <3>1, <3>2
  <2> HIDE DEF U
  <2>2. 0 \in Nat
    OBVIOUS
  <2> QED
    BY <2>1, <2>2, Downwards
<1>8. g \in [0..n -> Seq(S)]
  <2>1. \A i \in 0..n : g[i] \in Seq(S)
    BY <1>7
  <2>2. g = [i \in 0..n |-> g[i]]
    OBVIOUS
  <2> HIDE DEF g
  <2> QED
    BY <2>1, <2>2
<1>9. \A i \in 1..n : g[i - 1] = F[i] \o g[i]
  <2> HIDE DEF g, U
  <2>1. \A i \in 1..n : i \in U
    BY <1>7
  <2> QED
    BY <2>1, <1>6
<1>10. g[0] = FlattenSeq(F) \o t
  <2>1. f[0] \o z = z
    <3>1. z \in Seq(S)
      BY <1>2
    <3> HIDE DEF z
    <3> QED
      BY <1>1, <3>1
  <2>2. 0 \in 0..n /\ z \in Seq(S)
    BY <1>2
  <2> HIDE DEF z, g
  <2>3. g[0] = z
    BY <2>1, <2>2, <1>3
  <2> QED
    BY <2>3, <1>1 DEF z
<1> HIDE DEF g
<1> QED
  BY <1>4, <1>8, <1>9, <1>10 DEF Follows
=============================================================================
