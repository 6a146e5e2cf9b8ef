---------------------------- MODULE MessagesProofs ----------------------------
(***************************************************************************)
(* Proofs about Varint, Qser and Messages: for every width of a word,      *)
(* every number and every message, what is written is read back, and a     *)
(* document that was cut or that holds an unknown field is refused.        *)
(***************************************************************************)
EXTENDS Messages, Induction, FiniteSetTheorems, SequenceTheorems, TLAPS

----------------------------------------------------------------------------
(* Division *)

\* A quotient and a remainder.
LEMMA Division ==
  ASSUME NEW v \in Int, NEW a \in Nat, a # 0
  PROVE  v \div a \in Int /\ v % a \in 0..(a - 1) /\ v = a * (v \div a) + (v % a)
OBVIOUS

\* There is one of each.
LEMMA DivisionUnique ==
  ASSUME NEW v \in Int, NEW a \in Nat, a # 0, NEW q \in Int, NEW r \in 0..(a - 1), v = a * q + r
  PROVE  q = v \div a /\ r = v % a
OBVIOUS

\* Multiplication keeps an order.
LEMMA Times ==
  ASSUME NEW x \in Int, NEW y \in Int, NEW f \in Nat, x <= y
  PROVE  x * f <= y * f
OBVIOUS

----------------------------------------------------------------------------
(* Words *)

\* What the constants say.
LEMMA Conts ==
  /\ Cont \in Nat /\ Cont # 0 /\ Cont >= 4 /\ SignBit \in Nat /\ Cont = 2 * SignBit
  /\ MaxGroups \in Nat /\ MaxGroups >= 2
BY VarintAssumption DEF SignBit

\* The values of ever more groups; those of all but the last fill half a word.
Spans(f) ==
  /\ f \in [0..(MaxGroups - 1) -> Nat \ {0}]
  /\ f[0] = 1 /\ \A i \in 1..(MaxGroups - 1) : f[i] = Cont * f[i - 1]
  /\ f[MaxGroups - 1] = HalfWord

\* Span is defined.
LEMMA SpansExist == \E f : Spans(f)
<1> DEFINE n == MaxGroups - 1
           S == Nat \ {0}
           G == [x \in S |-> Cont * x]
           Eq(f) == f = [i \in 0..n |-> IF i = 0 THEN 1 ELSE Cont * f[i - 1]]
<1>1. n \in Nat /\ n >= 1 /\ 1 \in S
  BY Conts
<1>2. G \in [S -> S]
  BY Conts
<1>3. PICK g \in [0..n -> S] : g[0] = 1 /\ \A i \in 1..n : g[i] = G[g[i - 1]]
  <2> DEFINE a == 1
  <2>1. n \in Nat /\ a \in S
    BY <1>1
  <2> HIDE DEF n, S, G, a
  <2>2. \E g : Iterates(g, S, a, G, n)
    BY <2>1, <1>2, Iteration
  <2> QED
    BY <2>2 DEF a, Iterates
<1>4. Eq(g)
  <2>1. \A i \in 1..n : g[i - 1] \in S
    BY <1>1
  <2>2. \A i \in 1..n : g[i] = Cont * g[i - 1]
    BY <2>1, <1>3
  <2> HIDE DEF G, n, S
  <2>3. \A i \in 0..n : g[i] = IF i = 0 THEN 1 ELSE Cont * g[i - 1]
    BY <1>1, <1>3, <2>2
  <2> QED
    BY <1>3, <2>3
<1> DEFINE f == CHOOSE f : Eq(f)
<1>5. Eq(f)
  <2> HIDE DEF Eq
  <2> QED
    BY <1>4
<1>6. HalfWord = f[n]
  BY DEF HalfWord, Span
<1> HIDE DEF f
<1>7. f[0] = 1 /\ \A i \in 1..n : f[i] = Cont * f[i - 1]
  BY <1>1, <1>5
<1> DEFINE U == {i \in 0..n : f[i] \in S}
<1>8. 0 \in U
  BY <1>1, <1>7
<1>9. ASSUME NEW i \in 0..(n - 1), i \in U
      PROVE  i + 1 \in U
  <2>1. i + 1 \in 1..n /\ (i + 1) - 1 = i
    BY <1>1
  <2>2. f[i + 1] = Cont * f[i]
    BY <2>1, <1>7
  <2>3. f[i] \in S
    BY <1>9
  <2>4. \A x \in S : Cont * x \in S
    BY Conts
  <2>5. f[i + 1] \in S
    <3> HIDE DEF S
    <3> QED
      BY <2>2, <2>3, <2>4
  <2>6. i + 1 \in 0..n
    BY <2>1
  <2> HIDE DEF S, n
  <2> QED
    BY <2>5, <2>6
<1>10. 0..n \subseteq U
  <2> HIDE DEF U, n
  <2> QED
    BY <1>1, <1>8, <1>9, Upwards
<1>11. f \in [0..n -> S]
  BY <1>5, <1>10
<1> QED
  BY <1>6, <1>7, <1>11 DEF Spans

\* What is left of a number is divided in every round.
LEMMA LeftIs ==
  ASSUME NEW v \in Int
  PROVE  /\ Left(v) \in [0..MaxGroups -> Int] /\ Left(v)[0] = v
         /\ \A i \in 1..MaxGroups : Left(v)[i] = Left(v)[i - 1] \div Cont
<1> DEFINE n == MaxGroups
           G == [x \in Int |-> x \div Cont]
           Eq(f) == f = [i \in 0..n |-> IF i = 0 THEN v ELSE f[i - 1] \div Cont]
<1>1. n \in Nat /\ n >= 1
  BY Conts
<1>2. G \in [Int -> Int]
  BY Conts, Division
<1>3. PICK g : Iterates(g, Int, v, G, n)
  <2> HIDE DEF n, G
  <2> QED
    BY <1>1, <1>2, Iteration
<1>4. g \in [0..n -> Int] /\ g[0] = v /\ \A i \in 1..n : g[i] = G[g[i - 1]]
  BY <1>3 DEF Iterates
<1>5. Eq(g)
  <2>1. \A i \in 1..n : g[i - 1] \in Int
    BY <1>1, <1>4
  <2>2. \A i \in 1..n : g[i] = g[i - 1] \div Cont
    BY <2>1, <1>4
  <2> HIDE DEF G, n
  <2>3. \A i \in 0..n : g[i] = IF i = 0 THEN v ELSE g[i - 1] \div Cont
    BY <1>1, <1>4, <2>2
  <2> QED
    BY <1>4, <2>3
<1> DEFINE f == CHOOSE f : Eq(f)
<1>6. Eq(f)
  <2> HIDE DEF Eq
  <2> QED
    BY <1>5
<1>7. Left(v) = f
  BY DEF Left
<1> HIDE DEF f
<1>8. f[0] = v /\ \A i \in 1..n : f[i] = f[i - 1] \div Cont
  BY <1>1, <1>6
<1> DEFINE U == {i \in 0..n : f[i] \in Int}
<1>9. 0 \in U
  BY <1>1, <1>8
<1>10. ASSUME NEW i \in 0..(n - 1), i \in U
      PROVE  i + 1 \in U
  <2>1. i + 1 \in 1..n /\ i + 1 \in 0..n /\ (i + 1) - 1 = i
    BY <1>1
  <2>2. f[i + 1] = f[i] \div Cont
    BY <2>1, <1>8
  <2>3. f[i] \div Cont \in Int
    <3>1. f[i] \in Int
      BY <1>10
    <3> QED
      BY <3>1, Conts, Division
  <2> QED
    BY <2>1, <2>2, <2>3
<1>11. 0..n \subseteq U
  <2> HIDE DEF U, n
  <2> QED
    BY <1>1, <1>9, <1>10, Upwards
<1>12. f \in [0..n -> Int]
  BY <1>6, <1>11
<1> QED
  BY <1>7, <1>8, <1>12

\* What is left after i groups is the quotient by the values of i groups.
LEMMA Quotients ==
  ASSUME NEW v \in Int, NEW f, Spans(f), NEW j \in 0..(MaxGroups - 1)
  PROVE  Left(v)[j] * f[j] <= v /\ v < (Left(v)[j] + 1) * f[j]
<1> DEFINE n == MaxGroups - 1
           l == Left(v)
           U == {i \in 0..n : l[i] * f[i] <= v /\ v < (l[i] + 1) * f[i]}
<1>1. n \in Nat
  BY Conts
<1>2. l \in [0..(n + 1) -> Int] /\ l[0] = v /\ \A i \in 1..(n + 1) : l[i] = l[i - 1] \div Cont
  BY LeftIs, Conts
<1>3. f \in [0..n -> Nat \ {0}] /\ f[0] = 1 /\ \A i \in 1..n : f[i] = Cont * f[i - 1]
  BY DEF Spans
<1> HIDE DEF l
<1>4. 0 \in U
  BY <1>1, <1>2, <1>3
<1>5. ASSUME NEW i \in 0..(n - 1), i \in U
      PROVE  i + 1 \in U
  <2> DEFINE a == l[i]
             b == l[i + 1]
             c == f[i]
             d == f[i + 1]
  <2>1. i + 1 \in 1..n /\ i + 1 \in 1..(n + 1) /\ i + 1 \in 0..n /\ (i + 1) - 1 = i
    BY <1>1
  <2>2. a \in Int /\ b \in Int /\ c \in Nat /\ d \in Nat
    <3>1. i \in 0..(n + 1) /\ i + 1 \in 0..(n + 1) /\ i \in 0..n
      BY <1>1
    <3>2. a \in Int /\ b \in Int
      BY <3>1, <1>2
    <3>3. c \in Nat /\ d \in Nat
      BY <3>1, <2>1, <1>3
    <3> QED
      BY <3>2, <3>3
  <2>3. b = a \div Cont /\ d = Cont * c
    BY <2>1, <1>2, <1>3
  <2>4. a * c <= v /\ v < (a + 1) * c
    BY <1>5
  <2> HIDE DEF a, b, c, d
  <2>5. Cont * b <= a /\ a + 1 <= Cont * (b + 1)
    <3>1. a % Cont \in 0..(Cont - 1) /\ a = Cont * b + (a % Cont)
      BY <2>2, <2>3, Conts, Division
    <3>2. Cont * (b + 1) = Cont * b + Cont
      BY <2>2, Conts
    <3>3. Cont * b \in Int
      BY <2>2, Conts
    <3> QED
      BY <2>2, <3>1, <3>2, <3>3, Conts
  <2>6. (Cont * b) * c <= a * c /\ (a + 1) * c <= (Cont * (b + 1)) * c
    BY <2>2, <2>5, Conts, Times
  <2>7. (Cont * b) * c = b * d /\ (Cont * (b + 1)) * c = (b + 1) * d
    BY <2>2, <2>3, Conts
  <2>8. a * c \in Int /\ (a + 1) * c \in Int /\ b * d \in Int /\ (b + 1) * d \in Int
    BY <2>2
  <2>9. b * d <= v /\ v < (b + 1) * d
    BY <2>4, <2>6, <2>7, <2>8
  <2> QED
    BY <2>1, <2>9 DEF b, d
<1>6. 0..n \subseteq U
  <2> HIDE DEF U, n
  <2> QED
    BY <1>1, <1>4, <1>5, Upwards
<1> QED
  BY <1>6 DEF l

\* Any numbers that satisfy the equation of Assemble are what it computes.
LEMMA AssembleIs ==
  ASSUME NEW n \in Nat, NEW b, NEW above, NEW g, g[n + 1] = above,
         \A i \in 1..n : g[i] = (b[i] % Cont) + Cont * g[i + 1]
  PROVE  Assemble(b, n, above) = g[1] % Word
<1> DEFINE D(f, i) == IF i > n THEN above ELSE (b[i] % Cont) + Cont * f[i + 1]
           Eq(f) == f = [i \in 1..(n + 1) |-> D(f, i)]
           h == [i \in 1..(n + 1) |-> g[i]]
<1>1. Eq(h)
  <2>1. \A i \in 1..(n + 1) : g[i] = D(h, i)
    <3> SUFFICES ASSUME NEW i \in 1..(n + 1)
                 PROVE  g[i] = D(h, i)
      OBVIOUS
    <3>1. CASE i > n
      <4>1. i = n + 1
        BY <3>1
      <4> QED
        BY <3>1, <4>1
    <3>2. CASE ~(i > n)
      <4>1. i \in 1..n /\ i + 1 \in 1..(n + 1)
        BY <3>2
      <4>2. h[i + 1] = g[i + 1]
        BY <4>1
      <4>3. g[i] = (b[i] % Cont) + Cont * g[i + 1]
        BY <4>1
      <4> QED
        BY <3>2, <4>2, <4>3
    <3> QED
      BY <3>1, <3>2
  <2> HIDE DEF D
  <2> QED
    BY <2>1
<1> DEFINE f == CHOOSE f : Eq(f)
<1>2. Eq(f)
  <2> HIDE DEF Eq
  <2> QED
    BY <1>1
<1>3. Assemble(b, n, above) = f[1] % Word
  BY DEF Assemble
<1> HIDE DEF f
<1>4. \A i \in 1..(n + 1) : f[i] = D(f, i)
  <2> HIDE DEF D
  <2> QED
    BY <1>2
<1> DEFINE U == {i \in 1..(n + 1) : f[i] = g[i]}
<1>5. ASSUME NEW i \in 1..(n + 1), (i + 1)..(n + 1) \subseteq U
      PROVE  i \in U
  <2>1. CASE i > n
    <3>1. i = n + 1
      BY <2>1
    <3>2. f[i] = above
      BY <2>1, <1>4
    <3> QED
      BY <3>1, <3>2
  <2>2. CASE ~(i > n)
    <3>1. i \in 1..n /\ i + 1 \in (i + 1)..(n + 1)
      BY <2>2
    <3>2. f[i + 1] = g[i + 1]
      BY <3>1, <1>5
    <3>3. f[i] = (b[i] % Cont) + Cont * f[i + 1]
      BY <2>2, <1>4
    <3>4. g[i] = (b[i] % Cont) + Cont * g[i + 1]
      BY <3>1
    <3> QED
      BY <3>2, <3>3, <3>4
  <2> QED
    BY <2>1, <2>2
<1>6. 1..(n + 1) \subseteq U
  <2> HIDE DEF U
  <2>1. n + 1 \in Nat /\ 1 \in Nat
    OBVIOUS
  <2> QED
    BY <2>1, <1>5, Downwards
<1>7. f[1] = g[1]
  BY <1>6
<1> QED
  BY <1>3, <1>7

\* The groups of a number, and where a reader finds its end.
LEMMA GroupsAre ==
  ASSUME NEW v \in Int, NEW n \in 1..MaxGroups
  PROVE  /\ Len(Groups(v, n)) = n /\ Stop(Groups(v, n)) = n
         /\ Groups(v, n)[n] = Left(v)[n - 1] % Cont
         /\ \A i \in 1..n : Groups(v, n)[i] % Cont = Left(v)[i - 1] % Cont
<1> DEFINE b == Groups(v, n)
           l == Left(v)
<1>1. l \in [0..MaxGroups -> Int]
  BY LeftIs
<1>2. \A i \in 1..n : b[i] = (l[i - 1] % Cont) + (IF i < n THEN Cont ELSE 0)
  BY DEF Groups
<1>3. b = [i \in 1..n |-> b[i]] /\ n \in Nat
  BY Conts DEF Groups
<1>4. Len(b) = n
  <2> HIDE DEF b
  <2> QED
    BY <1>3
<1> HIDE DEF b, l
<1>5. \A i \in 1..n : l[i - 1] \in Int
  BY <1>1, Conts
<1>6. \A i \in 1..n : l[i - 1] % Cont \in 0..(Cont - 1)
  BY <1>5, Conts, Division
<1>7. \A i \in 1..n : /\ i < n => b[i] = (l[i - 1] % Cont) + Cont
                      /\ ~(i < n) => b[i] = l[i - 1] % Cont
  BY <1>2, <1>6, Conts
<1>8. \A i \in 1..n : b[i] % Cont = l[i - 1] % Cont
  <2> SUFFICES ASSUME NEW i \in 1..n
               PROVE  b[i] % Cont = l[i - 1] % Cont
    OBVIOUS
  <2> DEFINE x == l[i - 1] % Cont
  <2>1. x \in 0..(Cont - 1) /\ Cont \in Nat /\ Cont # 0
    BY <1>6, Conts
  <2>2. b[i] = x \/ b[i] = x + Cont
    BY <1>7
  <2> HIDE DEF x
  <2>3. x % Cont = x
    <3>1. x = Cont * 0 + x /\ x \in Int
      BY <2>1
    <3> QED
      BY <2>1, <3>1, DivisionUnique
  <2>4. (x + Cont) % Cont = x
    <3>1. x + Cont = Cont * 1 + x /\ x + Cont \in Int
      BY <2>1
    <3> QED
      BY <2>1, <3>1, DivisionUnique
  <2> QED
    BY <2>2, <2>3, <2>4 DEF x
<1>9. n \in 1..n /\ ~(n < n)
  BY Conts
<1>10. b[n] = l[n - 1] % Cont
  BY <1>7, <1>9
<1>11. Stop(b) = n
  <2> DEFINE ends == {i \in 1..Len(b) : b[i] < Cont}
  <2>1. \A i \in 1..n : b[i] < Cont <=> i = n
    <3> SUFFICES ASSUME NEW i \in 1..n
                 PROVE  b[i] < Cont <=> i = n
      OBVIOUS
    <3>1. l[i - 1] % Cont \in 0..(Cont - 1)
      BY <1>6
    <3>2. CASE i < n
      BY <3>1, <3>2, <1>7, Conts
    <3>3. CASE ~(i < n)
      BY <3>1, <3>3, <1>7, Conts
    <3> QED
      BY <3>2, <3>3
  <2>2. ends = {n}
    BY <2>1, <1>4, <1>9
  <2>3. n \in Nat
    BY Conts
  <2>4. Stop(b) = Min(ends)
    BY <2>2 DEF Stop
  <2> HIDE DEF ends
  <2>5. Min(ends) \in ends
    BY <2>2, <2>3, MinIs
  <2> QED
    BY <2>2, <2>4, <2>5
<1> QED
  BY <1>4, <1>8, <1>10, <1>11 DEF b, l

\* The sizes of words.
LEMMA Words == HalfWord \in Nat /\ HalfWord # 0 /\ Word \in Nat /\ Word # 0 /\ Word = HalfWord + HalfWord
<1>1. PICK f : Spans(f)
  BY SpansExist
<1>2. MaxGroups - 1 \in 0..(MaxGroups - 1)
  BY Conts
<1>3. HalfWord \in Nat /\ HalfWord # 0
  BY <1>1, <1>2 DEF Spans
<1> QED
  BY <1>3 DEF Word

\* A number is what its groups and what is left of it amount to.
LEMMA Digits ==
  ASSUME NEW v \in Int, NEW n \in 1..MaxGroups, NEW i \in 1..n
  PROVE  Left(v)[i - 1] = (Groups(v, n)[i] % Cont) + Cont * Left(v)[i] /\ Left(v)[i] \in Int
<1> DEFINE l == Left(v)
<1>1. l \in [0..MaxGroups -> Int] /\ \A k \in 1..MaxGroups : l[k] = l[k - 1] \div Cont
  BY LeftIs
<1>2. Groups(v, n)[i] % Cont = l[i - 1] % Cont
  BY GroupsAre
<1> HIDE DEF l
<1>3. i \in 1..MaxGroups /\ i \in 0..MaxGroups /\ i - 1 \in 0..MaxGroups
  BY Conts
<1>4. l[i - 1] \in Int /\ l[i] \in Int /\ l[i] = l[i - 1] \div Cont
  BY <1>1, <1>3
<1> DEFINE a == l[i - 1]
<1>5. a = Cont * (a \div Cont) + (a % Cont) /\ a % Cont \in Int
  <2>1. a \in Int
    BY <1>4
  <2> HIDE DEF a
  <2>2. a % Cont \in 0..(Cont - 1) /\ a = Cont * (a \div Cont) + (a % Cont)
    BY <2>1, Conts, Division
  <2> QED
    BY <2>2, Conts
<1>6. Cont * l[i] \in Int
  BY <1>4, Conts
<1>7. a = (a % Cont) + Cont * l[i]
  BY <1>4, <1>5, <1>6
<1> QED
  BY <1>2, <1>4, <1>7 DEF l

\* The groups of a number, under what is left of it.
LEMMA Regrouped ==
  ASSUME NEW v \in Int, NEW n \in 1..MaxGroups
  PROVE  Assemble(Groups(v, n), n, Left(v)[n]) = v % Word
<1> DEFINE b == Groups(v, n)
           l == Left(v)
           g == [i \in 1..(n + 1) |-> l[i - 1]]
<1>1. n \in Nat
  BY Conts
<1>2. l[0] = v
  BY LeftIs
<1>3. \A i \in 1..n : l[i - 1] = (b[i] % Cont) + Cont * l[i]
  BY Digits
<1> HIDE DEF b, l
<1>4. g[n + 1] = l[n] /\ g[1] = v
  BY <1>1, <1>2
<1>5. \A i \in 1..n : g[i] = (b[i] % Cont) + Cont * g[i + 1]
  <2> SUFFICES ASSUME NEW i \in 1..n
               PROVE  g[i] = (b[i] % Cont) + Cont * g[i + 1]
    OBVIOUS
  <2>1. i \in 1..(n + 1) /\ i + 1 \in 1..(n + 1) /\ (i + 1) - 1 = i
    BY <1>1
  <2>2. g[i] = l[i - 1] /\ g[i + 1] = l[i]
    BY <2>1
  <2> QED
    BY <2>2, <1>3
<1> HIDE DEF g
<1>6. Assemble(b, n, l[n]) = g[1] % Word
  BY <1>1, <1>4, <1>5, AssembleIs
<1> QED
  BY <1>4, <1>6 DEF b, l

\* All groups of a number of which only the sign is left: what is above them
\* does not fit into a word.
LEMMA RegroupedFull ==
  ASSUME NEW v \in Int, Left(v)[MaxGroups] = -1
  PROVE  Assemble(Groups(v, MaxGroups), MaxGroups, 0) = v % Word
<1> DEFINE n == MaxGroups
           b == Groups(v, n)
           l == Left(v)
<1>1. n \in Nat /\ n >= 2 /\ n \in 1..n
  BY Conts
<1>2. l[0] = v /\ l \in [0..n -> Int]
  BY LeftIs
<1>3. \A i \in 1..n : l[i - 1] = (b[i] % Cont) + Cont * l[i]
  BY <1>1, Digits
<1>4. PICK f : Spans(f)
  BY SpansExist
<1>5. /\ f \in [0..(n - 1) -> Nat] /\ f[0] = 1 /\ f[n - 1] = HalfWord
      /\ \A i \in 1..(n - 1) : f[i] = Cont * f[i - 1]
  BY <1>4 DEF Spans
<1>6. l[n] = -1
  OBVIOUS
<1>7. \A i \in 1..n : b[i] % Cont \in Int
  <2> SUFFICES ASSUME NEW i \in 1..n
               PROVE  b[i] % Cont \in Int
    OBVIOUS
  <2>1. b[i] % Cont = l[i - 1] % Cont
    BY <1>1, GroupsAre
  <2>2. l[i - 1] \in Int
    BY <1>1, <1>2
  <2>3. l[i - 1] % Cont \in 0..(Cont - 1)
    BY <2>2, Conts, Division
  <2> QED
    BY <2>1, <2>3, Conts
<1> HIDE DEF b, l, n
<1> DEFINE g == [i \in 1..(n + 1) |-> IF i = n + 1 THEN 0 ELSE l[i - 1] + Cont * f[n - i]]
<1>8. g[n + 1] = 0 /\ g[1] = v + Cont * HalfWord
  BY <1>1, <1>2, <1>5
<1>9. ASSUME NEW i \in 1..n
      PROVE  g[i] = (b[i] % Cont) + Cont * g[i + 1]
  <2>1. i \in 1..(n + 1) /\ i + 1 \in 1..(n + 1) /\ (i + 1) - 1 = i /\ i # n + 1
    BY <1>1
  <2>2. g[i] = l[i - 1] + Cont * f[n - i]
    BY <2>1
  <2>3. l[i - 1] = (b[i] % Cont) + Cont * l[i] /\ b[i] % Cont \in Int
    BY <1>3, <1>7
  <2>4. CASE i = n
    <3>1. g[i] = l[i - 1] + Cont * f[0]
      BY <2>2, <2>4, <1>1
    <3>2. g[i + 1] = 0
      BY <2>4, <1>8
    <3>3. l[i - 1] = (b[i] % Cont) + Cont * (-1)
      BY <2>3, <2>4, <1>6
    <3> QED
      BY <3>1, <3>2, <3>3, <2>3, <1>5, Conts
  <2>5. CASE i # n
    <3>1. i + 1 # n + 1 /\ n - i \in 1..(n - 1) /\ (n - i) - 1 = n - (i + 1) /\ n - (i + 1) \in 0..(n - 1)
          /\ i \in 0..n
      BY <2>5, <1>1
    <3>2. g[i + 1] = l[i] + Cont * f[n - (i + 1)]
      BY <2>1, <3>1
    <3>3. f[n - i] = Cont * f[n - (i + 1)]
      BY <3>1, <1>5
    <3> DEFINE x == l[i]
               y == f[n - (i + 1)]
               z == b[i] % Cont
    <3>4. x \in Int /\ y \in Int /\ z \in Int
      BY <3>1, <2>3, <1>2, <1>5
    <3>5. g[i] = (z + Cont * x) + Cont * (Cont * y)
      BY <2>2, <2>3, <3>3
    <3>6. g[i + 1] = x + Cont * y
      BY <3>2
    <3> HIDE DEF x, y, z
    <3>7. (z + Cont * x) + Cont * (Cont * y) = z + Cont * (x + Cont * y)
      BY <3>4, Conts
    <3> QED
      BY <3>5, <3>6, <3>7 DEF z
  <2> QED
    BY <2>4, <2>5
<1> HIDE DEF g
<1>10. Assemble(b, n, 0) = g[1] % Word
  BY <1>1, <1>8, <1>9, AssembleIs
<1>11. (v + Cont * HalfWord) % Word = v % Word
  <2> DEFINE q == v \div Word
             r == v % Word
             w == v + Cont * HalfWord
  <2>1. q \in Int /\ r \in 0..(Word - 1) /\ v = Word * q + r
    BY Words, Division
  <2> HIDE DEF q, r
  <2>2. Cont * HalfWord = Word * SignBit
    BY Conts, Words
  <2>3. w = Word * (q + SignBit) + r /\ w \in Int /\ q + SignBit \in Int
    BY <2>1, <2>2, Conts, Words
  <2> HIDE DEF w
  <2>4. r = w % Word
    BY <2>1, <2>3, Words, DivisionUnique
  <2> QED
    BY <2>4 DEF w, r
<1> QED
  BY <1>8, <1>10, <1>11 DEF b, n

\* Words without a sign: for every width of a word, what AppendUvarint
\* writes is what binary.Uvarint reads.
THEOREM UvarintBack == \A v \in 0..MaxUint : ReadUvarint(AppendUvarint(v)) = Good(v)
<1> SUFFICES ASSUME NEW v \in 0..MaxUint
             PROVE  ReadUvarint(AppendUvarint(v)) = Good(v)
  OBVIOUS
<1> DEFINE l == Left(v)
           S == {k \in 1..MaxGroups : l[k] = 0}
           n == Min(S)
           b == Groups(v, n)
<1>1. v \in Int /\ v >= 0 /\ v < HalfWord + HalfWord
  BY Words DEF MaxUint
<1>2. l \in [0..MaxGroups -> Int] /\ \A i \in 1..MaxGroups : l[i] = l[i - 1] \div Cont
  BY <1>1, LeftIs
<1> DEFINE top == l[MaxGroups - 1]
<1>3. top \in {0, 1}
  <2>1. PICK f : Spans(f)
    BY SpansExist
  <2>2. MaxGroups - 1 \in 0..(MaxGroups - 1) /\ f[MaxGroups - 1] = HalfWord
    BY <2>1, Conts DEF Spans
  <2>3. top * f[MaxGroups - 1] <= v /\ v < (top + 1) * f[MaxGroups - 1]
    BY <1>1, <2>1, <2>2, Quotients
  <2>4. top \in Int
    BY <1>2, Conts
  <2> HIDE DEF top
  <2>5. top * HalfWord <= v /\ v < (top + 1) * HalfWord
    BY <2>2, <2>3
  <2>6. ~(top >= 2)
    <3> SUFFICES ASSUME top >= 2
                 PROVE  FALSE
      OBVIOUS
    <3>1. 2 * HalfWord <= top * HalfWord
      BY <2>4, Words, Times
    <3> QED
      BY <3>1, <2>4, <2>5, <1>1, Words
  <2>7. ~(top <= -1)
    <3> SUFFICES ASSUME top <= -1
                 PROVE  FALSE
      OBVIOUS
    <3>1. (top + 1) * HalfWord <= 0 * HalfWord
      BY <2>4, Words, Times
    <3> QED
      BY <3>1, <2>4, <2>5, <1>1, Words
  <2> QED
    BY <2>4, <2>6, <2>7
<1>4. l[MaxGroups] = 0
  <2>1. l[MaxGroups] = top \div Cont
    BY <1>2, Conts
  <2>2. top = Cont * 0 + top /\ top \in 0..(Cont - 1) /\ top \in Int
    BY <1>3, Conts
  <2> HIDE DEF top
  <2>3. 0 = top \div Cont
    BY <2>2, Conts, DivisionUnique
  <2> QED
    BY <2>1, <2>3
<1>5. n \in 1..MaxGroups /\ l[n] = 0
  <2>1. MaxGroups \in S /\ S \in SUBSET Nat
    BY <1>4, Conts
  <2>2. Min(S) \in S
    <3> HIDE DEF S
    <3> QED
      BY <2>1, MinIs
  <2> QED
    BY <2>2
<1>6. AppendUvarint(v) = b
  BY DEF AppendUvarint
<1> HIDE DEF n
<1>7. Len(b) = n /\ Stop(b) = n /\ b[n] = l[n - 1] % Cont
  BY <1>1, <1>5, GroupsAre
<1>8. n = MaxGroups => b[n] \in {0, 1}
  <2>1. top % Cont = top
    <3>1. top = Cont * 0 + top /\ top \in 0..(Cont - 1) /\ top \in Int
      BY <1>3, Conts
    <3> HIDE DEF top
    <3> QED
      BY <3>1, Conts, DivisionUnique
  <2>2. n = MaxGroups => b[n] = top % Cont
    BY <1>7
  <2> HIDE DEF top
  <2> QED
    BY <2>1, <2>2, <1>3
<1>9. Assemble(b, n, 0) = v
  <2>1. Assemble(b, n, l[n]) = v % Word
    BY <1>1, <1>5, Regrouped
  <2>2. v = Word * 0 + v /\ v \in 0..(Word - 1)
    BY <1>1, Words
  <2>3. v % Word = v
    BY <1>1, <2>2, Words, DivisionUnique
  <2> QED
    BY <2>1, <2>3, <1>5
<1> HIDE DEF b
<1>10. n # 0 /\ ~(n > MaxGroups) /\ ~(n = MaxGroups /\ b[n] > 1)
  <2>1. n = MaxGroups => ~(b[n] > 1)
    BY <1>8
  <2> QED
    BY <2>1, <1>5, Conts
<1>11. ReadUvarint(b) = Good(Assemble(b, n, 0))
  BY <1>7, <1>10 DEF ReadUvarint
<1> QED
  BY <1>6, <1>9, <1>11

\* The sign of a number is in its word.
LEMMA SignedBack ==
  ASSUME NEW v \in MinInt..(HalfWord - 1)
  PROVE  Signed(v % Word) = v
<1>1. v \in Int /\ v >= -HalfWord /\ v < HalfWord
  BY Words DEF MinInt
<1>2. CASE v >= 0
  <2>1. v = Word * 0 + v /\ v \in 0..(Word - 1)
    BY <1>1, <1>2, Words
  <2>2. v % Word = v
    BY <1>1, <2>1, Words, DivisionUnique
  <2> QED
    BY <1>1, <2>2, Words DEF Signed
<1>3. CASE v < 0
  <2> DEFINE r == v + Word
  <2>1. v = Word * (-1) + r /\ r \in 0..(Word - 1) /\ -1 \in Int
    BY <1>1, <1>3, Words
  <2>2. r >= HalfWord /\ r - Word = v
    BY <1>1, <1>3, Words
  <2> HIDE DEF r
  <2>3. v % Word = r
    BY <1>1, <2>1, Words, DivisionUnique
  <2> QED
    BY <2>2, <2>3 DEF Signed
<1> QED
  BY <1>1, <1>2, <1>3

\* Words with a sign: for every width of a word, what Writer.Svarint writes
\* is what Reader.Svarint reads.
THEOREM SvarintBack == \A v \in MinInt..(HalfWord - 1) : ReadSvarint(AppendSvarint(v)) = Good(v)
<1> SUFFICES ASSUME NEW v \in MinInt..(HalfWord - 1)
             PROVE  ReadSvarint(AppendSvarint(v)) = Good(v)
  OBVIOUS
<1> DEFINE l == Left(v)
           S == {k \in 1..MaxGroups : SvarintEnds(v, k)}
           n == Min(S)
           b == Groups(v, n)
<1>1. v \in Int /\ v >= -HalfWord /\ v < HalfWord
  BY Words DEF MinInt
<1>2. l \in [0..MaxGroups -> Int] /\ \A i \in 1..MaxGroups : l[i] = l[i - 1] \div Cont
  BY <1>1, LeftIs
<1> DEFINE top == l[MaxGroups - 1]
<1>3. top \in {-1, 0}
  <2>1. PICK f : Spans(f)
    BY SpansExist
  <2>2. MaxGroups - 1 \in 0..(MaxGroups - 1) /\ f[MaxGroups - 1] = HalfWord
    BY <2>1, Conts DEF Spans
  <2>3. top * f[MaxGroups - 1] <= v /\ v < (top + 1) * f[MaxGroups - 1]
    BY <1>1, <2>1, <2>2, Quotients
  <2>4. top \in Int
    BY <1>2, Conts
  <2> HIDE DEF top
  <2>5. top * HalfWord <= v /\ v < (top + 1) * HalfWord
    BY <2>2, <2>3
  <2>6. ~(top >= 1)
    <3> SUFFICES ASSUME top >= 1
                 PROVE  FALSE
      OBVIOUS
    <3>1. 1 * HalfWord <= top * HalfWord
      BY <2>4, Words, Times
    <3> QED
      BY <3>1, <2>4, <2>5, <1>1, Words
  <2>7. ~(top <= -2)
    <3> SUFFICES ASSUME top <= -2
                 PROVE  FALSE
      OBVIOUS
    <3>1. (top + 1) * HalfWord <= (-1) * HalfWord
      BY <2>4, Words, Times
    <3> QED
      BY <3>1, <2>4, <2>5, <1>1, Words
  <2> QED
    BY <2>4, <2>6, <2>7
<1>4. SvarintEnds(v, MaxGroups)
  <2>1. l[MaxGroups] = top \div Cont
    BY <1>2, Conts
  <2>2. CASE top = 0
    <3>1. 0 = Cont * 0 + 0 /\ 0 \in 0..(Cont - 1)
      BY Conts
    <3>2. 0 = 0 \div Cont /\ 0 = 0 % Cont
      BY <3>1, Conts, DivisionUnique
    <3>3. ~(top % Cont >= SignBit)
      BY <2>2, <3>2, Conts
    <3> QED
      BY <2>1, <2>2, <3>2, <3>3 DEF SvarintEnds
  <2>3. CASE top = -1
    <3>1. -1 = Cont * (-1) + (Cont - 1) /\ Cont - 1 \in 0..(Cont - 1) /\ -1 \in Int
      BY Conts
    <3>2. -1 = (-1) \div Cont /\ Cont - 1 = (-1) % Cont
      BY <3>1, Conts, DivisionUnique
    <3>3. top % Cont >= SignBit
      BY <2>3, <3>2, Conts
    <3> QED
      BY <2>1, <2>3, <3>2, <3>3 DEF SvarintEnds
  <2> QED
    BY <1>3, <2>2, <2>3
<1>5. n \in 1..MaxGroups /\ SvarintEnds(v, n)
  <2>1. MaxGroups \in S /\ S \in SUBSET Nat
    BY <1>4, Conts
  <2>2. Min(S) \in S
    <3> HIDE DEF S
    <3> QED
      BY <2>1, MinIs
  <2> QED
    BY <2>2
<1>6. AppendSvarint(v) = b
  BY DEF AppendSvarint
<1> HIDE DEF n
<1>7. Len(b) = n /\ Stop(b) = n /\ b[n] = l[n - 1] % Cont
  BY <1>1, <1>5, GroupsAre
<1>8. l[n] = IF b[n] >= SignBit THEN -1 ELSE 0
  BY <1>5, <1>7 DEF SvarintEnds
<1> DEFINE above == IF n < MaxGroups /\ b[n] >= SignBit THEN -1 ELSE 0
<1>9. Assemble(b, n, above) = v % Word
  <2>1. Assemble(b, n, l[n]) = v % Word
    BY <1>1, <1>5, Regrouped
  <2>2. CASE above = l[n]
    BY <2>1, <2>2
  <2>3. CASE above # l[n]
    <3>1. n = MaxGroups /\ above = 0 /\ l[n] = -1
      BY <2>3, <1>5, <1>8, Conts
    <3>2. Assemble(Groups(v, MaxGroups), MaxGroups, 0) = v % Word
      BY <3>1, <1>1, RegroupedFull
    <3> QED
      BY <3>1, <3>2
  <2> QED
    BY <2>2, <2>3
<1> HIDE DEF b
<1>10. n # 0 /\ ~(n > MaxGroups)
  BY <1>5, Conts
<1>11. ReadSvarint(b) = Good(Signed(Assemble(b, n, above)))
  BY <1>7, <1>10 DEF ReadSvarint
<1> QED
  BY <1>6, <1>9, <1>11, SignedBack

----------------------------------------------------------------------------
(* Reading one token *)

\* The first token of a document, and what follows it.
LEMMA FirstToken ==
  ASSUME NEW S, NEW t \in S, NEW q \in Seq(S)
  PROVE  /\ <<t>> \o q \in Seq(S) /\ <<t>> \o q # <<>>
         /\ Head(<<t>> \o q) = t /\ Tail(<<t>> \o q) = q
<1> DEFINE z == <<t>> \o q
<1>1. <<t>> \in Seq(S) /\ Len(<<t>>) = 1 /\ <<t>>[1] = t
  OBVIOUS
<1>2. z \in Seq(S) /\ Len(z) = 1 + Len(q) /\ z[1] = t /\ \A i \in 1..Len(q) : z[1 + i] = q[i]
  BY <1>1
<1> HIDE DEF z
<1>3. z # <<>> /\ Head(z) = t
  BY <1>2
<1>4. Tail(z) \in Seq(S) /\ Len(Tail(z)) = Len(q) /\ \A i \in 1..Len(q) : Tail(z)[i] = z[i + 1]
  BY <1>2, <1>3
<1>5. \A i \in 1..Len(q) : Tail(z)[i] = q[i]
  BY <1>2, <1>4
<1>6. Tail(z) = q
  BY <1>4, <1>5, SeqEqual
<1> QED
  BY <1>2, <1>3, <1>6 DEF z

\* A reader in front of a token.
At(r, t, q) ==
  /\ r.err = NoError /\ r.in # <<>> /\ Head(r.in) = t
  /\ Advance(r) = NewReader(q)

\* A new reader is in front of the first token.
LEMMA AtFirst ==
  ASSUME NEW S, NEW t \in S, NEW q \in Seq(S)
  PROVE  At(NewReader(<<t>> \o q), t, q)
<1> DEFINE z == <<t>> \o q
           r == NewReader(z)
<1>1. z # <<>> /\ Head(z) = t /\ Tail(z) = q
  BY FirstToken
<1> HIDE DEF z
<1>2. r = [in |-> z, err |-> NoError]
  BY DEF NewReader
<1>3. r.in = z /\ r.err = NoError
  BY <1>2
<1>4. Advance(r) = [in |-> q, err |-> NoError]
  <2>1. Advance(r) = [r EXCEPT !.in = Tail(r.in)]
    BY <1>2 DEF Advance
  <2>2. Tail(r.in) = q
    BY <1>1, <1>3
  <2> HIDE DEF r
  <2>3. Advance(r) = [r EXCEPT !.in = q]
    BY <2>1, <2>2
  <2> QED
    BY <2>3, <1>2
<1> HIDE DEF r
<1>5. At(r, t, q)
  BY <1>1, <1>3, <1>4 DEF At, NewReader
<1> QED
  BY <1>5 DEF r, z

\* TryField takes the field id it was asked for and leaves another one.
LEMMA FieldIs ==
  ASSUME NEW r, NEW t, NEW q, NEW id, At(r, t, q), t.k = "id"
  PROVE  /\ Has(r, id) <=> t.v = id
         /\ TryField(r, id) = IF t.v = id THEN NewReader(q) ELSE r
<1>1. Peek(r, "id") = r
  BY DEF At, Peek
<1> QED
  BY <1>1 DEF At, Has, TryField, Seen, Pass

\* A number that was written is read back.
LEMMA NumberIs ==
  ASSUME NEW q, NEW x, NEW n, x.r = NewReader(q)
  PROVE  Number(x, Good(n)) = [r |-> NewReader(q), v |-> n]
<1>1. NewReader(q) = [in |-> q, err |-> NoError]
  BY DEF NewReader
<1>2. x.r.err = NoError
  BY <1>1
<1>3. Fail(x.r, NoError) = NewReader(q)
  BY <1>1, <1>2 DEF Fail
<1>4. Good(n).v = n /\ Good(n).err = NoError
  BY DEF Good
<1> QED
  BY <1>2, <1>3, <1>4 DEF Number

\* A number that was written is read back from its token.
LEMMA UvarintIs ==
  ASSUME NEW r, NEW t, NEW q, NEW n \in 0..MaxUint, At(r, t, q), t.k = "varint", t.v = AppendUvarint(n)
  PROVE  Uvarint(r) = [r |-> NewReader(q), v |-> n]
<1> DEFINE x == Take(r, "varint", <<>>)
<1>1. x = [r |-> NewReader(q), v |-> t.v]
  <2>1. Peek(r, "varint") = r
    BY DEF At, Peek
  <2> QED
    BY <2>1 DEF At, Take
<1>2. x.r = NewReader(q) /\ x.v = AppendUvarint(n)
  BY <1>1
<1>3. Uvarint(r) = Number(x, ReadUvarint(x.v))
  BY DEF Uvarint
<1> HIDE DEF x
<1>4. ReadUvarint(x.v) = Good(n)
  BY <1>2, UvarintBack
<1> QED
  BY <1>2, <1>3, <1>4, NumberIs

LEMMA SvarintIs ==
  ASSUME NEW r, NEW t, NEW q, NEW n \in MinInt..(HalfWord - 1), At(r, t, q), t.k = "varint",
         t.v = AppendSvarint(n)
  PROVE  Svarint(r) = [r |-> NewReader(q), v |-> n]
<1> DEFINE x == Take(r, "varint", <<>>)
<1>1. x = [r |-> NewReader(q), v |-> t.v]
  <2>1. Peek(r, "varint") = r
    BY DEF At, Peek
  <2> QED
    BY <2>1 DEF At, Take
<1>2. x.r = NewReader(q) /\ x.v = AppendSvarint(n)
  BY <1>1
<1>3. Svarint(r) = Number(x, ReadSvarint(x.v))
  BY DEF Svarint
<1> HIDE DEF x
<1>4. ReadSvarint(x.v) = Good(n)
  BY <1>2, SvarintBack
<1> QED
  BY <1>2, <1>3, <1>4, NumberIs

----------------------------------------------------------------------------
(* Reading one field *)

\* Two tokens in front of a document.
LEMMA TwoTokens ==
  ASSUME NEW S, NEW a \in S, NEW b \in S, NEW q \in Seq(S)
  PROVE  <<a>> \o <<b>> \in Seq(S) /\ (<<a>> \o <<b>>) \o q = <<a>> \o (<<b>> \o q)
<1>1. \A x, y, w \in Seq(S) : Joined(x, y) \in Seq(S) /\ Joined(Joined(x, y), w) = Joined(x, Joined(y, w))
  BY Regroup
<1>2. <<a>> \in Seq(S) /\ <<b>> \in Seq(S)
  OBVIOUS
<1> QED
  BY <1>1, <1>2, Zenon DEF Joined

\* Three tokens in front of a document.
LEMMA ThreeTokens ==
  ASSUME NEW S, NEW a \in S, NEW b \in S, NEW c \in S, NEW q \in Seq(S)
  PROVE  /\ <<a>> \o (<<b>> \o <<c>>) \in Seq(S)
         /\ (<<a>> \o (<<b>> \o <<c>>)) \o q = <<a>> \o (<<b>> \o (<<c>> \o q))
<1>1. \A u, v \in Seq(S) : Joined(u, v) \in Seq(S)
  BY Regroup
<1>2. \A u, v, w \in Seq(S) : Joined(Joined(u, v), w) = Joined(u, Joined(v, w))
  BY Regroup
<1> DEFINE x == <<a>>
           y == <<b>>
           z == <<c>>
<1>3. x \in Seq(S) /\ y \in Seq(S) /\ z \in Seq(S)
  OBVIOUS
<1> HIDE DEF x, y, z
<1>4. Joined(y, z) \in Seq(S)
  BY <1>1, <1>3, Zenon
<1>5. Joined(x, Joined(y, z)) \in Seq(S)
  BY <1>1, <1>3, <1>4, Zenon
<1>6. Joined(Joined(y, z), q) = Joined(y, Joined(z, q))
  BY <1>2, <1>3, Zenon
<1>7. Joined(Joined(x, Joined(y, z)), q) = Joined(x, Joined(Joined(y, z), q))
  BY <1>2, <1>3, <1>4, Zenon
<1> QED
  BY <1>5, <1>6, <1>7, Zenon DEF x, y, z, Joined

\* The numbers as they are written.
Numbers == {AppendUvarint(n) : n \in 0..MaxUint} \cup {AppendSvarint(n) : n \in MinInt..(HalfWord - 1)}

\* The tokens of a message with these field ids and with strings over B.
Inner(ids, B) ==
  {[k |-> "id", v |-> i] : i \in ids} \cup {[k |-> "varint", v |-> b] : b \in Numbers}
  \cup {[k |-> "blob", v |-> s] : s \in Seq(B)}

\* v is a value for the field f.
Holds(f, v, B) ==
  \/ f.kind = "string" /\ f.default = <<>> /\ v \in Seq(B)
  \/ f.kind = "uint" /\ v \in 0..MaxUint
  \/ f.kind = "hugeint" /\ v \in [upper : MinInt..(HalfWord - 1), lower : 0..MaxUint]

\* A document begins with one of these field ids.
Opens(q, ids) == \E t, w : At(NewReader(q), t, w) /\ t.k = "id" /\ t.v \in ids

\* A field that is not there has its default.
LEMMA AbsentIs ==
  ASSUME NEW r, NEW t, NEW q, NEW f, At(r, t, q), t.k = "id", t.v # f.id, f.kind = "string"
  PROVE  DecodeField(r, f) = [r |-> r, v |-> f.default]
<1>1. ~Has(r, f.id) /\ TryField(r, f.id) = r
  BY FieldIs
<1> QED
  BY <1>1 DEF DecodeField, Optional

\* A string.
LEMMA StringBack ==
  ASSUME NEW S, NEW f, NEW s, NEW q \in Seq(S), f.kind = "string",
         [k |-> "id", v |-> f.id] \in S, [k |-> "blob", v |-> s] \in S, s # <<>>
  PROVE  /\ EncodeField(f, s) \in Seq(S)
         /\ DecodeField(NewReader(EncodeField(f, s) \o q), f) = [r |-> NewReader(q), v |-> s]
         /\ Opens(EncodeField(f, s) \o q, {f.id})
<1> DEFINE a == [k |-> "id", v |-> f.id]
           b == [k |-> "blob", v |-> s]
           w == <<b>> \o q
           r == NewReader(<<a>> \o w)
<1>1. EncodeField(f, s) = <<a>> \o <<b>>
  BY DEF EncodeField, NonEmptyField, FieldBytes, Field, PutBytes
<1>2. a.k = "id" /\ a.v = f.id /\ b.k = "blob" /\ b.v = s /\ a \in S /\ b \in S
  OBVIOUS
<1> HIDE DEF a, b
<1>3. <<a>> \o <<b>> \in Seq(S) /\ (<<a>> \o <<b>>) \o q = <<a>> \o w
  BY <1>2, TwoTokens
<1>4. w \in Seq(S) /\ At(NewReader(w), b, q)
  BY <1>2, FirstToken, AtFirst
<1> HIDE DEF w
<1>5. At(r, a, w)
  BY <1>2, <1>4, AtFirst
<1>6. Opens(<<a>> \o w, {f.id})
  BY <1>2, <1>5 DEF Opens
<1> HIDE DEF r
<1>7. Has(r, f.id) /\ TryField(r, f.id) = NewReader(w)
  BY <1>2, <1>5, FieldIs
<1>8. Bytes(NewReader(w)) = [r |-> NewReader(q), v |-> s]
  <2> DEFINE p == NewReader(w)
  <2>1. At(p, b, q)
    BY <1>4
  <2> HIDE DEF p
  <2>2. Peek(p, "blob") = p
    BY <2>1, <1>2 DEF At, Peek
  <2>3. Bytes(p) = [r |-> NewReader(q), v |-> s]
    BY <2>1, <2>2, <1>2 DEF At, Bytes, Take
  <2> QED
    BY <2>3 DEF p
<1>9. DecodeField(r, f) = Bytes(NewReader(w))
  BY <1>7 DEF DecodeField, Optional
<1> QED
  BY <1>1, <1>3, <1>6, <1>8, <1>9 DEF r

\* A number.
LEMMA UintBack ==
  ASSUME NEW S, NEW f, NEW n \in 0..MaxUint, NEW q \in Seq(S), f.kind = "uint",
         [k |-> "id", v |-> f.id] \in S, [k |-> "varint", v |-> AppendUvarint(n)] \in S
  PROVE  /\ EncodeField(f, n) \in Seq(S)
         /\ DecodeField(NewReader(EncodeField(f, n) \o q), f) = [r |-> NewReader(q), v |-> n]
         /\ Opens(EncodeField(f, n) \o q, {f.id})
<1> DEFINE a == [k |-> "id", v |-> f.id]
           b == [k |-> "varint", v |-> AppendUvarint(n)]
           w == <<b>> \o q
           r == NewReader(<<a>> \o w)
<1>1. EncodeField(f, n) = <<a>> \o <<b>>
  BY DEF EncodeField, FieldUvarint, Field, PutUvarint
<1>2. a.k = "id" /\ a.v = f.id /\ b.k = "varint" /\ b.v = AppendUvarint(n) /\ a \in S /\ b \in S
  OBVIOUS
<1> HIDE DEF a, b
<1>3. <<a>> \o <<b>> \in Seq(S) /\ (<<a>> \o <<b>>) \o q = <<a>> \o w
  BY <1>2, TwoTokens
<1>4. w \in Seq(S) /\ At(NewReader(w), b, q)
  BY <1>2, FirstToken, AtFirst
<1> HIDE DEF w
<1>5. At(r, a, w)
  BY <1>2, <1>4, AtFirst
<1>6. Opens(<<a>> \o w, {f.id})
  BY <1>2, <1>5 DEF Opens
<1> HIDE DEF r
<1>7. Has(r, f.id) /\ TryField(r, f.id) = NewReader(w)
  BY <1>2, <1>5, FieldIs
<1>8. Uvarint(NewReader(w)) = [r |-> NewReader(q), v |-> n]
  BY <1>2, <1>4, UvarintIs
<1>9. DecodeField(r, f) = Uvarint(NewReader(w))
  BY <1>7 DEF DecodeField, Optional
<1> QED
  BY <1>1, <1>3, <1>6, <1>8, <1>9 DEF r

\* A number of two words.
LEMMA HugeBack ==
  ASSUME NEW S, NEW f, NEW h \in [upper : MinInt..(HalfWord - 1), lower : 0..MaxUint],
         NEW q \in Seq(S), f.kind = "hugeint", [k |-> "id", v |-> f.id] \in S,
         [k |-> "varint", v |-> AppendSvarint(h.upper)] \in S,
         [k |-> "varint", v |-> AppendUvarint(h.lower)] \in S
  PROVE  /\ EncodeField(f, h) \in Seq(S)
         /\ DecodeField(NewReader(EncodeField(f, h) \o q), f) = [r |-> NewReader(q), v |-> h]
         /\ Opens(EncodeField(f, h) \o q, {f.id})
<1> DEFINE a == [k |-> "id", v |-> f.id]
           b == [k |-> "varint", v |-> AppendSvarint(h.upper)]
           c == [k |-> "varint", v |-> AppendUvarint(h.lower)]
           x == <<c>> \o q
           w == <<b>> \o x
           r == NewReader(<<a>> \o w)
<1>1. EncodeField(f, h) = <<a>> \o (<<b>> \o <<c>>)
  BY DEF EncodeField, Field, PutHugeint, PutSvarint, PutUvarint
<1>2. /\ a.k = "id" /\ a.v = f.id /\ a \in S
      /\ b.k = "varint" /\ b.v = AppendSvarint(h.upper) /\ b \in S
      /\ c.k = "varint" /\ c.v = AppendUvarint(h.lower) /\ c \in S
      /\ h.upper \in MinInt..(HalfWord - 1) /\ h.lower \in 0..MaxUint
  OBVIOUS
<1> HIDE DEF a, b, c
<1>3. <<a>> \o (<<b>> \o <<c>>) \in Seq(S) /\ (<<a>> \o (<<b>> \o <<c>>)) \o q = <<a>> \o w
  BY <1>2, ThreeTokens
<1>4. x \in Seq(S) /\ At(NewReader(x), c, q)
  BY <1>2, FirstToken, AtFirst
<1> HIDE DEF x
<1>5. w \in Seq(S) /\ At(NewReader(w), b, x)
  BY <1>2, <1>4, FirstToken, AtFirst
<1> HIDE DEF w
<1>6. At(r, a, w)
  BY <1>2, <1>5, AtFirst
<1>7. Opens(<<a>> \o w, {f.id})
  BY <1>2, <1>6 DEF Opens
<1> HIDE DEF r
<1>8. Has(r, f.id) /\ TryField(r, f.id) = NewReader(w)
  BY <1>2, <1>6, FieldIs
<1>9. Svarint(NewReader(w)) = [r |-> NewReader(x), v |-> h.upper]
  BY <1>2, <1>5, SvarintIs
<1>10. Uvarint(NewReader(x)) = [r |-> NewReader(q), v |-> h.lower]
  BY <1>2, <1>4, UvarintIs
<1>11. Hugeint(NewReader(w)) = [r |-> NewReader(q), v |-> [upper |-> h.upper, lower |-> h.lower]]
  BY <1>9, <1>10 DEF Hugeint
<1>12. h = [upper |-> h.upper, lower |-> h.lower]
  OBVIOUS
<1>13. DecodeField(r, f) = Hugeint(NewReader(w))
  BY <1>8 DEF DecodeField, Optional
<1> QED
  BY <1>1, <1>3, <1>7, <1>11, <1>12, <1>13 DEF r

\* What a read returns.
Got(r, v) == [r |-> r, v |-> v]

\* A field that was written in front of q is read back.
Restored(f, v, q, ids, S) ==
  /\ EncodeField(f, v) \in Seq(S)
  /\ DecodeField(NewReader(EncodeField(f, v) \o q), f) = Got(NewReader(q), v)
  /\ Opens(EncodeField(f, v) \o q, ids \cup {f.id})

\* A field is read back in front of anything that begins with another id,
\* and begins with its own id unless it was left out.
LEMMA FieldBack ==
  ASSUME NEW S, NEW B, NEW f, NEW v, NEW ids, Holds(f, v, B), Inner({f.id}, B) \subseteq S,
         NEW q \in Seq(S), Opens(q, ids), f.id \notin ids
  PROVE  Restored(f, v, q, ids, S)
<1> SUFFICES /\ EncodeField(f, v) \in Seq(S)
             /\ DecodeField(NewReader(EncodeField(f, v) \o q), f) = Got(NewReader(q), v)
             /\ Opens(EncodeField(f, v) \o q, ids \cup {f.id})
  BY Zenon DEF Restored
<1>1. [k |-> "id", v |-> f.id] \in S
  BY DEF Inner
<1>2. \A x, some, more : Opens(x, some) /\ some \subseteq more => Opens(x, more)
  BY DEF Opens
<1>3. {f.id} \subseteq ids \cup {f.id} /\ ids \subseteq ids \cup {f.id}
  OBVIOUS
<1>4. CASE f.kind = "string" /\ f.default = <<>> /\ v \in Seq(B)
  <2>1. [k |-> "blob", v |-> v] \in S
    BY <1>4 DEF Inner
  <2>2. CASE v # <<>>
    <3>1. /\ EncodeField(f, v) \in Seq(S)
          /\ DecodeField(NewReader(EncodeField(f, v) \o q), f) = Got(NewReader(q), v)
          /\ Opens(EncodeField(f, v) \o q, {f.id})
      BY <1>1, <1>4, <2>1, <2>2, StringBack DEF Got
    <3> QED
      BY <1>2, <1>3, <3>1, Zenon
  <2>3. CASE v = <<>>
    <3>1. EncodeField(f, v) = <<>>
      BY <1>4, <2>3 DEF EncodeField, NonEmptyField
    <3>2. <<>> \o q = q /\ <<>> \in Seq(S)
      OBVIOUS
    <3>3. PICK t, w : At(NewReader(q), t, w) /\ t.k = "id" /\ t.v \in ids
      BY DEF Opens
    <3>4. t.v # f.id
      BY <3>3
    <3>5. DecodeField(NewReader(q), f) = Got(NewReader(q), f.default)
      BY <3>3, <3>4, <1>4, AbsentIs, Zenon DEF Got
    <3>6. Opens(q, ids \cup {f.id})
      BY <1>2, <1>3, Zenon
    <3> QED
      BY <3>1, <3>2, <3>5, <3>6, <1>4, <2>3, Zenon
  <2> QED
    BY <2>2, <2>3, Zenon
<1>5. CASE f.kind = "uint" /\ v \in 0..MaxUint
  <2>1. [k |-> "varint", v |-> AppendUvarint(v)] \in S
    BY <1>5 DEF Inner, Numbers
  <2>2. /\ EncodeField(f, v) \in Seq(S)
        /\ DecodeField(NewReader(EncodeField(f, v) \o q), f) = Got(NewReader(q), v)
        /\ Opens(EncodeField(f, v) \o q, {f.id})
    BY <1>1, <1>5, <2>1, UintBack DEF Got
  <2> QED
    BY <1>2, <1>3, <2>2, Zenon
<1>6. CASE f.kind = "hugeint" /\ v \in [upper : MinInt..(HalfWord - 1), lower : 0..MaxUint]
  <2>1. v.upper \in MinInt..(HalfWord - 1) /\ v.lower \in 0..MaxUint
    BY <1>6
  <2>2. /\ [k |-> "varint", v |-> AppendSvarint(v.upper)] \in S
        /\ [k |-> "varint", v |-> AppendUvarint(v.lower)] \in S
    BY <2>1 DEF Inner, Numbers
  <2>3. /\ EncodeField(f, v) \in Seq(S)
        /\ DecodeField(NewReader(EncodeField(f, v) \o q), f) = Got(NewReader(q), v)
        /\ Opens(EncodeField(f, v) \o q, {f.id})
    BY <1>1, <1>6, <2>2, HugeBack DEF Got
  <2> QED
    BY <1>2, <1>3, <2>3, Zenon
<1> QED
  BY <1>4, <1>5, <1>6, Zenon DEF Holds

\* What a field is written as.
LEMMA FieldWritten ==
  ASSUME NEW S, NEW B, NEW f, NEW v, Holds(f, v, B), Inner({f.id}, B) \subseteq S
  PROVE  EncodeField(f, v) \in Seq(S)
<1>1. [k |-> "id", v |-> f.id] \in S
  BY DEF Inner
<1>2. <<>> \in Seq(S)
  OBVIOUS
<1>3. CASE f.kind = "string" /\ f.default = <<>> /\ v \in Seq(B)
  <2>1. [k |-> "blob", v |-> v] \in S
    BY <1>3 DEF Inner
  <2>2. CASE v # <<>>
    BY <1>1, <1>2, <1>3, <2>1, <2>2, StringBack
  <2>3. CASE v = <<>>
    <3>1. EncodeField(f, v) = <<>>
      BY <1>3, <2>3 DEF EncodeField, NonEmptyField
    <3> QED
      BY <3>1, <1>2, Zenon
  <2> QED
    BY <2>2, <2>3
<1>4. CASE f.kind = "uint" /\ v \in 0..MaxUint
  <2>1. [k |-> "varint", v |-> AppendUvarint(v)] \in S
    BY <1>4 DEF Inner, Numbers
  <2> QED
    BY <1>1, <1>2, <1>4, <2>1, UintBack
<1>5. CASE f.kind = "hugeint" /\ v \in [upper : MinInt..(HalfWord - 1), lower : 0..MaxUint]
  <2>1. v.upper \in MinInt..(HalfWord - 1) /\ v.lower \in 0..MaxUint
    BY <1>5
  <2>2. /\ [k |-> "varint", v |-> AppendSvarint(v.upper)] \in S
        /\ [k |-> "varint", v |-> AppendUvarint(v.lower)] \in S
    BY <2>1 DEF Inner, Numbers
  <2> QED
    BY <1>1, <1>2, <1>5, <2>2, HugeBack
<1> QED
  BY <1>3, <1>4, <1>5 DEF Holds

----------------------------------------------------------------------------
(* Reading a message *)

\* h has the reader and the fields after each field of the layout.
Reading(h, layout, buf) ==
  /\ h[0] = [r |-> NewReader(buf), v |-> <<>>]
  /\ \A i \in 1..Len(layout) : h[i] = With(h[i - 1], layout[i], DecodeField(h[i - 1].r, layout[i]))

\* Any such h is what Decode goes through.
LEMMA DecodeIs ==
  ASSUME NEW T, NEW layout \in Seq(T), NEW buf, NEW h, Reading(h, layout, buf)
  PROVE  Decode(layout, buf) = Ended(End(h[Len(layout)].r), h[Len(layout)].v)
<1> DEFINE n == Len(layout)
           D(f, i) == IF i = 0 THEN [r |-> NewReader(buf), v |-> <<>>]
                      ELSE With(f[i - 1], layout[i], DecodeField(f[i - 1].r, layout[i]))
           Eq(f) == f = [i \in 0..n |-> D(f, i)]
           k == [i \in 0..n |-> h[i]]
<1>1. n \in Nat
  OBVIOUS
<1>2. Eq(k)
  <2>1. \A i \in 0..n : h[i] = D(k, i)
    <3> SUFFICES ASSUME NEW i \in 0..n
                 PROVE  h[i] = D(k, i)
      OBVIOUS
    <3>1. CASE i = 0
      BY <3>1, Zenon DEF Reading
    <3>2. CASE i # 0
      <4>1. i \in 1..n /\ i - 1 \in 0..n
        BY <3>2, <1>1
      <4>2. k[i - 1] = h[i - 1]
        BY <4>1
      <4>3. h[i] = With(h[i - 1], layout[i], DecodeField(h[i - 1].r, layout[i]))
        BY <4>1, Zenon DEF Reading
      <4> HIDE DEF k
      <4> QED
        BY <3>2, <4>2, <4>3, Zenon
    <3> QED
      BY <3>1, <3>2
  <2> HIDE DEF D
  <2> QED
    BY <2>1
<1> DEFINE f == CHOOSE f : Eq(f)
<1>3. Eq(f)
  <2> HIDE DEF Eq
  <2> QED
    BY <1>2
<1>4. Decode(layout, buf) = Ended(End(f[n].r), f[n].v)
  BY DEF Decode
<1> HIDE DEF f
<1>5. \A i \in 0..n : f[i] = D(f, i)
  <2> HIDE DEF D
  <2> QED
    BY <1>3
<1> DEFINE U == {i \in 0..n : f[i] = h[i]}
<1>6. 0 \in U
  <2>1. f[0] = D(f, 0)
    BY <1>1, <1>5
  <2>2. f[0] = h[0]
    BY <2>1, Zenon DEF Reading
  <2> QED
    BY <2>2, <1>1
<1>7. ASSUME NEW i \in 0..(n - 1), i \in U
      PROVE  i + 1 \in U
  <2>1. i + 1 \in 1..n /\ i + 1 \in 0..n /\ (i + 1) - 1 = i /\ i + 1 # 0
    BY <1>1
  <2> DEFINE j == i + 1
  <2>2. j \in 1..n /\ j \in 0..n /\ j - 1 = i /\ j # 0
    BY <2>1
  <2> HIDE DEF j
  <2>3. f[j] = D(f, j) /\ f[i] = h[i]
    BY <2>2, <1>5, <1>7
  <2>4. f[j] = With(f[i], layout[j], DecodeField(f[i].r, layout[j]))
    BY <2>2, <2>3, Zenon
  <2>5. h[j] = With(h[i], layout[j], DecodeField(h[i].r, layout[j]))
    BY <2>2, Zenon DEF Reading
  <2>6. f[j] = h[j]
    BY <2>3, <2>4, <2>5, Zenon
  <2> QED
    BY <2>2, <2>6 DEF j
<1>8. 0..n \subseteq U
  <2>1. 0 \in Nat
    OBVIOUS
  <2> HIDE DEF U, n
  <2> QED
    BY <1>1, <2>1, <1>6, <1>7, Upwards
<1>9. f[n] = h[n]
  BY <1>1, <1>8
<1> QED
  BY <1>4, <1>9

\* The field ids of a layout.
Ids(layout) == {layout[i].id : i \in 1..Len(layout)}

\* m is a message of the layout, whose ids are distinct.
Carries(layout, m, B) ==
  /\ m = [x \in Ids(layout) |-> m[x]]
  /\ EndID \notin Ids(layout)
  /\ \A i \in 1..Len(layout) : Holds(layout[i], m[layout[i].id], B)
  /\ \A i, j \in 1..Len(layout) : layout[i].id = layout[j].id => i = j

\* The terminator in front of anything.
LEMMA EndBack ==
  ASSUME NEW S, NEW q \in Seq(S), [k |-> "id", v |-> EndID] \in S
  PROVE  /\ PutEnd \in Seq(S) /\ PutEnd \o q \in Seq(S)
         /\ Opens(PutEnd \o q, {EndID})
         /\ End(NewReader(PutEnd \o q)) = NewReader(q)
<1> DEFINE a == [k |-> "id", v |-> EndID]
           z == <<a>> \o q
           r == NewReader(z)
<1>1. PutEnd = <<a>>
  BY DEF PutEnd, Field
<1>2. a.k = "id" /\ a.v = EndID /\ a \in S
  OBVIOUS
<1> HIDE DEF a
<1>3. <<a>> \in Seq(S)
  BY <1>2
<1>4. z \in Seq(S) /\ At(r, a, q)
  BY <1>2, FirstToken, AtFirst
<1>5. Opens(z, {EndID})
  BY <1>2, <1>4 DEF Opens
<1> HIDE DEF z
<1>6. Has(r, EndID) /\ TryField(r, EndID) = NewReader(q)
  BY <1>2, <1>4, FieldIs
<1>7. End(r) = NewReader(q)
  BY <1>6 DEF End
<1> QED
  BY <1>1, <1>3, <1>4, <1>5, <1>7 DEF z

\* The fields of m with these ids.
Part(m, D) == [y \in D |-> m[y]]

\* The fields read so far, and one more.
LEMMA OneMore ==
  ASSUME NEW D, NEW m, NEW f, NEW acc, NEW x, acc.v = Part(m, D), x.v = m[f.id]
  PROVE  With(acc, f, x) = Got(x.r, Part(m, D \cup {f.id}))
<1>1. DOMAIN acc.v = D /\ \A y \in D : acc.v[y] = m[y]
  BY DEF Part
<1>2. [y \in D \cup {f.id} |-> IF y = f.id THEN x.v ELSE acc.v[y]] = [y \in D \cup {f.id} |-> m[y]]
  BY <1>1
<1> QED
  BY <1>1, <1>2, Zenon DEF With, Part, Got

\* g has what is left of an encoded message after each of its fields.
Laid(g, S, layout, m, B, rest) ==
  /\ [k |-> "id", v |-> EndID] \in S /\ rest \in Seq(S)
  /\ g \in [0..Len(layout) -> Seq(S)]
  /\ g[0] = Encode(layout, m) \o rest /\ g[Len(layout)] = PutEnd \o rest
  /\ \A i \in 1..Len(layout) :
       /\ Inner({layout[i].id}, B) \subseteq S
       /\ g[i - 1] = EncodeField(layout[i], m[layout[i].id]) \o g[i]

\* An encoded message is its fields, the terminator and what follows.
LEMMA EncodedIs ==
  ASSUME NEW T, NEW layout \in Seq(T), NEW B, NEW m, Carries(layout, m, B), NEW X, NEW rest \in Seq(X)
  PROVE  \E g, S : Laid(g, S, layout, m, B, rest)
<1> DEFINE n == Len(layout)
           ids == Ids(layout) \cup {EndID}
           S == Inner(ids, B) \cup X
           F == [i \in 1..n |-> EncodeField(layout[i], m[layout[i].id])]
           t == PutEnd \o rest
           Id(i) == layout[i].id
<1>1. n \in Nat
  OBVIOUS
<1>2. rest \in Seq(S)
  OBVIOUS
<1>3. [k |-> "id", v |-> EndID] \in S
  BY DEF Inner
<1>4. t \in Seq(S) /\ PutEnd \in Seq(S) /\ Opens(t, {EndID}) /\ End(NewReader(t)) = NewReader(rest)
  <2> HIDE DEF S
  <2> QED
    BY <1>2, <1>3, EndBack
<1>5. \A i \in 1..n : Inner({Id(i)}, B) \subseteq S /\ Id(i) # EndID /\ Holds(layout[i], m[Id(i)], B)
  <2>1. \A x, y : x \subseteq y => Inner(x, B) \subseteq Inner(y, B)
    BY DEF Inner
  <2>2. \A i \in 1..n : Id(i) \in Ids(layout)
    BY DEF Ids
  <2>3. \A i \in 1..n : {Id(i)} \subseteq ids /\ Id(i) # EndID
    BY <2>2 DEF Carries
  <2>4. \A i \in 1..n : Inner({Id(i)}, B) \subseteq S
    <3> HIDE DEF ids
    <3> QED
      BY <2>1, <2>3
  <2>5. \A i \in 1..n : Holds(layout[i], m[Id(i)], B)
    BY DEF Carries
  <2> QED
    BY <2>3, <2>4, <2>5
<1> HIDE DEF S
<1>6. F \in [1..n -> Seq(S)]
  <2> SUFFICES ASSUME NEW i \in 1..n
               PROVE  EncodeField(layout[i], m[Id(i)]) \in Seq(S)
    OBVIOUS
  <2>1. Id(i) \notin {EndID}
    BY <1>5
  <2> QED
    BY <1>4, <1>5, <2>1, FieldBack DEF Restored
<1> HIDE DEF t
<1>7. PICK g : Follows(g, S, F, n, t)
  <2> HIDE DEF F, n
  <2> QED
    BY <1>1, <1>4, <1>6, Piecewise
<1>8. /\ g \in [0..n -> Seq(S)] /\ g[0] = FlattenSeq(F) \o t /\ g[n] = t
      /\ \A i \in 1..n : g[i - 1] = F[i] \o g[i]
  <2> HIDE DEF F, n
  <2> QED
    BY <1>7 DEF Follows
<1>9. g[0] = Encode(layout, m) \o rest
  <2>1. Encode(layout, m) = FlattenSeq(F) \o PutEnd
    BY DEF Encode
  <2> DEFINE x == FlattenSeq(F)
  <2>2. x \in Seq(S)
    <3>1. FlattenSeq(F) \in Seq(S)
      <4> HIDE DEF F, n
      <4>1. PICK f \in [0..n -> Seq(S)] :
              /\ f[0] = <<>>
              /\ \A i \in 1..n : f[i] = f[i - 1] \o F[i]
              /\ FlattenSeq(F) = f[n]
        BY <1>1, <1>6, Flatten, Zenon
      <4> QED
        BY <1>1, <4>1
    <3> QED
      BY <3>1
  <2> HIDE DEF x
  <2>3. Joined(Joined(x, PutEnd), rest) = Joined(x, Joined(PutEnd, rest))
    BY <1>2, <1>4, <2>2, Regroup
  <2> QED
    BY <1>8, <2>1, <2>3, Zenon DEF Joined, t, x
<1>10. \A i \in 1..n : g[i - 1] = EncodeField(layout[i], m[Id(i)]) \o g[i]
  <2> SUFFICES ASSUME NEW i \in 1..n
               PROVE  g[i - 1] = EncodeField(layout[i], m[Id(i)]) \o g[i]
    OBVIOUS
  <2>1. F[i] = EncodeField(layout[i], m[Id(i)])
    OBVIOUS
  <2>2. g[i - 1] = F[i] \o g[i]
    BY <1>8, Zenon
  <2> QED
    BY <2>1, <2>2, Zenon
<1>11. Laid(g, S, layout, m, B, rest)
  <2>1. g[n] = PutEnd \o rest
    BY <1>8, Zenon DEF t
  <2> HIDE DEF F
  <2> QED
    BY <1>2, <1>3, <1>5, <1>8, <1>9, <1>10, <2>1, Zenon DEF Laid
<1> QED
  BY <1>11, Zenon

\* A message is read back field by field, and then the terminator.
LEMMA MessageIs ==
  ASSUME NEW T, NEW layout \in Seq(T), NEW B, NEW m, Carries(layout, m, B), NEW X, NEW rest \in Seq(X)
  PROVE  Decode(layout, Encode(layout, m) \o rest) = Ended(NewReader(rest), m)
<1> DEFINE n == Len(layout)
           Id(i) == layout[i].id
           Later(i) == {Id(j) : j \in (i + 1)..n} \cup {EndID}
           Before(i) == {Id(j) : j \in 1..i}
<1>1. n \in Nat
  OBVIOUS
<1>2. PICK g, S : Laid(g, S, layout, m, B, rest)
  BY EncodedIs, Zenon
<1> DEFINE t == PutEnd \o rest
<1>3. g \in [0..n -> Seq(S)] /\ g[n] = t /\ g[0] = Encode(layout, m) \o rest
  BY <1>2, Zenon DEF Laid
<1>4. Opens(t, {EndID}) /\ End(NewReader(t)) = NewReader(rest)
  BY <1>2, EndBack DEF Laid
<1> HIDE DEF t
<1>5. \A i \in 1..n : Inner({Id(i)}, B) \subseteq S /\ g[i - 1] = EncodeField(layout[i], m[Id(i)]) \o g[i]
  BY <1>2, Zenon DEF Laid
<1>6. \A i \in 1..n : Id(i) # EndID /\ Holds(layout[i], m[Id(i)], B)
  BY DEF Carries, Ids
<1>7. \A i, j \in 1..n : Id(i) = Id(j) => i = j
  BY DEF Carries
<1>8. ASSUME NEW i \in 1..n, Opens(g[i], Later(i))
       PROVE  /\ DecodeField(NewReader(g[i - 1]), layout[i]) = Got(NewReader(g[i]), m[Id(i)])
              /\ Opens(g[i - 1], Later(i - 1))
  <2>1. Id(i) \notin Later(i)
    <3> SUFFICES ASSUME NEW j \in (i + 1)..n, Id(i) = Id(j)
                 PROVE  FALSE
      BY <1>6
    <3>1. j \in 1..n /\ i # j
      BY <1>1
    <3> HIDE DEF Id, n
    <3> QED
      BY <1>7, <3>1
  <2>2. g[i] \in Seq(S) /\ g[i - 1] = EncodeField(layout[i], m[Id(i)]) \o g[i]
    <3>1. i \in 0..n
      BY <1>1
    <3>2. g[i] \in Seq(S)
      BY <1>3, <3>1
    <3> QED
      BY <1>5, <3>2, Zenon
  <2>3. /\ DecodeField(NewReader(g[i - 1]), layout[i]) = Got(NewReader(g[i]), m[Id(i)])
        /\ Opens(g[i - 1], Later(i) \cup {Id(i)})
    <3> DEFINE L == Later(i)
    <3>1. Opens(g[i], L) /\ Id(i) \notin L
      BY <1>8, <2>1
    <3> HIDE DEF L
    <3> DEFINE f == layout[i]
               v == m[Id(i)]
               w == g[i]
    <3>2. Inner({f.id}, B) \subseteq S /\ Holds(f, v, B) /\ w \in Seq(S) /\ Opens(w, L) /\ f.id \notin L
      BY <1>5, <1>6, <2>2, <3>1
    <3> HIDE DEF f, v, w
    <3>3. Restored(f, v, w, L, S)
      BY <3>2, FieldBack
    <3>4. g[i - 1] = EncodeField(f, v) \o w
      BY <2>2 DEF f, v, w
    <3> QED
      BY <3>3, <3>4, Zenon DEF Restored, L, f, v, w
  <2>4. Later(i) \cup {Id(i)} = Later(i - 1)
    BY <1>1
  <2> HIDE DEF Later
  <2> QED
    BY <2>3, <2>4
<1> DEFINE U == {i \in 0..n : Opens(g[i], Later(i))}
<1>9. 0..n \subseteq U
  <2>1. ASSUME NEW i \in 0..n, (i + 1)..n \subseteq U
        PROVE  i \in U
    <3>1. CASE i = n
      <4>1. Later(n) = {EndID}
        BY <1>1
      <4> HIDE DEF Later
      <4> QED
        BY <1>3, <1>4, <3>1, <4>1
    <3>2. CASE i # n
      <4> DEFINE j == i + 1
      <4>1. j \in 1..n /\ j \in (i + 1)..n /\ j - 1 = i
        BY <3>2, <1>1
      <4> HIDE DEF j
      <4>2. Opens(g[j], Later(j))
        BY <4>1, <2>1
      <4> HIDE DEF Later
      <4>3. Opens(g[j - 1], Later(j - 1))
        BY <4>1, <4>2, <1>8
      <4> QED
        BY <4>1, <4>3
    <3> QED
      BY <3>1, <3>2
  <2>2. 0 \in Nat
    OBVIOUS
  <2> HIDE DEF U, n
  <2> QED
    BY <1>1, <2>1, <2>2, Downwards
<1> DEFINE h == [i \in 0..n |-> [r |-> NewReader(g[i]), v |-> Part(m, Before(i))]]
<1>10. h[0] = [r |-> NewReader(g[0]), v |-> <<>>]
  <2>1. Before(0) = {}
    OBVIOUS
  <2>2. Part(m, {}) = <<>>
    BY DEF Part
  <2>3. h[0] = [r |-> NewReader(g[0]), v |-> Part(m, Before(0))]
    BY <1>1
  <2> HIDE DEF h, Before
  <2> QED
    BY <2>1, <2>2, <2>3
<1>11. ASSUME NEW i \in 1..n
       PROVE  h[i] = With(h[i - 1], layout[i], DecodeField(h[i - 1].r, layout[i]))
  <2>1. h[i] = [r |-> NewReader(g[i]), v |-> Part(m, Before(i))]
    BY <1>1
  <2>2. h[i - 1] = [r |-> NewReader(g[i - 1]), v |-> Part(m, Before(i - 1))]
    BY <1>1
  <2>3. Before(i) = Before(i - 1) \cup {Id(i)}
    BY <1>1
  <2> HIDE DEF h, Before
  <2>4. h[i - 1].r = NewReader(g[i - 1]) /\ h[i - 1].v = Part(m, Before(i - 1))
    BY <2>2
  <2>5. DecodeField(h[i - 1].r, layout[i]) = Got(NewReader(g[i]), m[Id(i)])
    <3>1. i \in U
      <4> HIDE DEF U
      <4> QED
        BY <1>1, <1>9
    <3>2. Opens(g[i], Later(i))
      BY <3>1
    <3> HIDE DEF Later
    <3>3. DecodeField(NewReader(g[i - 1]), layout[i]) = Got(NewReader(g[i]), m[Id(i)])
      BY <1>8, <3>2, Zenon
    <3> QED
      BY <3>3, <2>4, Zenon
  <2> DEFINE y == DecodeField(h[i - 1].r, layout[i])
             a == h[i - 1]
             f == layout[i]
             D == Before(i - 1)
  <2>6. y.r = NewReader(g[i]) /\ y.v = m[f.id] /\ a.v = Part(m, D)
    BY <2>4, <2>5 DEF Got
  <2> HIDE DEF y, a, f, D
  <2>7. With(a, f, y) = Got(y.r, Part(m, D \cup {f.id}))
    BY <2>6, OneMore
  <2> QED
    BY <2>1, <2>3, <2>6, <2>7, Zenon DEF a, f, D, y, Got
<1> DEFINE buf == g[0]
<1>12. Reading(h, layout, buf)
  <2> HIDE DEF h
  <2> QED
    BY <1>10, <1>11, Zenon DEF Reading
<1>13. h[n].r = NewReader(t) /\ h[n].v = m
  <2>1. h[n] = [r |-> NewReader(g[n]), v |-> Part(m, Before(n))]
    BY <1>1
  <2>2. Before(n) = Ids(layout)
    BY DEF Ids
  <2>3. m = Part(m, Ids(layout))
    BY DEF Carries, Part
  <2> HIDE DEF h, Before
  <2> QED
    BY <1>3, <2>1, <2>2, <2>3
<1> HIDE DEF h
<1>14. Decode(layout, buf) = Ended(NewReader(rest), m)
  <2>1. Decode(layout, buf) = Ended(End(h[n].r), h[n].v)
    BY <1>12, DecodeIs
  <2> QED
    BY <2>1, <1>4, <1>13
<1> QED
  BY <1>3, <1>14, Zenon

\* A reader without an error ends well.
LEMMA EndedIs == \A q, v : Ended(NewReader(q), v) = [r |-> NewReader(q), v |-> v, e |-> NoError]
BY DEF Ended, NewReader

\* Messages: whatever follows it, a message of any layout with distinct ids
\* is read back field by field, and the reader is left in front of what
\* follows.
THEOREM MessageBack ==
  ASSUME NEW T, NEW layout \in Seq(T), NEW B, NEW m, Carries(layout, m, B), NEW X, NEW rest \in Seq(X)
  PROVE  Decode(layout, Encode(layout, m) \o rest) = [r |-> NewReader(rest), v |-> m, e |-> NoError]
BY MessageIs, EndedIs, Zenon

\* The type of a message fits into a byte.
LEMMA Narrowed == \A x \in 0..MaxUint : x < 256 => x % 256 = x
<1> SUFFICES ASSUME NEW x \in 0..MaxUint, x < 256
             PROVE  x % 256 = x
  OBVIOUS
<1> DEFINE N == 256
<1>1. MaxUint \in Int
  BY Words DEF MaxUint
<1>2. x \in Int /\ x >= 0
  BY <1>1
<1>3. N \in Nat /\ N # 0 /\ x \in 0..(N - 1) /\ x = N * 0 + x /\ 0 \in Int
  BY <1>2
<1> HIDE DEF N
<1>4. x = x % N
  BY <1>2, <1>3, DivisionUnique
<1> QED
  BY <1>4 DEF N

\* Envelopes: the header is read back, and the body document is left.
THEOREM EnvelopeBack ==
  ASSUME NEW B, NEW h, h = [x \in 1..3 |-> h[x]], NEW X, NEW body \in Seq(X),
         h[1] \in 0..MaxUint, h[1] < 256, h[2] \in Seq(B), h[3] \in 0..MaxUint
  PROVE  SplitEnvelope(EncodeEnvelope(h, body)) = [r |-> NewReader(body), v |-> h, e |-> NoError]
<1> DEFINE a == Uint(1)
           b == Str(2)
           c == [Uint(3) EXCEPT !.default = OptionalIdxAbsent]
           T == {a, b, c}
           buf == EncodeEnvelope(h, body)
<1>1. a.id = 1 /\ a.kind = "uint"
  BY DEF Uint
<1>2. b.id = 2 /\ b.kind = "string" /\ b.default = <<>>
  BY DEF Str
<1>3. c.id = 3 /\ c.kind = "uint"
  BY DEF Uint
<1>4. Header = <<a, b, c>>
  BY DEF Header
<1> HIDE DEF a, b, c
<1>5. Header \in Seq(T) /\ Len(Header) = 3 /\ Header[1] = a /\ Header[2] = b /\ Header[3] = c
  BY <1>4
<1> HIDE DEF T
<1>6. \A i \in 1..3 : Header[i].id = i
  BY <1>1, <1>2, <1>3, <1>5
<1>7. Ids(Header) = 1..3
  BY <1>5, <1>6 DEF Ids
<1>8. \A i \in 1..3 : Holds(Header[i], h[Header[i].id], B)
  <2>1. Holds(a, h[1], B) /\ Holds(c, h[3], B)
    BY <1>1, <1>3 DEF Holds
  <2>2. Holds(b, h[2], B)
    BY <1>2 DEF Holds
  <2> QED
    BY <1>5, <1>6, <2>1, <2>2
<1>9. Carries(Header, h, B)
  <2>1. EndID \notin 1..3
    BY DEF EndID
  <2> QED
    BY <1>5, <1>6, <1>7, <1>8, <2>1 DEF Carries
<1>10. buf = Encode(Header, h) \o body
  BY DEF EncodeEnvelope
<1>11. Decode(Header, buf) = [r |-> NewReader(body), v |-> h, e |-> NoError]
  <2>1. Decode(Header, Encode(Header, h) \o body) = Ended(NewReader(body), h)
    BY <1>5, <1>9, MessageIs
  <2> QED
    BY <1>10, <2>1, EndedIs, Zenon
<1>12. Has(NewReader(buf), 1)
  <2>1. PICK g, S : Laid(g, S, Header, h, B, body)
    BY <1>5, <1>9, EncodedIs, Zenon
  <2>2. 1 \in 1..3 /\ 1 - 1 = 0 /\ 1 \in 0..3
    OBVIOUS
  <2>3. Inner({a.id}, B) \subseteq S /\ g[0] = EncodeField(a, h[1]) \o g[1] /\ g[1] \in Seq(S) /\ g[0] = buf
    <3>1. Inner({Header[1].id}, B) \subseteq S /\ g[1 - 1] = EncodeField(Header[1], h[Header[1].id]) \o g[1]
      BY <2>1, <2>2, <1>5 DEF Laid
    <3>2. g[1] \in Seq(S) /\ g[0] = buf
      BY <2>1, <2>2, <1>5, <1>10 DEF Laid
    <3> QED
      BY <3>1, <3>2, <2>2, <1>1, <1>5
  <2>4. [k |-> "id", v |-> a.id] \in S /\ [k |-> "varint", v |-> AppendUvarint(h[1])] \in S
    BY <2>3 DEF Inner, Numbers
  <2>5. Opens(EncodeField(a, h[1]) \o g[1], {a.id})
    BY <2>3, <2>4, <1>1, UintBack
  <2>6. Opens(buf, {1})
    BY <2>3, <2>5, <1>1
  <2>7. PICK t, w : At(NewReader(buf), t, w) /\ t.k = "id" /\ t.v = 1
    BY <2>6 DEF Opens
  <2> HIDE DEF buf
  <2> QED
    BY <2>7, FieldIs
<1> HIDE DEF buf
<1> DEFINE d == Decode(Header, buf)
<1>13. d = [r |-> NewReader(body), v |-> h, e |-> NoError]
  BY <1>11
<1>14. SplitEnvelope(buf) = [d EXCEPT !.v[1] = @ % 256, !.e = @]
  BY <1>12 DEF SplitEnvelope
<1> HIDE DEF d
<1>15. h[1] % 256 = h[1]
  BY Narrowed, Zenon
<1>16. [h EXCEPT ![1] = h[1] % 256] = h
  BY <1>15
<1>17. SplitEnvelope(buf) = [r |-> NewReader(body), v |-> [h EXCEPT ![1] = h[1] % 256], e |-> NoError]
  BY <1>13, <1>14
<1> QED
  BY <1>16, <1>17 DEF buf

----------------------------------------------------------------------------
(* Refusing a document *)

\* A token that ends an object.
Terminates(t) == t.k = "id" /\ t.v = EndID

\* A reader of these fields meets an unknown field, or the end of the
\* document, before a token that ends the object.
Blocked(q, ids) ==
  \E n \in 1..(Len(q) + 1) :
    /\ n <= Len(q) => q[n].k = "id" /\ q[n].v \notin ids \cup {EndID}
    /\ \A j \in 1..(n - 1) : ~Terminates(q[j])

\* The reader failed or will fail.
Stuck(r, ids, S) ==
  /\ r = [in |-> r.in, err |-> r.err]
  /\ r.err = NoError => r.in \in Seq(S) /\ Blocked(r.in, ids)

\* The names of the errors are not the empty one.
LEMMA Errors == /\ "truncated" # NoError /\ "desync" # NoError /\ "framing" # NoError /\ "error" # NoError
BY Zenon DEF NoError

\* A document stays blocked behind a token that does not block it.
LEMMA BlockedTail ==
  ASSUME NEW S, NEW q \in Seq(S), NEW ids, q # <<>>, Blocked(q, ids),
         ~(Head(q).k = "id" /\ Head(q).v \notin ids \cup {EndID})
  PROVE  Tail(q) \in Seq(S) /\ Blocked(Tail(q), ids)
<1>1. PICK n \in 1..(Len(q) + 1) :
        /\ n <= Len(q) => q[n].k = "id" /\ q[n].v \notin ids \cup {EndID}
        /\ \A j \in 1..(n - 1) : ~Terminates(q[j])
  BY DEF Blocked
<1> DEFINE w == Tail(q)
<1>2. Len(q) \in Nat /\ Len(q) >= 1 /\ Head(q) = q[1]
  OBVIOUS
<1>3. w \in Seq(S) /\ Len(w) = Len(q) - 1 /\ \A i \in 1..Len(w) : w[i] = q[i + 1]
  OBVIOUS
<1> HIDE DEF w
<1>4. n # 1
  BY <1>1, <1>2
<1> DEFINE k == n - 1
<1>5. k \in 1..(Len(w) + 1)
  BY <1>2, <1>3, <1>4
<1>6. k <= Len(w) => w[k] = q[n]
  BY <1>2, <1>3, <1>5
<1>7. k <= Len(w) => w[k].k = "id" /\ w[k].v \notin ids \cup {EndID}
  BY <1>1, <1>2, <1>3, <1>6
<1>8. \A j \in 1..(k - 1) : ~Terminates(w[j])
  <2> SUFFICES ASSUME NEW j \in 1..(k - 1)
               PROVE  ~Terminates(w[j])
    OBVIOUS
  <2>1. j \in 1..Len(w) /\ j + 1 \in 1..(n - 1)
    BY <1>2, <1>3, <1>5
  <2> QED
    BY <1>1, <1>3, <2>1
<1> HIDE DEF k
<1>9. Blocked(w, ids)
  BY <1>5, <1>7, <1>8 DEF Blocked
<1> QED
  BY <1>3, <1>9 DEF w

\* A blocked document does not begin with its terminator.
LEMMA BlockedHead ==
  ASSUME NEW S, NEW q \in Seq(S), NEW ids, q # <<>>, Blocked(q, ids)
  PROVE  ~Terminates(Head(q))
<1>1. PICK n \in 1..(Len(q) + 1) :
        /\ n <= Len(q) => q[n].k = "id" /\ q[n].v \notin ids \cup {EndID}
        /\ \A j \in 1..(n - 1) : ~Terminates(q[j])
  BY DEF Blocked
<1>2. Len(q) \in Nat /\ Len(q) >= 1 /\ Head(q) = q[1]
  OBVIOUS
<1>3. CASE n = 1
  BY <1>1, <1>2, <1>3 DEF Terminates
<1>4. CASE n # 1
  <2>1. 1 \in 1..(n - 1)
    BY <1>2, <1>4
  <2> QED
    BY <1>1, <1>2, <2>1
<1> QED
  BY <1>3, <1>4

\* An error that is noted keeps the reader stuck.
LEMMA FailStuck ==
  ASSUME NEW r, NEW ids, NEW S, NEW e, Stuck(r, ids, S)
  PROVE  /\ Stuck(Fail(r, e), ids, S)
         /\ Fail(r, e).err = IF r.err = NoError THEN e ELSE r.err
<1>1. r = [in |-> r.in, err |-> r.err]
  BY DEF Stuck
<1>2. CASE r.err = NoError
  <2> DEFINE p == [r EXCEPT !.err = e]
  <2>1. p = [in |-> r.in, err |-> e]
    BY <1>1
  <2>2. p.in = r.in /\ p.err = e
    BY <2>1
  <2>3. Fail(r, e) = p
    BY <1>2 DEF Fail
  <2> HIDE DEF p
  <2>4. p = [in |-> p.in, err |-> p.err]
    BY <2>1, <2>2
  <2> QED
    BY <1>2, <2>2, <2>3, <2>4 DEF Stuck
<1>3. CASE r.err # NoError
  BY <1>3 DEF Fail
<1> QED
  BY <1>2, <1>3

\* A look at the next token.
LEMMA PeekStuck ==
  ASSUME NEW r, NEW ids, NEW S, NEW kind, Stuck(r, ids, S)
  PROVE  /\ Stuck(Peek(r, kind), ids, S)
         /\ Peek(r, kind).err = NoError =>
              Peek(r, kind) = r /\ r.err = NoError /\ r.in # <<>> /\ Head(r.in).k = kind
<1>1. CASE r.in = <<>>
  <2>1. Peek(r, kind) = Fail(r, "truncated")
    BY <1>1 DEF Peek
  <2> QED
    BY <2>1, FailStuck, Errors
<1>2. CASE r.in # <<>> /\ Head(r.in).k # kind
  <2>1. Peek(r, kind) = Fail(r, "desync")
    BY <1>2 DEF Peek
  <2> QED
    BY <2>1, FailStuck, Errors
<1>3. CASE r.in # <<>> /\ Head(r.in).k = kind
  <2>1. Peek(r, kind) = r
    BY <1>3 DEF Peek
  <2> QED
    BY <1>3, <2>1
<1> QED
  BY <1>1, <1>2, <1>3

\* A token that does not block is passed.
LEMMA AdvanceStuck ==
  ASSUME NEW r, NEW ids, NEW S, Stuck(r, ids, S), r.err = NoError, r.in # <<>>,
         ~(Head(r.in).k = "id" /\ Head(r.in).v \notin ids \cup {EndID})
  PROVE  Stuck(Advance(r), ids, S)
<1> DEFINE q == Tail(r.in)
           p == Advance(r)
<1>1. r = [in |-> r.in, err |-> r.err] /\ r.in \in Seq(S) /\ Blocked(r.in, ids)
  BY DEF Stuck
<1>2. q \in Seq(S) /\ Blocked(q, ids)
  BY <1>1, BlockedTail
<1>3. p = [r EXCEPT !.in = q]
  BY <1>1 DEF Advance
<1> HIDE DEF p, q
<1>4. p = [in |-> q, err |-> r.err]
  BY <1>1, <1>3
<1>5. p.in = q /\ p.err = r.err
  BY <1>4
<1>6. p = [in |-> p.in, err |-> p.err]
  BY <1>4, <1>5
<1>7. Stuck(p, ids, S)
  BY <1>2, <1>5, <1>6 DEF Stuck
<1> QED
  BY <1>7 DEF p

\* A look for one of the fields.
LEMMA TryStuck ==
  ASSUME NEW r, NEW ids, NEW S, NEW id \in ids, Stuck(r, ids, S)
  PROVE  Stuck(TryField(r, id), ids, S)
<1> DEFINE p == Peek(r, "id")
<1>1. /\ Stuck(p, ids, S)
      /\ p.err = NoError => p = r /\ r.in # <<>>
  BY PeekStuck
<1>2. TryField(r, id) = Pass(p, id)
  BY DEF TryField
<1> HIDE DEF p
<1>3. CASE Seen(p, id)
  <2>1. p.err = NoError /\ Head(p.in).v = id /\ p.in # <<>>
    BY <1>1, <1>3 DEF Seen
  <2>2. Stuck(Advance(p), ids, S)
    BY <1>1, <2>1, AdvanceStuck
  <2> QED
    BY <1>2, <1>3, <2>2 DEF Pass
<1>4. CASE ~Seen(p, id)
  BY <1>1, <1>2, <1>4 DEF Pass
<1> QED
  BY <1>3, <1>4

\* A read of a token that is not a field id.
LEMMA TakeStuck ==
  ASSUME NEW r, NEW ids, NEW S, NEW kind, NEW zero, kind # "id", Stuck(r, ids, S)
  PROVE  Stuck(Take(r, kind, zero).r, ids, S)
<1> DEFINE p == Peek(r, kind)
<1>1. /\ Stuck(p, ids, S)
      /\ p.err = NoError => p = r /\ r.in # <<>> /\ Head(r.in).k = kind
  BY PeekStuck
<1> DEFINE x == Take(r, kind, zero)
<1>2. x = IF p.err # NoError THEN [r |-> p, v |-> zero] ELSE [r |-> Advance(p), v |-> Head(p.in).v]
  BY DEF Take
<1> HIDE DEF p, x
<1>3. CASE p.err # NoError
  <2>1. x.r = p
    BY <1>2, <1>3
  <2> QED
    BY <1>1, <2>1 DEF x
<1>4. CASE p.err = NoError
  <2>1. x.r = Advance(p)
    BY <1>2, <1>4
  <2>2. p.in # <<>> /\ Head(p.in).k # "id"
    BY <1>1, <1>4
  <2>3. Stuck(Advance(p), ids, S)
    BY <1>1, <1>4, <2>2, AdvanceStuck
  <2> QED
    BY <2>1, <2>3 DEF x
<1> QED
  BY <1>3, <1>4

\* The number in a token.
LEMMA NumberStuck ==
  ASSUME NEW x, NEW n, NEW ids, NEW S, Stuck(x.r, ids, S)
  PROVE  Stuck(Number(x, n).r, ids, S)
<1>1. CASE x.r.err # NoError
  <2>1. Number(x, n) = [r |-> x.r, v |-> 0]
    BY <1>1 DEF Number
  <2>2. Number(x, n).r = x.r
    BY <2>1
  <2> QED
    BY <2>2
<1>2. CASE x.r.err = NoError
  <2>1. Number(x, n) = [r |-> Fail(x.r, n.err), v |-> n.v]
    BY <1>2 DEF Number
  <2>2. Number(x, n).r = Fail(x.r, n.err)
    BY <2>1
  <2> QED
    BY <2>2, FailStuck
<1> QED
  BY <1>1, <1>2

\* The kinds of fields the messages have.
Kinds == {"string", "uint", "hugeint"}

\* A read of one field, whatever its kind.
LEMMA FieldStuck ==
  ASSUME NEW r, NEW ids, NEW S, NEW f, f.id \in ids, f.kind \in Kinds, Stuck(r, ids, S)
  PROVE  Stuck(DecodeField(r, f).r, ids, S)
<1> DEFINE p == TryField(r, f.id)
<1>1. Stuck(p, ids, S)
  BY TryStuck
<1> HIDE DEF p
<1>2. "varint" # "id" /\ "blob" # "id"
  OBVIOUS
<1>3. \A x : Stuck(x, ids, S) => Stuck(Uvarint(x).r, ids, S)
  BY <1>2, TakeStuck, NumberStuck DEF Uvarint
<1>4. \A x : Stuck(x, ids, S) => Stuck(Svarint(x).r, ids, S)
  BY <1>2, TakeStuck, NumberStuck DEF Svarint
<1>5. \A x : Stuck(x, ids, S) => Stuck(Bytes(x).r, ids, S)
  BY <1>2, TakeStuck DEF Bytes
<1>6. \A x : Stuck(x, ids, S) => Stuck(Hugeint(x).r, ids, S)
  <2> SUFFICES ASSUME NEW x, Stuck(x, ids, S)
               PROVE  Stuck(Hugeint(x).r, ids, S)
    OBVIOUS
  <2> DEFINE u == Svarint(x)
             l == Uvarint(u.r)
  <2>1. Stuck(l.r, ids, S)
    BY <1>3, <1>4, Zenon
  <2>2. Hugeint(x) = [r |-> l.r, v |-> [upper |-> u.v, lower |-> l.v]]
    BY DEF Hugeint
  <2> HIDE DEF u, l
  <2>3. Hugeint(x).r = l.r
    BY <2>2
  <2> QED
    BY <2>1, <2>3
<1> DEFINE d == DecodeField(r, f)
           absent == [r |-> p, v |-> f.default]
<1>7. absent.r = p
  OBVIOUS
<1>8. d \in {absent, Bytes(p), Uvarint(p), Hugeint(p)}
  <2>1. CASE f.kind = "string"
    BY <2>1 DEF DecodeField, Optional, p
  <2>2. CASE f.kind = "uint"
    BY <2>2 DEF DecodeField, Optional, p
  <2>3. CASE f.kind = "hugeint"
    BY <2>3 DEF DecodeField, Optional, p
  <2> QED
    BY <2>1, <2>2, <2>3 DEF Kinds
<1> HIDE DEF d, absent
<1>9. Stuck(d.r, ids, S)
  BY <1>1, <1>3, <1>5, <1>6, <1>7, <1>8, Zenon
<1> QED
  BY <1>9 DEF d

\* A stuck reader does not find the terminator.
LEMMA EndStuck ==
  ASSUME NEW r, NEW ids, NEW S, Stuck(r, ids, S)
  PROVE  End(r).err # NoError
<1> DEFINE p == Peek(r, "id")
<1>1. /\ Stuck(p, ids, S)
      /\ p.err = NoError => p = r /\ r.in # <<>> /\ Head(r.in).k = "id"
  BY PeekStuck
<1>2. Has(r, EndID) = Seen(p, EndID) /\ TryField(r, EndID) = Pass(p, EndID)
  BY DEF Has, TryField
<1> HIDE DEF p
<1>3. ~Seen(p, EndID)
  <2> SUFFICES ASSUME p.err = NoError, Head(p.in).v = EndID
               PROVE  FALSE
    BY DEF Seen
  <2>1. p.in \in Seq(S) /\ Blocked(p.in, ids) /\ p.in # <<>> /\ Head(p.in).k = "id"
    BY <1>1 DEF Stuck
  <2>2. ~Terminates(Head(p.in))
    BY <2>1, BlockedHead
  <2> QED
    BY <2>1, <2>2 DEF Terminates
<1>4. End(r) = Fail(p, "framing")
  BY <1>2, <1>3 DEF End, Pass
<1> QED
  BY <1>1, <1>4, FailStuck, Errors

\* Decode goes through all fields.
LEMMA ReadingExists ==
  ASSUME NEW T, NEW layout \in Seq(T), NEW buf
  PROVE  \E h : Reading(h, layout, buf)
<1> DEFINE n == Len(layout)
           D(f, i) == IF i = 0 THEN [r |-> NewReader(buf), v |-> <<>>]
                      ELSE With(f[i - 1], layout[i], DecodeField(f[i - 1].r, layout[i]))
           P(m) == \E f : \A i \in 0..m : f[i] = D(f, i)
           U == {m \in 0..n : P(m)}
<1>1. n \in Nat
  OBVIOUS
<1>2. 0 \in U
  <2> DEFINE f == [i \in 0..0 |-> [r |-> NewReader(buf), v |-> <<>>]]
  <2>1. \A i \in 0..0 : f[i] = D(f, i)
    OBVIOUS
  <2> HIDE DEF f, D
  <2>2. P(0)
    BY <2>1
  <2> HIDE DEF P
  <2> QED
    BY <1>1, <2>2
<1>3. ASSUME NEW m \in 0..(n - 1), m \in U
      PROVE  m + 1 \in U
  <2>1. PICK f : \A i \in 0..m : f[i] = D(f, i)
    BY <1>3
  <2> DEFINE g == [i \in 0..(m + 1) |-> IF i <= m THEN f[i] ELSE D(f, m + 1)]
  <2>2. \A i \in 0..(m + 1) : D(g, i) = D(f, i)
    <3> SUFFICES ASSUME NEW i \in 0..(m + 1), i # 0
                 PROVE  g[i - 1] = f[i - 1]
      OBVIOUS
    <3>1. i - 1 \in 0..(m + 1) /\ i - 1 <= m
      OBVIOUS
    <3> HIDE DEF D
    <3> QED
      BY <3>1
  <2> HIDE DEF D
  <2>3. \A i \in 0..(m + 1) : g[i] = D(f, i)
    <3> SUFFICES ASSUME NEW i \in 0..(m + 1)
                 PROVE  g[i] = D(f, i)
      OBVIOUS
    <3>1. CASE i <= m
      <4>1. i \in 0..m
        BY <3>1
      <4> QED
        BY <3>1, <4>1, <2>1
    <3>2. CASE i = m + 1
      <4>1. ~(m + 1 <= m)
        OBVIOUS
      <4> QED
        BY <3>2, <4>1
    <3> QED
      BY <3>1, <3>2
  <2> HIDE DEF g
  <2>4. \A i \in 0..(m + 1) : g[i] = D(g, i)
    BY <2>2, <2>3
  <2>5. P(m + 1)
    BY <2>4
  <2>6. m + 1 \in 0..n
    BY <1>1
  <2> HIDE DEF P
  <2> QED
    BY <2>5, <2>6
<1>4. n \in U
  <2>1. 0 \in Nat /\ n \in 0..n
    BY <1>1
  <2> HIDE DEF U, n
  <2>2. 0..n \subseteq U
    BY <1>1, <1>2, <1>3, <2>1, Upwards
  <2> QED
    BY <2>1, <2>2
<1>5. PICK f : \A i \in 0..n : f[i] = D(f, i)
  BY <1>4
<1>6. f[0] = [r |-> NewReader(buf), v |-> <<>>]
  BY <1>1, <1>5
<1>7. ASSUME NEW i \in 1..n
      PROVE  f[i] = With(f[i - 1], layout[i], DecodeField(f[i - 1].r, layout[i]))
  <2>1. i \in 0..n /\ i # 0
    BY <1>1
  <2> QED
    BY <1>5, <2>1, Zenon
<1> QED
  BY <1>6, <1>7, Zenon DEF Reading

\* A document in which an unknown field or the end comes before the
\* terminator is refused, whatever else is in it.
LEMMA Refused ==
  ASSUME NEW T, NEW layout \in Seq(T), \A i \in 1..Len(layout) : layout[i].kind \in Kinds,
         NEW S, NEW buf \in Seq(S), Blocked(buf, Ids(layout))
  PROVE  Decode(layout, buf).e = "error"
<1> DEFINE n == Len(layout)
           ids == Ids(layout)
<1>1. n \in Nat
  OBVIOUS
<1>2. PICK h : Reading(h, layout, buf)
  BY ReadingExists, Zenon
<1> DEFINE U == {i \in 0..n : Stuck(h[i].r, ids, S)}
<1>3. 0 \in U
  <2> DEFINE r == NewReader(buf)
  <2>1. r = [in |-> buf, err |-> NoError]
    BY DEF NewReader
  <2>2. r.in = buf /\ r.err = NoError
    BY <2>1
  <2> HIDE DEF r
  <2>3. Stuck(r, ids, S)
    BY <2>1, <2>2 DEF Stuck
  <2>4. h[0] = [r |-> r, v |-> <<>>]
    BY <1>2, Zenon DEF Reading, r
  <2>5. h[0].r = r
    BY <2>4
  <2> QED
    BY <1>1, <2>3, <2>5
<1>4. ASSUME NEW i \in 0..(n - 1), i \in U
      PROVE  i + 1 \in U
  <2> DEFINE j == i + 1
  <2>1. j \in 1..n /\ j \in 0..n /\ j - 1 = i
    BY <1>1
  <2> HIDE DEF j
  <2>2. layout[j].id \in ids /\ layout[j].kind \in Kinds
    BY <2>1 DEF Ids
  <2>3. Stuck(h[i].r, ids, S)
    BY <1>4
  <2> DEFINE f == layout[j]
             r == h[i].r
             x == DecodeField(r, f)
  <2>4. h[j] = With(h[i], f, x)
    BY <1>2, <2>1, Zenon DEF Reading
  <2>5. Stuck(x.r, ids, S)
    BY <2>2, <2>3, FieldStuck
  <2> HIDE DEF f, r, x
  <2>6. h[j].r = x.r
    BY <2>4 DEF With
  <2> QED
    BY <2>1, <2>5, <2>6 DEF j
<1>5. n \in U
  <2>1. 0 \in Nat /\ n \in 0..n
    BY <1>1
  <2> HIDE DEF U, n
  <2>2. 0..n \subseteq U
    BY <1>1, <1>3, <1>4, <2>1, Upwards
  <2> QED
    BY <2>1, <2>2
<1>6. End(h[n].r).err # NoError
  BY <1>5, EndStuck
<1>7. Decode(layout, buf) = Ended(End(h[n].r), h[n].v)
  BY <1>2, DecodeIs, Zenon
<1>8. Ended(End(h[n].r), h[n].v) = [r |-> End(h[n].r), v |-> h[n].v, e |-> "error"]
  BY <1>6, Zenon DEF Ended
<1> DEFINE d == Decode(layout, buf)
<1>9. d = [r |-> End(h[n].r), v |-> h[n].v, e |-> "error"]
  BY <1>7, <1>8, Zenon
<1> HIDE DEF d
<1>10. d.e = "error"
  BY <1>9
<1> QED
  BY <1>10 DEF d

\* If a document has an nth token, then it is of this kind.
Stands(q, n, kind) == n <= Len(q) => q[n].k = kind

\* From its nth token on a document has the value of a field of this kind and
\* then a field id, as far as it goes.
Fits(q, n, kind) ==
  \/ kind = "string" /\ Stands(q, n, "blob") /\ Stands(q, n + 1, "id")
  \/ kind = "uint" /\ Stands(q, n, "varint") /\ Stands(q, n + 1, "id")
  \/ kind = "hugeint" /\ Stands(q, n, "varint") /\ Stands(q, n + 1, "varint") /\ Stands(q, n + 2, "id")

\* A token that may stand in front of what a reader of these fields reads.
Known(t, ids) == t.k = "id" => t.v \in ids \cup {EndID}

\* Up to the first unknown field, every field the reader has in its layout is
\* followed by a value of the kind the layout gives it.
Tracks(q, reader) ==
  \A j \in 1..Len(q) : \A i \in 1..Len(reader) :
    /\ q[j].k = "id" /\ q[j].v = reader[i].id
    /\ \A k \in 1..j : Known(q[k], Ids(reader))
    => Fits(q, j + 1, reader[i].kind)

\* The reader has not taken a token for one of another kind and has a document
\* in front of it in which it will not.
Sound(r, reader, S) ==
  /\ r = [in |-> r.in, err |-> r.err]
  /\ r.err # "desync"
  /\ r.err = NoError => r.in \in Seq(S) /\ Tracks(r.in, reader)

\* The reader, if it has not failed, is in front of such a token.
Before(r, kind) == r.err = NoError => Stands(r.in, 1, kind)

\* If x has not failed, it is the reader r behind one more token.
Past(r, x) ==
  x.err = NoError =>
    /\ r.err = NoError /\ r.in # <<>>
    /\ \A n \in Nat \ {0} : \A kind : Stands(r.in, n + 1, kind) => Stands(x.in, n, kind)

\* The rest of a document keeps step.
LEMMA TracksTail ==
  ASSUME NEW T, NEW reader \in Seq(T), NEW S, NEW q \in Seq(S), q # <<>>, Tracks(q, reader),
         Known(Head(q), Ids(reader))
  PROVE  /\ Tail(q) \in Seq(S) /\ Tracks(Tail(q), reader)
         /\ \A n \in Nat \ {0} : \A kind : Stands(q, n + 1, kind) => Stands(Tail(q), n, kind)
<1> DEFINE w == Tail(q)
           ids == Ids(reader)
<1>1. Len(q) \in Nat /\ Len(q) >= 1 /\ Head(q) = q[1]
  OBVIOUS
<1>2. w \in Seq(S) /\ Len(w) = Len(q) - 1 /\ \A i \in 1..Len(w) : w[i] = q[i + 1]
  OBVIOUS
<1> HIDE DEF w
<1>3. ASSUME NEW n \in Nat \ {0}, NEW kind
      PROVE  Stands(q, n + 1, kind) => Stands(w, n, kind)
  <2>1. n <= Len(w) => n + 1 <= Len(q) /\ n \in 1..Len(w)
    BY <1>1, <1>2
  <2>2. n <= Len(w) => w[n] = q[n + 1]
    BY <1>2, <2>1
  <2> QED
    BY <2>1, <2>2, Zenon DEF Stands
<1>4. ASSUME NEW n \in Nat \ {0}, NEW kind, Fits(q, n + 1, kind)
      PROVE  Fits(w, n, kind)
  <2>1. n + 1 \in Nat \ {0} /\ n + 2 \in Nat \ {0} /\ (n + 1) + 1 = n + 2 /\ (n + 1) + 2 = (n + 2) + 1
    OBVIOUS
  <2> QED
    BY <1>3, <1>4, <2>1, Zenon DEF Fits
<1> HIDE DEF ids
<1>5. ASSUME NEW j \in 1..Len(w), NEW i \in 1..Len(reader), w[j].k = "id", w[j].v = reader[i].id,
             \A k \in 1..j : Known(w[k], ids)
      PROVE  Fits(w, j + 1, reader[i].kind)
  <2>1. j + 1 \in 1..Len(q) /\ q[j + 1] = w[j] /\ j + 1 \in Nat \ {0}
    BY <1>1, <1>2
  <2>2. ASSUME NEW k \in 1..(j + 1)
        PROVE  Known(q[k], ids)
    <3>1. CASE k = 1
      BY <3>1, <1>1 DEF ids
    <3>2. CASE k # 1
      <4>1. k - 1 \in 1..j /\ k - 1 \in 1..Len(w) /\ (k - 1) + 1 = k
        BY <3>2, <1>2
      <4>2. w[k - 1] = q[k]
        BY <1>2, <4>1
      <4> QED
        BY <1>5, <4>1, <4>2
    <3> QED
      BY <3>1, <3>2
  <2>3. Fits(q, (j + 1) + 1, reader[i].kind)
    BY <1>5, <2>1, <2>2, Zenon DEF Tracks, ids
  <2> QED
    BY <1>4, <2>1, <2>3
<1>6. Tracks(w, reader)
  BY <1>5, Zenon DEF Tracks, ids
<1> QED
  BY <1>2, <1>3, <1>6 DEF w

\* An error the code itself notes.
LEMMA FailSound ==
  ASSUME NEW r, NEW reader, NEW S, NEW e, Sound(r, reader, S), e # "desync"
  PROVE  /\ Sound(Fail(r, e), reader, S)
         /\ Fail(r, e).err = IF r.err = NoError THEN e ELSE r.err
         /\ Fail(r, e).err = NoError => Fail(r, e).in = r.in
<1>1. r = [in |-> r.in, err |-> r.err]
  BY DEF Sound
<1>2. CASE r.err = NoError
  <2> DEFINE p == [r EXCEPT !.err = e]
  <2>1. p = [in |-> r.in, err |-> e]
    BY <1>1
  <2>2. p.in = r.in /\ p.err = e
    BY <2>1
  <2>3. Fail(r, e) = p
    BY <1>2 DEF Fail
  <2> HIDE DEF p
  <2>4. p = [in |-> p.in, err |-> p.err]
    BY <2>1, <2>2
  <2> QED
    BY <1>2, <2>2, <2>3, <2>4 DEF Sound
<1>3. CASE r.err # NoError
  BY <1>3 DEF Fail
<1> QED
  BY <1>2, <1>3

\* A look at a token of the kind that stands there.
LEMMA PeekSound ==
  ASSUME NEW r, NEW reader, NEW S, NEW kind, Sound(r, reader, S), Before(r, kind)
  PROVE  /\ Sound(Peek(r, kind), reader, S)
         /\ Peek(r, kind).err = NoError =>
              Peek(r, kind) = r /\ r.err = NoError /\ r.in # <<>> /\ Head(r.in).k = kind
<1>1. CASE r.in = <<>>
  <2>1. Peek(r, kind) = Fail(r, "truncated")
    BY <1>1 DEF Peek
  <2>2. "truncated" # "desync"
    OBVIOUS
  <2> QED
    BY <2>1, <2>2, FailSound, Errors
<1>2. CASE r.in # <<>> /\ Head(r.in).k # kind
  <2>1. Peek(r, kind) = Fail(r, "desync")
    BY <1>2 DEF Peek
  <2>2. r.err # NoError
    <3> SUFFICES ASSUME r.err = NoError
                 PROVE  FALSE
      OBVIOUS
    <3>1. r.in \in Seq(S) /\ Stands(r.in, 1, kind)
      BY DEF Sound, Before
    <3>2. Len(r.in) >= 1 /\ Head(r.in) = r.in[1]
      BY <1>2, <3>1
    <3> QED
      BY <1>2, <3>1, <3>2 DEF Stands
  <2>3. Peek(r, kind) = r
    BY <2>1, <2>2 DEF Fail
  <2> QED
    BY <2>2, <2>3
<1>3. CASE r.in # <<>> /\ Head(r.in).k = kind
  <2>1. Peek(r, kind) = r
    BY <1>3 DEF Peek
  <2> QED
    BY <1>3, <2>1
<1> QED
  BY <1>1, <1>2, <1>3

\* A token is passed.
LEMMA AdvanceSound ==
  ASSUME NEW T, NEW reader \in Seq(T), NEW r, NEW S, Sound(r, reader, S), r.err = NoError, r.in # <<>>,
         Known(Head(r.in), Ids(reader))
  PROVE  Sound(Advance(r), reader, S) /\ Past(r, Advance(r))
<1> DEFINE q == Tail(r.in)
           p == Advance(r)
<1>1. r = [in |-> r.in, err |-> r.err] /\ r.in \in Seq(S) /\ Tracks(r.in, reader)
  BY DEF Sound
<1>2. /\ q \in Seq(S) /\ Tracks(q, reader)
      /\ \A n \in Nat \ {0} : \A kind : Stands(r.in, n + 1, kind) => Stands(q, n, kind)
  BY <1>1, TracksTail
<1>3. p = [r EXCEPT !.in = q]
  BY <1>1 DEF Advance
<1> HIDE DEF p, q
<1>4. p = [in |-> q, err |-> r.err]
  BY <1>1, <1>3
<1>5. p.in = q /\ p.err = r.err
  BY <1>4
<1>6. p = [in |-> p.in, err |-> p.err]
  BY <1>4, <1>5
<1>7. Sound(p, reader, S)
  BY <1>2, <1>5, <1>6 DEF Sound
<1>8. Past(r, p)
  BY <1>2, <1>5, Zenon DEF Past
<1> QED
  BY <1>7, <1>8 DEF p

\* A look for a field.
LEMMA TrySound ==
  ASSUME NEW T, NEW reader \in Seq(T), NEW r, NEW S, NEW id \in Ids(reader), Sound(r, reader, S),
         Before(r, "id")
  PROVE  /\ Sound(TryField(r, id), reader, S)
         /\ Has(r, id) =>
              Past(r, TryField(r, id)) /\ r.err = NoError /\ r.in # <<>> /\ Head(r.in).k = "id" /\ Head(r.in).v = id
         /\ ~Has(r, id) => Before(TryField(r, id), "id")
<1> DEFINE p == Peek(r, "id")
<1>1. /\ Sound(p, reader, S)
      /\ p.err = NoError => p = r /\ r.err = NoError /\ r.in # <<>> /\ Head(r.in).k = "id"
  BY PeekSound
<1>2. TryField(r, id) = Pass(p, id) /\ Has(r, id) = Seen(p, id)
  BY DEF TryField, Has
<1> HIDE DEF p
<1>3. CASE Seen(p, id)
  <2>1. p = r /\ r.err = NoError /\ r.in # <<>> /\ Head(r.in).k = "id" /\ Head(r.in).v = id
    BY <1>1, <1>3 DEF Seen
  <2>2. Known(Head(r.in), Ids(reader))
    BY <2>1 DEF Known
  <2>3. Sound(Advance(r), reader, S) /\ Past(r, Advance(r))
    BY <2>1, <2>2, AdvanceSound
  <2> QED
    BY <1>2, <1>3, <2>1, <2>3, Zenon DEF Pass
<1>4. CASE ~Seen(p, id)
  <2>1. TryField(r, id) = p /\ ~Has(r, id)
    BY <1>2, <1>4, Zenon DEF Pass
  <2>2. Before(p, "id")
    BY <1>1 DEF Before
  <2> QED
    BY <1>1, <2>1, <2>2
<1> QED
  BY <1>3, <1>4

\* A read of a token of the kind that stands there.
LEMMA TakeSound ==
  ASSUME NEW T, NEW reader \in Seq(T), NEW r, NEW S, NEW kind, NEW zero, kind # "id",
         Sound(r, reader, S), Before(r, kind)
  PROVE  Sound(Take(r, kind, zero).r, reader, S) /\ Past(r, Take(r, kind, zero).r)
<1> DEFINE p == Peek(r, kind)
<1>1. /\ Sound(p, reader, S)
      /\ p.err = NoError => p = r /\ r.err = NoError /\ r.in # <<>> /\ Head(r.in).k = kind
  BY PeekSound
<1> DEFINE x == Take(r, kind, zero)
<1>2. x = IF p.err # NoError THEN [r |-> p, v |-> zero] ELSE [r |-> Advance(p), v |-> Head(p.in).v]
  BY DEF Take
<1> HIDE DEF p, x
<1>3. CASE p.err # NoError
  <2>1. x.r = p
    BY <1>2, <1>3
  <2> QED
    BY <1>1, <1>3, <2>1 DEF x, Past
<1>4. CASE p.err = NoError
  <2>1. x.r = Advance(r)
    BY <1>1, <1>2, <1>4
  <2>2. r.err = NoError /\ r.in # <<>> /\ Known(Head(r.in), Ids(reader))
    BY <1>1, <1>4 DEF Known
  <2>3. Sound(Advance(r), reader, S) /\ Past(r, Advance(r))
    BY <2>2, AdvanceSound
  <2> QED
    BY <2>1, <2>3 DEF x
<1> QED
  BY <1>3, <1>4

\* The number in a token.
LEMMA NumberSound ==
  ASSUME NEW x, NEW n, NEW reader, NEW S, Sound(x.r, reader, S), n.err # "desync"
  PROVE  /\ Sound(Number(x, n).r, reader, S)
         /\ Number(x, n).r.err = NoError => x.r.err = NoError /\ Number(x, n).r.in = x.r.in
<1>1. CASE x.r.err # NoError
  <2>1. Number(x, n) = [r |-> x.r, v |-> 0]
    BY <1>1 DEF Number
  <2>2. Number(x, n).r = x.r
    BY <2>1
  <2> QED
    BY <1>1, <2>2
<1>2. CASE x.r.err = NoError
  <2>1. Number(x, n) = [r |-> Fail(x.r, n.err), v |-> n.v]
    BY <1>2 DEF Number
  <2> DEFINE y == Fail(x.r, n.err)
  <2>2. Number(x, n).r = y
    BY <2>1
  <2>3. Sound(y, reader, S) /\ (y.err = NoError => y.in = x.r.in)
    <3> DEFINE s == x.r
               e == n.err
    <3>1. Sound(s, reader, S) /\ e # "desync"
      OBVIOUS
    <3> HIDE DEF s, e
    <3>2. Sound(Fail(s, e), reader, S) /\ (Fail(s, e).err = NoError => Fail(s, e).in = s.in)
      BY <3>1, FailSound
    <3> QED
      BY <3>2 DEF s, e
  <2> HIDE DEF y
  <2> QED
    BY <1>2, <2>2, <2>3
<1> QED
  BY <1>1, <1>2

\* The errors of numbers are the code's own.
LEMMA NumberErrors == \A b : ReadUvarint(b).err # "desync" /\ ReadSvarint(b).err # "desync"
<1>1. NoError # "desync"
  BY Errors
<1>2. \A v : Good(v).err # "desync"
  BY <1>1 DEF Good
<1>3. Bad("truncated").err # "desync" /\ Bad("overflow").err # "desync"
  BY DEF Bad
<1> SUFFICES ASSUME NEW b
             PROVE  ReadUvarint(b).err # "desync" /\ ReadSvarint(b).err # "desync"
  OBVIOUS
<1> DEFINE n == Stop(b)
           extended == n < MaxGroups /\ b[n] >= SignBit
           u == Assemble(b, n, 0)
           s == Signed(Assemble(b, n, IF extended THEN -1 ELSE 0))
<1>4. ReadUvarint(b) \in {Bad("truncated"), Bad("overflow"), Good(u)}
  <2>1. ReadUvarint(b) = CASE n = 0 /\ Len(b) <= MaxGroups      -> Bad("truncated")
                           [] n = 0 /\ Len(b) > MaxGroups       -> Bad("overflow")
                           [] n > MaxGroups                     -> Bad("overflow")
                           [] n = MaxGroups /\ b[n] > 1         -> Bad("overflow")
                           [] OTHER                             -> Good(u)
    BY DEF ReadUvarint
  <2> HIDE DEF n, u
  <2> QED
    BY <2>1
<1>5. ReadSvarint(b) \in {Bad("truncated"), Bad("overflow"), Good(s)}
  <2>1. ReadSvarint(b) = CASE n = 0 /\ Len(b) <= MaxGroups      -> Bad("truncated")
                           [] n = 0 /\ Len(b) > MaxGroups       -> Bad("overflow")
                           [] n > MaxGroups                     -> Bad("overflow")
                           [] OTHER                             -> Good(s)
    BY DEF ReadSvarint
  <2> HIDE DEF n, s
  <2> QED
    BY <2>1
<1> HIDE DEF u, s
<1> QED
  BY <1>2, <1>3, <1>4, <1>5, Zenon

\* The values of the fields, where one of their kind stands.
LEMMA ValueSound ==
  ASSUME NEW T, NEW reader \in Seq(T), NEW r, NEW S, Sound(r, reader, S)
  PROVE  /\ Before(r, "blob") => Sound(Bytes(r).r, reader, S) /\ Past(r, Bytes(r).r)
         /\ Before(r, "varint") => Sound(Uvarint(r).r, reader, S) /\ Past(r, Uvarint(r).r)
         /\ Before(r, "varint") => Sound(Svarint(r).r, reader, S) /\ Past(r, Svarint(r).r)
<1>1. "varint" # "id" /\ "blob" # "id"
  OBVIOUS
<1>2. ASSUME Before(r, "blob")
      PROVE  Sound(Bytes(r).r, reader, S) /\ Past(r, Bytes(r).r)
  BY <1>1, <1>2, TakeSound DEF Bytes
<1>3. ASSUME Before(r, "varint")
      PROVE  /\ Sound(Uvarint(r).r, reader, S) /\ Past(r, Uvarint(r).r)
             /\ Sound(Svarint(r).r, reader, S) /\ Past(r, Svarint(r).r)
  <2> DEFINE t == Take(r, "varint", <<>>)
             u == Number(t, ReadUvarint(t.v))
             s == Number(t, ReadSvarint(t.v))
  <2>1. Sound(t.r, reader, S) /\ Past(r, t.r)
    BY <1>1, <1>3, TakeSound
  <2>2. Uvarint(r) = u /\ Svarint(r) = s
    BY DEF Uvarint, Svarint
  <2> HIDE DEF t
  <2>3. /\ Sound(u.r, reader, S) /\ (u.r.err = NoError => t.r.err = NoError /\ u.r.in = t.r.in)
        /\ Sound(s.r, reader, S) /\ (s.r.err = NoError => t.r.err = NoError /\ s.r.in = t.r.in)
    BY <2>1, NumberErrors, NumberSound
  <2> HIDE DEF u, s
  <2>4. Past(r, u.r) /\ Past(r, s.r)
    BY <2>1, <2>3, Zenon DEF Past
  <2> QED
    BY <2>2, <2>3, <2>4
<1> QED
  BY <1>2, <1>3

\* Behind a token the next ones are closer.
LEMMA Nearer ==
  ASSUME NEW r, NEW x, Past(r, x)
  PROVE  \A n \in Nat \ {0} : \A kind : x.err = NoError /\ Stands(r.in, n + 1, kind) => Stands(x.in, n, kind)
BY Zenon DEF Past

\* A read of one field keeps step.
LEMMA FieldSound ==
  ASSUME NEW T, NEW reader \in Seq(T), NEW i \in 1..Len(reader), NEW r, NEW S, Sound(r, reader, S),
         Before(r, "id"), reader[i].kind \in Kinds
  PROVE  /\ Sound(DecodeField(r, reader[i]).r, reader, S)
         /\ Before(DecodeField(r, reader[i]).r, "id")
<1> DEFINE f == reader[i]
           p == TryField(r, f.id)
           d == DecodeField(r, f)
<1>1. f.id \in Ids(reader) /\ f.kind \in Kinds
  BY DEF Ids
<1>2. /\ Sound(p, reader, S)
      /\ Has(r, f.id) =>
           Past(r, p) /\ r.err = NoError /\ r.in # <<>> /\ Head(r.in).k = "id" /\ Head(r.in).v = f.id
      /\ ~Has(r, f.id) => Before(p, "id")
  <2> HIDE DEF f
  <2> QED
    BY <1>1, TrySound
<1>3. 1 \in Nat \ {0} /\ 2 \in Nat \ {0} /\ 3 \in Nat \ {0} /\ 1 + 1 = 2 /\ 2 + 1 = 3 /\ 2 + 2 = 4 /\ 3 + 1 = 4
  OBVIOUS
<1>4. CASE ~Has(r, f.id)
  <2> DEFINE absent == [r |-> p, v |-> f.default]
  <2>1. absent.r = p
    OBVIOUS
  <2>2. d = absent
    BY <1>1, <1>4, Zenon DEF DecodeField, Optional, Kinds
  <2> HIDE DEF absent, d, p, f
  <2>3. d.r = p
    BY <2>1, <2>2
  <2> QED
    BY <1>2, <1>4, <2>3 DEF d, f
<1>5. CASE Has(r, f.id)
  <2>1. Fits(r.in, 2, f.kind)
    <3>1. r.in \in Seq(S) /\ Tracks(r.in, reader)
      BY <1>2, <1>5 DEF Sound
    <3>2. Len(r.in) \in Nat /\ Len(r.in) >= 1 /\ r.in[1] = Head(r.in)
      BY <1>2, <1>5, <3>1
    <3>3. 1 \in 1..Len(r.in) /\ r.in[1].k = "id" /\ r.in[1].v = reader[i].id
      BY <1>2, <1>5, <3>2
    <3>4. \A k \in 1..1 : Known(r.in[k], Ids(reader))
      <4>1. Known(r.in[1], Ids(reader))
        BY <1>1, <3>3 DEF Known
      <4> QED
        BY <4>1
    <3>5. Fits(r.in, 1 + 1, reader[i].kind)
      BY <3>1, <3>3, <3>4, Zenon DEF Tracks
    <3> QED
      BY <3>5, <1>3
  <2>2. Past(r, p) /\ r.err = NoError
    BY <1>2, <1>5
  <2> HIDE DEF p, f
  <2>3. \A n \in Nat \ {0} : \A kind : p.err = NoError /\ Stands(r.in, n + 1, kind) => Stands(p.in, n, kind)
    BY <2>2, Nearer
  <2>4. CASE f.kind = "string"
    <3>1. Stands(r.in, 2, "blob") /\ Stands(r.in, 3, "id")
      BY <1>3, <2>1, <2>4 DEF Fits
    <3>2. p.err = NoError => Stands(p.in, 1, "blob") /\ Stands(p.in, 2, "id")
      BY <1>3, <2>3, <3>1
    <3>3. Before(p, "blob")
      BY <3>2 DEF Before
    <3> DEFINE x == Bytes(p)
    <3>4. Sound(x.r, reader, S) /\ Past(p, x.r)
      BY <1>2, <3>3, ValueSound
    <3>5. d = x
      BY <1>5, <2>4, Zenon DEF DecodeField, Optional, p, d
    <3> HIDE DEF x, d
    <3>6. Before(x.r, "id")
      BY <1>3, <3>2, <3>4, Nearer DEF Before, Past
    <3> QED
      BY <3>4, <3>5, <3>6 DEF d, f
  <2>5. CASE f.kind = "uint"
    <3>1. Stands(r.in, 2, "varint") /\ Stands(r.in, 3, "id")
      BY <1>3, <2>1, <2>5 DEF Fits
    <3>2. p.err = NoError => Stands(p.in, 1, "varint") /\ Stands(p.in, 2, "id")
      BY <1>3, <2>3, <3>1
    <3>3. Before(p, "varint")
      BY <3>2 DEF Before
    <3> DEFINE x == Uvarint(p)
    <3>4. Sound(x.r, reader, S) /\ Past(p, x.r)
      BY <1>2, <3>3, ValueSound
    <3>5. d = x
      BY <1>5, <2>5, Zenon DEF DecodeField, Optional, p, d
    <3> HIDE DEF x, d
    <3>6. Before(x.r, "id")
      BY <1>3, <3>2, <3>4, Nearer DEF Before, Past
    <3> QED
      BY <3>4, <3>5, <3>6 DEF d, f
  <2>6. CASE f.kind = "hugeint"
    <3>1. Stands(r.in, 2, "varint") /\ Stands(r.in, 3, "varint") /\ Stands(r.in, 4, "id")
      BY <1>3, <2>1, <2>6 DEF Fits
    <3>2. p.err = NoError => Stands(p.in, 1, "varint") /\ Stands(p.in, 2, "varint") /\ Stands(p.in, 3, "id")
      BY <1>3, <2>3, <3>1
    <3>3. Before(p, "varint")
      BY <3>2 DEF Before
    <3> DEFINE u == Svarint(p)
               l == Uvarint(u.r)
    <3>4. Sound(u.r, reader, S) /\ Past(p, u.r)
      BY <1>2, <3>3, ValueSound
    <3>5. Hugeint(p) = [r |-> l.r, v |-> [upper |-> u.v, lower |-> l.v]]
      BY DEF Hugeint
    <3> HIDE DEF u
    <3>6. u.r.err = NoError => Stands(u.r.in, 1, "varint") /\ Stands(u.r.in, 2, "id")
      BY <1>3, <3>2, <3>4, Nearer DEF Past
    <3>7. Before(u.r, "varint")
      BY <3>6 DEF Before
    <3>8. Sound(l.r, reader, S) /\ Past(u.r, l.r)
      BY <3>4, <3>7, ValueSound
    <3>9. d = Hugeint(p)
      BY <1>5, <2>6, Zenon DEF DecodeField, Optional, p, d
    <3> HIDE DEF l, d
    <3>10. Before(l.r, "id")
      BY <1>3, <3>6, <3>8, Nearer DEF Before, Past
    <3>11. d.r = l.r
      BY <3>5, <3>9
    <3> QED
      BY <3>8, <3>10, <3>11 DEF d, f
  <2> QED
    BY <1>1, <2>4, <2>5, <2>6 DEF Kinds
<1> QED
  BY <1>4, <1>5

\* The look for the terminator keeps step, too.
LEMMA EndSound ==
  ASSUME NEW T, NEW reader \in Seq(T), NEW r, NEW S, Sound(r, reader, S), Before(r, "id")
  PROVE  End(r).err # "desync"
<1> DEFINE p == Peek(r, "id")
<1>1. /\ Sound(p, reader, S)
      /\ p.err = NoError => p = r /\ r.err = NoError /\ r.in # <<>> /\ Head(r.in).k = "id"
  BY PeekSound
<1>2. Has(r, EndID) = Seen(p, EndID) /\ TryField(r, EndID) = Pass(p, EndID)
  BY DEF Has, TryField
<1> HIDE DEF p
<1>3. CASE Seen(p, EndID)
  <2>1. p = r /\ r.err = NoError /\ r.in # <<>> /\ Known(Head(r.in), Ids(reader))
    BY <1>1, <1>3 DEF Seen, Known
  <2>2. Sound(Advance(r), reader, S)
    BY <2>1, AdvanceSound
  <2>3. End(r) = Advance(r)
    BY <1>2, <1>3, <2>1 DEF End, Pass
  <2> QED
    BY <2>2, <2>3 DEF Sound
<1>4. CASE ~Seen(p, EndID)
  <2>1. End(r) = Fail(p, "framing")
    BY <1>2, <1>4 DEF End, Pass
  <2>2. "framing" # "desync"
    OBVIOUS
  <2>3. Sound(Fail(p, "framing"), reader, S)
    BY <1>1, <2>2, FailSound
  <2> QED
    BY <2>1, <2>3 DEF Sound
<1> QED
  BY <1>3, <1>4

\* The message is refused, and by an error the code notes itself.
Refuses(d) == d.e = "error" /\ d.r.err # "desync"

\* A document in which the fields the reader knows have values of their kinds
\* up to an unknown field or to the end, either of them before the terminator,
\* is refused without a token being taken for one of another kind.
LEMMA RefusedInStep ==
  ASSUME NEW T, NEW layout \in Seq(T), \A i \in 1..Len(layout) : layout[i].kind \in Kinds,
         NEW S, NEW buf \in Seq(S), Blocked(buf, Ids(layout)), Tracks(buf, layout), Stands(buf, 1, "id")
  PROVE  Refuses(Decode(layout, buf))
<1> DEFINE n == Len(layout)
<1>1. n \in Nat
  OBVIOUS
<1>2. PICK h : Reading(h, layout, buf)
  BY ReadingExists, Zenon
<1> DEFINE Keeps(r) == Sound(r, layout, S) /\ Before(r, "id")
           U == {i \in 0..n : Keeps(h[i].r)}
<1>3. 0 \in U
  <2> DEFINE r == NewReader(buf)
  <2>1. r = [in |-> buf, err |-> NoError]
    BY DEF NewReader
  <2>2. r.in = buf /\ r.err = NoError
    BY <2>1
  <2> HIDE DEF r
  <2>3. Keeps(r)
    BY <2>1, <2>2, Errors DEF Sound, Before
  <2>4. h[0] = [r |-> r, v |-> <<>>]
    BY <1>2, Zenon DEF Reading, r
  <2>5. h[0].r = r
    BY <2>4
  <2> QED
    BY <1>1, <2>3, <2>5
<1>4. ASSUME NEW i \in 0..(n - 1), i \in U
      PROVE  i + 1 \in U
  <2> DEFINE j == i + 1
  <2>1. j \in 1..n /\ j \in 0..n /\ j - 1 = i
    BY <1>1
  <2> HIDE DEF j
  <2>2. Keeps(h[i].r)
    BY <1>4
  <2> DEFINE r == h[i].r
             x == DecodeField(r, layout[j])
  <2>3. h[j] = With(h[i], layout[j], x)
    BY <1>2, <2>1, Zenon DEF Reading
  <2>4. Keeps(x.r)
    BY <2>1, <2>2, FieldSound
  <2> HIDE DEF r, x
  <2>5. h[j].r = x.r
    BY <2>3 DEF With
  <2> QED
    BY <2>1, <2>4, <2>5 DEF j
<1>5. n \in U
  <2>1. 0 \in Nat /\ n \in 0..n
    BY <1>1
  <2> HIDE DEF U, n
  <2>2. 0..n \subseteq U
    BY <1>1, <1>3, <1>4, <2>1, Upwards
  <2> QED
    BY <2>1, <2>2
<1> DEFINE d == Decode(layout, buf)
           r == End(h[n].r)
           v == h[n].v
<1>6. r.err # "desync"
  BY <1>5, EndSound
<1>7. d = Ended(r, v)
  BY <1>2, DecodeIs, Zenon
<1>8. d.e = "error"
  BY Refused
<1> HIDE DEF r, v, d
<1>9. d.r = r
  BY <1>7 DEF Ended
<1> QED
  BY <1>6, <1>8, <1>9 DEF Refuses, d

----------------------------------------------------------------------------
(* What a writer leaves *)

\* A field id of the layout that is followed by a value of its kind.
Valued(t, q, n, layout) ==
  \E i \in 1..Len(layout) : t.v = layout[i].id /\ t.v # EndID /\ Fits(q, n, layout[i].kind)

\* Every field id in the document is one of those, or ends the document.
Filled(q, layout) ==
  \A j \in 1..Len(q) : q[j].k = "id" => (q[j].v = EndID /\ j = Len(q)) \/ Valued(q[j], q, j + 1, layout)

\* The document consists of fields with values, and of nothing behind the
\* terminator.
Written(q, layout) == Len(q) >= 1 /\ q[1].k = "id" /\ Filled(q, layout)

\* The token is no field id, or one that gets its value.
Precedes(a, q, layout) == a.k = "id" => Valued(a, q, 1, layout)

\* q is z with one more token in front.
Longer(q, a, z, S, layout) ==
  /\ q \in Seq(S) /\ Len(q) = Len(z) + 1 /\ q[1] = a /\ Filled(q, layout)
  /\ \A n \in Nat \ {0} : \A kind : Stands(z, n, kind) => Stands(q, n + 1, kind)

\* Such a token may come in front.
LEMMA FilledOne ==
  ASSUME NEW S, NEW z \in Seq(S), NEW layout, NEW a \in S, Filled(z, layout), Precedes(a, z, layout)
  PROVE  Longer(<<a>> \o z, a, z, S, layout)
<1> DEFINE q == <<a>> \o z
<1>1. /\ q \in Seq(S) /\ Len(z) \in Nat /\ Len(q) = Len(z) + 1 /\ q[1] = a
      /\ \A j \in 1..Len(z) : q[j + 1] = z[j]
  <2>1. <<a>> \in Seq(S) /\ Len(<<a>>) = 1 /\ <<a>>[1] = a
    OBVIOUS
  <2> QED
    BY <2>1
<1> HIDE DEF q
<1>2. ASSUME NEW n \in Nat \ {0}, NEW kind, Stands(z, n, kind)
      PROVE  Stands(q, n + 1, kind)
  <2>1. n + 1 <= Len(q) => n <= Len(z) /\ n \in 1..Len(z)
    BY <1>1
  <2>2. n + 1 <= Len(q) => q[n + 1] = z[n]
    BY <1>1, <2>1
  <2> QED
    BY <1>2, <2>1, <2>2, Zenon DEF Stands
<1>3. ASSUME NEW n \in Nat \ {0}, NEW kind, Fits(z, n, kind)
      PROVE  Fits(q, n + 1, kind)
  <2>1. n + 1 \in Nat \ {0} /\ n + 2 \in Nat \ {0} /\ (n + 1) + 1 = n + 2 /\ (n + 1) + 2 = (n + 2) + 1
    OBVIOUS
  <2> QED
    BY <1>2, <1>3, <2>1, Zenon DEF Fits
<1>4. ASSUME NEW t, NEW n \in Nat \ {0}, Valued(t, z, n, layout)
      PROVE  Valued(t, q, n + 1, layout)
  BY <1>3, <1>4, Zenon DEF Valued
<1>5. ASSUME NEW j \in 1..Len(q), q[j].k = "id"
      PROVE  (q[j].v = EndID /\ j = Len(q)) \/ Valued(q[j], q, j + 1, layout)
  <2>1. CASE j = 1
    <3>1. 1 \in Nat \ {0} /\ q[j] = a
      BY <1>1, <2>1
    <3>2. Valued(a, z, 1, layout)
      BY <1>5, <3>1 DEF Precedes
    <3>3. Valued(a, q, 1 + 1, layout)
      BY <1>4, <3>1, <3>2, Zenon
    <3> QED
      BY <2>1, <3>1, <3>3, Zenon
  <2>2. CASE j # 1
    <3> DEFINE k == j - 1
    <3>1. k \in 1..Len(z) /\ k + 1 \in Nat \ {0} /\ k + 1 = j
      BY <1>1, <2>2
    <3> HIDE DEF k
    <3>2. q[j] = z[k]
      BY <1>1, <3>1
    <3>3. (z[k].v = EndID /\ k = Len(z)) \/ Valued(z[k], z, k + 1, layout)
      BY <1>5, <3>1, <3>2, Zenon DEF Filled
    <3>4. CASE z[k].v = EndID /\ k = Len(z)
      BY <1>1, <3>1, <3>2, <3>4
    <3>5. CASE Valued(z[k], z, k + 1, layout)
      <4>1. Valued(z[k], q, (k + 1) + 1, layout)
        BY <1>4, <3>1, <3>5, Zenon
      <4> QED
        BY <3>1, <3>2, <4>1, Zenon
    <3> QED
      BY <3>3, <3>4, <3>5
  <2> QED
    BY <2>1, <2>2
<1>6. Filled(q, layout)
  BY <1>5, Zenon DEF Filled
<1> QED
  BY <1>1, <1>2, <1>6, Zenon DEF Longer, q

\* A message is its fields and the terminator.
LEMMA BodyIs ==
  ASSUME NEW T, NEW layout \in Seq(T), NEW B, NEW m, Carries(layout, m, B)
  PROVE  \E x \in Seq(Inner(Ids(layout), B)) : Encode(layout, m) = x \o PutEnd
<1> DEFINE n == Len(layout)
           S == Inner(Ids(layout), B)
           F == [i \in 1..n |-> EncodeField(layout[i], m[layout[i].id])]
<1>1. n \in Nat
  OBVIOUS
<1>2. ASSUME NEW i \in 1..n
      PROVE  EncodeField(layout[i], m[layout[i].id]) \in Seq(S)
  <2> DEFINE f == layout[i]
             v == m[layout[i].id]
  <2>1. Holds(f, v, B) /\ f.id \in Ids(layout)
    BY DEF Carries, Ids
  <2>2. Inner({f.id}, B) \subseteq S
    BY <2>1 DEF Inner
  <2> HIDE DEF f, v, S
  <2>3. EncodeField(f, v) \in Seq(S)
    BY <2>1, <2>2, FieldWritten
  <2> QED
    BY <2>3 DEF f, v
<1> HIDE DEF S
<1>3. F \in [1..n -> Seq(S)]
  BY <1>2
<1>4. FlattenSeq(F) \in Seq(S)
  <2> HIDE DEF F, n
  <2>1. PICK f \in [0..n -> Seq(S)] :
          /\ f[0] = <<>>
          /\ \A i \in 1..n : f[i] = f[i - 1] \o F[i]
          /\ FlattenSeq(F) = f[n]
    BY <1>1, <1>3, Flatten, Zenon
  <2> QED
    BY <1>1, <2>1
<1>5. Encode(layout, m) = FlattenSeq(F) \o PutEnd
  BY DEF Encode
<1> HIDE DEF F
<1> QED
  BY <1>4, <1>5 DEF S

\* A field in front of a written document.
LEMMA WrittenField ==
  ASSUME NEW T, NEW layout \in Seq(T), NEW n \in 1..Len(layout), layout[n].id # EndID,
         NEW S, NEW B, NEW v, Holds(layout[n], v, B), Inner({layout[n].id}, B) \subseteq S,
         NEW z \in Seq(S), Written(z, layout)
  PROVE  Written(EncodeField(layout[n], v) \o z, layout)
<1> DEFINE f == layout[n]
           a == [k |-> "id", v |-> f.id]
<1>1. a \in S /\ a.k = "id" /\ a.v = f.id /\ f.id # EndID
  BY DEF Inner
<1>2. Filled(z, layout) /\ Len(z) \in Nat /\ Len(z) >= 1 /\ z[1].k = "id"
  BY DEF Written
<1>3. Stands(z, 1, "id")
  BY <1>2 DEF Stands
<1>4. 1 \in Nat \ {0} /\ 2 \in Nat \ {0} /\ 1 + 1 = 2 /\ 1 + 2 = 3 /\ 2 + 1 = 3
  OBVIOUS
<1> HIDE DEF a
<1>5. ASSUME NEW q \in Seq(S), Filled(q, layout), NEW b \in S, Precedes(b, q, layout)
      PROVE  /\ <<b>> \o q \in Seq(S) /\ Filled(<<b>> \o q, layout)
             /\ Len(<<b>> \o q) = Len(q) + 1 /\ (<<b>> \o q)[1] = b
             /\ \A x \in Nat \ {0} : \A kind : Stands(q, x, kind) => Stands(<<b>> \o q, x + 1, kind)
  <2>1. Longer(<<b>> \o q, b, q, S, layout)
    BY <1>5, FilledOne
  <2> QED
    BY <2>1, Zenon DEF Longer
<1>6. ASSUME NEW q \in Seq(S), Filled(q, layout), Fits(q, 1, f.kind)
      PROVE  Written(<<a>> \o q, layout)
  <2> DEFINE w == <<a>> \o q
  <2>1. Valued(a, q, 1, layout)
    BY <1>1, <1>6, Zenon DEF Valued
  <2>2. Precedes(a, q, layout)
    BY <2>1, Zenon DEF Precedes
  <2>3. w \in Seq(S) /\ Len(w) = Len(q) + 1 /\ w[1] = a /\ Filled(w, layout)
    BY <1>1, <1>5, <1>6, <2>2, Zenon
  <2> HIDE DEF w
  <2>4. Len(w) >= 1
    BY <1>6, <2>3
  <2>5. Written(w, layout)
    BY <1>1, <2>3, <2>4, Zenon DEF Written
  <2> QED
    BY <2>5 DEF w
<1>7. ASSUME NEW q \in Seq(S), Filled(q, layout), NEW b \in S, b.k # "id"
      PROVE  /\ <<b>> \o q \in Seq(S) /\ Filled(<<b>> \o q, layout) /\ Stands(<<b>> \o q, 1, b.k)
             /\ \A x \in Nat \ {0} : \A kind : Stands(q, x, kind) => Stands(<<b>> \o q, x + 1, kind)
  <2>1. Precedes(b, q, layout)
    BY <1>7 DEF Precedes
  <2>2. (<<b>> \o q)[1] = b
    BY <1>5, <1>7, <2>1, Zenon
  <2>3. Stands(<<b>> \o q, 1, b.k)
    BY <2>2, Zenon DEF Stands
  <2> QED
    BY <1>5, <1>7, <2>1, <2>3, Zenon
<1> HIDE DEF f
<1>8. CASE f.kind = "string" /\ f.default = <<>> /\ v \in Seq(B)
  <2> DEFINE b == [k |-> "blob", v |-> v]
  <2>1. b \in S /\ b.k = "blob" /\ b.k # "id"
    BY <1>8 DEF Inner, f
  <2>2. CASE v = <<>>
    <3>1. EncodeField(f, v) = <<>>
      BY <1>8, <2>2 DEF EncodeField, NonEmptyField
    <3>2. <<>> \o z = z
      OBVIOUS
    <3> QED
      BY <3>1, <3>2 DEF f
  <2>3. CASE v # <<>>
    <3>1. EncodeField(f, v) = <<a>> \o <<b>>
      BY <1>8, <2>3 DEF EncodeField, NonEmptyField, FieldBytes, Field, PutBytes, a
    <3> HIDE DEF b
    <3>2. EncodeField(f, v) \o z = <<a>> \o (<<b>> \o z)
      BY <1>1, <2>1, <3>1, TwoTokens
    <3> DEFINE w == <<b>> \o z
    <3>3. w \in Seq(S) /\ Filled(w, layout) /\ Stands(w, 1, "blob") /\ Stands(w, 1 + 1, "id")
      BY <1>2, <1>3, <1>4, <1>7, <2>1
    <3> HIDE DEF w
    <3>4. Fits(w, 1, f.kind)
      BY <1>8, <3>3 DEF Fits
    <3>5. Written(<<a>> \o w, layout)
      BY <1>6, <3>3, <3>4
    <3> QED
      BY <3>2, <3>5 DEF w, f
  <2> QED
    BY <2>2, <2>3
<1>9. CASE f.kind = "uint" /\ v \in 0..MaxUint
  <2> DEFINE b == [k |-> "varint", v |-> AppendUvarint(v)]
             w == <<b>> \o z
  <2>1. b \in S /\ b.k = "varint" /\ b.k # "id"
    BY <1>9 DEF Inner, Numbers, f
  <2>2. EncodeField(f, v) = <<a>> \o <<b>>
    BY <1>9 DEF EncodeField, FieldUvarint, Field, PutUvarint, a
  <2> HIDE DEF b
  <2>3. EncodeField(f, v) \o z = <<a>> \o (<<b>> \o z)
    BY <1>1, <2>1, <2>2, TwoTokens
  <2>4. w \in Seq(S) /\ Filled(w, layout) /\ Stands(w, 1, "varint") /\ Stands(w, 1 + 1, "id")
    BY <1>2, <1>3, <1>4, <1>7, <2>1
  <2> HIDE DEF w
  <2>5. Fits(w, 1, f.kind)
    BY <1>9, <2>4 DEF Fits
  <2>6. Written(<<a>> \o w, layout)
    BY <1>6, <2>4, <2>5
  <2> QED
    BY <2>3, <2>6 DEF w, f
<1>10. CASE f.kind = "hugeint" /\ v \in [upper : MinInt..(HalfWord - 1), lower : 0..MaxUint]
  <2> DEFINE b == [k |-> "varint", v |-> AppendSvarint(v.upper)]
             c == [k |-> "varint", v |-> AppendUvarint(v.lower)]
             w == <<c>> \o z
             x == <<b>> \o w
  <2>1. v.upper \in MinInt..(HalfWord - 1) /\ v.lower \in 0..MaxUint
    BY <1>10
  <2>2. b \in S /\ b.k = "varint" /\ b.k # "id" /\ c \in S /\ c.k = "varint" /\ c.k # "id"
    BY <2>1 DEF Inner, Numbers, f
  <2>3. EncodeField(f, v) = <<a>> \o (<<b>> \o <<c>>)
    BY <1>10 DEF EncodeField, Field, PutHugeint, PutSvarint, PutUvarint, a
  <2> HIDE DEF b, c
  <2>4. EncodeField(f, v) \o z = <<a>> \o (<<b>> \o (<<c>> \o z))
    BY <1>1, <2>2, <2>3, ThreeTokens
  <2>5. w \in Seq(S) /\ Filled(w, layout) /\ Stands(w, 1, "varint") /\ Stands(w, 1 + 1, "id")
    BY <1>2, <1>3, <1>4, <1>7, <2>2
  <2> HIDE DEF w
  <2>6. Stands(w, 2, "id")
    BY <2>5, <1>4
  <2>7. x \in Seq(S) /\ Filled(x, layout) /\ Stands(x, 1, "varint") /\ Stands(x, 1 + 1, "varint") /\ Stands(x, 2 + 1, "id")
    BY <1>4, <1>7, <2>2, <2>5, <2>6
  <2> HIDE DEF x
  <2>8. Fits(x, 1, f.kind)
    BY <1>4, <1>10, <2>7 DEF Fits
  <2>9. Written(<<a>> \o x, layout)
    BY <1>6, <2>7, <2>8
  <2> QED
    BY <2>4, <2>9 DEF x, w, f
<1> QED
  BY <1>8, <1>9, <1>10 DEF Holds, f

\* An encoded message is such a document.
LEMMA EncodedIsWritten ==
  ASSUME NEW T, NEW layout \in Seq(T), NEW B, NEW m, Carries(layout, m, B)
  PROVE  \E S : Encode(layout, m) \in Seq(S) /\ Written(Encode(layout, m), layout)
<1> DEFINE n == Len(layout)
<1>1. n \in Nat
  OBVIOUS
<1>2. <<>> \in Seq({})
  OBVIOUS
<1>3. PICK g, S : Laid(g, S, layout, m, B, <<>>)
  BY <1>2, EncodedIs, Zenon
<1> DEFINE end == [k |-> "id", v |-> EndID]
<1>4. /\ end \in S /\ g \in [0..n -> Seq(S)]
      /\ g[0] = Encode(layout, m) \o <<>> /\ g[n] = PutEnd \o <<>>
  BY <1>3, Zenon DEF Laid
<1>5. ASSUME NEW i \in 1..n
      PROVE  Inner({layout[i].id}, B) \subseteq S /\ g[i - 1] = EncodeField(layout[i], m[layout[i].id]) \o g[i]
  BY <1>3, <1>5, Zenon DEF Laid
<1>6. end.k = "id" /\ end.v = EndID /\ PutEnd = <<end>>
  BY DEF PutEnd, Field
<1> HIDE DEF end
<1>7. Written(g[n], layout)
  <2>1. g[n] = <<end>>
    BY <1>4, <1>6
  <2>2. Len(<<end>>) = 1 /\ <<end>>[1] = end
    OBVIOUS
  <2> QED
    BY <1>6, <2>1, <2>2 DEF Written, Filled
<1> DEFINE U == {i \in 0..n : Written(g[n - i], layout)}
<1>8. 0 \in U
  BY <1>1, <1>7
<1>9. ASSUME NEW i \in 0..(n - 1), i \in U
      PROVE  i + 1 \in U
  <2> DEFINE j == n - i
  <2>1. j \in 1..n /\ j \in 0..n /\ n - (i + 1) = j - 1 /\ i + 1 \in 0..n
    BY <1>1
  <2>2. Written(g[j], layout)
    BY <1>9
  <2> HIDE DEF j
  <2>3. g[j] \in Seq(S)
    BY <1>4, <2>1
  <2>4. layout[j].id # EndID /\ Holds(layout[j], m[layout[j].id], B)
    <3>1. layout[j].id \in Ids(layout)
      BY <2>1 DEF Ids
    <3> QED
      BY <2>1, <3>1 DEF Carries
  <2>5. Inner({layout[j].id}, B) \subseteq S /\ g[j - 1] = EncodeField(layout[j], m[layout[j].id]) \o g[j]
    BY <1>5, <2>1
  <2> DEFINE v == m[layout[j].id]
             w == g[j]
  <2> HIDE DEF v, w
  <2>6. Written(EncodeField(layout[j], v) \o w, layout)
    <3>1. w \in Seq(S) /\ Written(w, layout) /\ Holds(layout[j], v, B)
      BY <2>2, <2>3, <2>4 DEF v, w
    <3> QED
      BY <2>1, <2>4, <2>5, <3>1, WrittenField
  <2>7. Written(g[n - (i + 1)], layout)
    BY <2>1, <2>5, <2>6, Zenon DEF v, w
  <2> QED
    BY <2>1, <2>7
<1>10. n \in U
  <2>1. 0 \in Nat /\ n \in 0..n
    BY <1>1
  <2> HIDE DEF U, n
  <2>2. 0..n \subseteq U
    BY <1>1, <1>8, <1>9, <2>1, Upwards
  <2> QED
    BY <2>1, <2>2
<1>11. Written(g[0], layout) /\ g[0] \in Seq(S)
  <2>1. n - n = 0 /\ 0 \in 0..n
    BY <1>1
  <2> QED
    BY <1>4, <1>10, <2>1
<1>12. g[0] = Encode(layout, m)
  <2>1. PICK y \in Seq(Inner(Ids(layout), B)) : Encode(layout, m) = y \o PutEnd
    BY BodyIs, Zenon
  <2>2. Encode(layout, m) \in Seq(Inner(Ids(layout), B) \cup {end})
    BY <1>6, <2>1
  <2> QED
    BY <1>4, <2>2
<1> QED
  BY <1>11, <1>12, Zenon

----------------------------------------------------------------------------
(* Damaged messages *)

\* The reader knows a field it shares with the writer as one of the same kind.
Agrees(reader, layout) ==
  \A i \in 1..Len(reader) :
    /\ reader[i].kind \in Kinds
    /\ \A j \in 1..Len(layout) : reader[i].id = layout[j].id => reader[i].kind = layout[j].kind

\* Up to its nth token q is z, but for the numbers in it, and it ends there or
\* goes on with an unknown field where z has a field.
Departs(q, z, n, ids) ==
  /\ n \in 1..(Len(q) + 1) /\ n <= Len(z)
  /\ \A j \in 1..(n - 1) : q[j].k = z[j].k /\ (q[j].k = "id" => q[j].v = z[j].v)
  /\ n <= Len(q) => z[n].k = "id" /\ q[n].k = "id" /\ q[n].v \notin ids \cup {EndID}

\* Where z has a token of this kind, q has one, too, or ends.
LEMMA DepartsKind ==
  ASSUME NEW S, NEW z \in Seq(S), NEW R, NEW q \in Seq(R), NEW ids, NEW n \in Nat, Departs(q, z, n, ids),
         NEW j \in 1..n, NEW kind, Stands(z, j, kind)
  PROVE  Stands(q, j, kind)
<1>1. CASE j # n
  BY <1>1 DEF Departs, Stands
<1>2. CASE j = n
  BY <1>2 DEF Departs, Stands
<1> QED
  BY <1>1, <1>2

\* Nothing but a field id stands where they depart.
LEMMA DepartsAt ==
  ASSUME NEW S, NEW z \in Seq(S), NEW R, NEW q \in Seq(R), NEW ids, NEW n \in Nat, Departs(q, z, n, ids),
         NEW kind, kind # "id", Stands(z, n, kind)
  PROVE  Len(q) = n - 1
BY DEF Departs, Stands

\* Values are where they were.
LEMMA DepartsFits ==
  ASSUME NEW S, NEW z \in Seq(S), NEW R, NEW q \in Seq(R), NEW ids, NEW n \in Nat, Departs(q, z, n, ids),
         NEW j \in 1..(n - 1), NEW kind, Fits(z, j + 1, kind)
  PROVE  Fits(q, j + 1, kind)
<1>1. \A x \in 1..n : \A k : Stands(z, x, k) => Stands(q, x, k)
  BY DepartsKind
<1>2. \A k : k # "id" /\ Stands(z, n, k) => Len(q) = n - 1
  BY DepartsAt
<1>3. Len(q) \in Nat /\ "blob" # "id" /\ "varint" # "id"
  OBVIOUS
<1>4. \A x \in Nat : \A k : Len(q) = n - 1 /\ x > n => Stands(q, x, k)
  BY <1>3 DEF Stands
<1>5. j + 1 \in 1..n /\ (j + 1) + 1 \in Nat /\ (j + 1) + 2 \in Nat /\ ((j + 1) + 1) + 1 = (j + 1) + 2
  OBVIOUS
<1>6. ASSUME NEW a, a # "id", NEW b, Stands(z, j + 1, a), Stands(z, (j + 1) + 1, b)
      PROVE  Stands(q, j + 1, a) /\ Stands(q, (j + 1) + 1, b)
  <2>1. Stands(q, j + 1, a)
    BY <1>1, <1>5, <1>6
  <2>2. CASE j + 1 = n
    <3>1. Len(q) = n - 1 /\ (j + 1) + 1 > n
      BY <1>2, <1>6, <2>2
    <3> QED
      BY <1>4, <1>5, <2>1, <3>1
  <2>3. CASE j + 1 # n
    <3>1. (j + 1) + 1 \in 1..n
      BY <2>3
    <3> QED
      BY <1>1, <1>6, <2>1, <3>1
  <2> QED
    BY <2>2, <2>3
<1>7. ASSUME NEW a, a # "id", NEW b, b # "id", NEW c,
             Stands(z, j + 1, a), Stands(z, (j + 1) + 1, b), Stands(z, (j + 1) + 2, c)
      PROVE  Stands(q, (j + 1) + 2, c)
  <2>1. CASE j + 1 = n
    <3>1. Len(q) = n - 1 /\ (j + 1) + 2 > n
      BY <1>2, <1>7, <2>1
    <3> QED
      BY <1>4, <1>5, <3>1
  <2>2. CASE (j + 1) + 1 = n
    <3>1. Len(q) = n - 1 /\ (j + 1) + 2 > n
      BY <1>2, <1>7, <2>2
    <3> QED
      BY <1>4, <1>5, <3>1
  <2>3. CASE j + 1 # n /\ (j + 1) + 1 # n
    <3>1. (j + 1) + 2 \in 1..n
      BY <2>3
    <3> QED
      BY <1>1, <1>7, <3>1
  <2> QED
    BY <2>1, <2>2, <2>3
<1>8. CASE kind = "string" /\ Stands(z, j + 1, "blob") /\ Stands(z, (j + 1) + 1, "id")
  BY <1>3, <1>6, <1>8, Zenon DEF Fits
<1>9. CASE kind = "uint" /\ Stands(z, j + 1, "varint") /\ Stands(z, (j + 1) + 1, "id")
  BY <1>3, <1>6, <1>9, Zenon DEF Fits
<1>10. CASE /\ kind = "hugeint" /\ Stands(z, j + 1, "varint") /\ Stands(z, (j + 1) + 1, "varint")
            /\ Stands(z, (j + 1) + 2, "id")
  BY <1>3, <1>6, <1>7, <1>10, Zenon DEF Fits
<1> QED
  BY <1>8, <1>9, <1>10, Zenon DEF Fits

\* A message that departs from what was written is refused.
LEMMA DepartureRefused ==
  ASSUME NEW T, NEW layout \in Seq(T), NEW R, NEW reader \in Seq(R), Agrees(reader, layout),
         NEW S, NEW z \in Seq(S), Written(z, layout),
         NEW W, NEW q \in Seq(W), NEW n \in Nat, Departs(q, z, n, Ids(reader))
  PROVE  Refuses(Decode(reader, q))
<1> DEFINE ids == Ids(reader)
<1>1. /\ Len(q) \in Nat /\ Len(z) \in Nat /\ n \in 1..(Len(q) + 1) /\ n <= Len(z)
      /\ \A j \in 1..(n - 1) : q[j].k = z[j].k /\ (q[j].k = "id" => q[j].v = z[j].v)
      /\ n <= Len(q) => q[n].k = "id" /\ q[n].v \notin ids \cup {EndID}
  BY DEF Departs
<1> HIDE DEF ids
<1>2. ASSUME NEW j \in 1..(n - 1), q[j].k = "id"
      PROVE  Valued(q[j], z, j + 1, layout) /\ q[j].v = z[j].v
  <2>1. j \in 1..Len(z) /\ j # Len(z) /\ z[j].k = "id" /\ z[j].v = q[j].v
    BY <1>1, <1>2
  <2>2. Valued(z[j], z, j + 1, layout)
    BY <2>1, Zenon DEF Written, Filled
  <2> QED
    BY <2>1, <2>2, Zenon DEF Valued
<1>3. Blocked(q, Ids(reader))
  <2>1. \A j \in 1..(n - 1) : ~Terminates(q[j])
    BY <1>2 DEF Terminates, Valued
  <2> QED
    BY <1>1, <2>1, Zenon DEF Blocked, ids
<1>4. Stands(q, 1, "id")
  <2>1. Stands(z, 1, "id") /\ 1 \in 1..n
    BY <1>1 DEF Written, Stands
  <2> QED
    BY <2>1, DepartsKind
<1>5. Tracks(q, reader)
  <2> SUFFICES ASSUME NEW j \in 1..Len(q), NEW i \in 1..Len(reader), q[j].k = "id", q[j].v = reader[i].id,
                      \A k \in 1..j : Known(q[k], Ids(reader))
               PROVE  Fits(q, j + 1, reader[i].kind)
    BY Zenon DEF Tracks
  <2>1. j \in 1..(n - 1)
    <3>1. CASE n <= Len(q)
      <4>1. ~Known(q[n], Ids(reader))
        BY <1>1, <3>1 DEF Known, ids
      <4>2. n \notin 1..j
        BY <4>1
      <4> QED
        BY <1>1, <4>2
    <3>2. CASE ~(n <= Len(q))
      BY <1>1, <3>2
    <3> QED
      BY <3>1, <3>2
  <2>2. PICK k \in 1..Len(layout) : q[j].v = layout[k].id /\ Fits(z, j + 1, layout[k].kind)
    BY <1>2, <2>1, Zenon DEF Valued
  <2>3. reader[i].kind = layout[k].kind
    BY <2>2, Zenon DEF Agrees
  <2>4. Fits(z, j + 1, reader[i].kind)
    BY <2>2, <2>3, Zenon
  <2> QED
    BY <2>1, <2>4, DepartsFits
<1>6. \A i \in 1..Len(reader) : reader[i].kind \in Kinds
  BY DEF Agrees
<1> QED
  BY <1>3, <1>4, <1>5, <1>6, RefusedInStep

\* Cut messages: a message that was cut anywhere, inside a number too (b being
\* what is left of it), is refused by an error of the reader itself and is
\* never taken for a shorter one, also by a reader of another version, as long
\* as that knows the fields they share as fields of the same kind.
THEOREM CutRefused ==
  ASSUME NEW T, NEW layout \in Seq(T), NEW B, NEW m, Carries(layout, m, B),
         NEW R, NEW reader \in Seq(R), Agrees(reader, layout),
         NEW c \in 0..(Len(Encode(layout, m)) - 1)
  PROVE  /\ Refuses(Decode(reader, SubSeq(Encode(layout, m), 1, c)))
         /\ Encode(layout, m)[c + 1].k = "varint" =>
              \A b : Refuses(Decode(reader, Append(SubSeq(Encode(layout, m), 1, c), [k |-> "varint", v |-> b])))
<1> DEFINE z == Encode(layout, m)
           q == SubSeq(z, 1, c)
<1>1. PICK S : z \in Seq(S) /\ Written(z, layout)
  BY EncodedIsWritten, Zenon
<1>2. c \in 0..(Len(z) - 1)
  OBVIOUS
<1> HIDE DEF z
<1>3. Len(z) \in Nat /\ c \in Nat /\ c + 1 <= Len(z) /\ c + 1 \in 1..Len(z)
  BY <1>1, <1>2
<1>4. q \in Seq(S) /\ Len(q) = c /\ \A i \in 1..c : q[i] = z[i]
  BY <1>1, <1>3
<1> HIDE DEF q
<1>5. Refuses(Decode(reader, q))
  <2>1. Departs(q, z, c + 1, Ids(reader))
    BY <1>3, <1>4 DEF Departs
  <2>2. c + 1 \in Nat
    BY <1>3
  <2> QED
    BY <1>1, <1>4, <2>1, <2>2, DepartureRefused
<1>6. ASSUME z[c + 1].k = "varint", NEW b
      PROVE  Refuses(Decode(reader, Append(q, [k |-> "varint", v |-> b])))
  <2> DEFINE t == [k |-> "varint", v |-> b]
             w == Append(q, t)
             W == S \cup {t}
  <2>1. t.k = "varint" /\ t \in W
    OBVIOUS
  <2> HIDE DEF t
  <2>2. q \in Seq(W)
    BY <1>4
  <2> HIDE DEF W
  <2>3. w \in Seq(W) /\ Len(w) = c + 1 /\ w[c + 1] = t /\ \A i \in 1..c : w[i] = q[i]
    BY <1>3, <1>4, <2>1, <2>2
  <2> HIDE DEF w
  <2>4. c + 1 # Len(z)
    <3>1. \E x \in Seq(Inner(Ids(layout), B)) : z = x \o PutEnd
      BY BodyIs, Zenon DEF z
    <3>2. PICK x \in Seq(Inner(Ids(layout), B)) : z = x \o PutEnd
      BY <3>1
    <3> DEFINE end == [k |-> "id", v |-> EndID]
    <3>3. PutEnd = <<end>> /\ end.k = "id"
      BY DEF PutEnd, Field
    <3> HIDE DEF end
    <3>4. z[Len(z)] = end
      BY <3>2, <3>3
    <3> QED
      BY <1>6, <3>3, <3>4
  <2>5. \A j \in 1..(c + 1) : w[j].k = z[j].k /\ (w[j].k = "id" => w[j].v = z[j].v)
    <3> SUFFICES ASSUME NEW j \in 1..(c + 1)
                 PROVE  w[j].k = z[j].k /\ (w[j].k = "id" => w[j].v = z[j].v)
      OBVIOUS
    <3>1. CASE j = c + 1
      BY <1>6, <2>1, <2>3, <3>1
    <3>2. CASE j # c + 1
      <4>1. j \in 1..c
        BY <1>3, <3>2
      <4> QED
        BY <1>4, <2>3, <4>1
    <3> QED
      BY <3>1, <3>2
  <2>6. Departs(w, z, c + 2, Ids(reader))
    <3>1. c + 2 \in 1..(Len(w) + 1) /\ c + 2 <= Len(z) /\ (c + 2) - 1 = c + 1 /\ ~(c + 2 <= Len(w))
      BY <1>3, <2>3, <2>4
    <3> QED
      BY <2>5, <3>1 DEF Departs
  <2>7. c + 2 \in Nat
    BY <1>3
  <2>8. Refuses(Decode(reader, w))
    BY <1>1, <2>3, <2>6, <2>7, DepartureRefused
  <2> QED
    BY <2>8 DEF w, t
<1> QED
  BY <1>5, <1>6, Zenon DEF q, z

\* Unknown fields: a field the reader does not know, anywhere in front of a
\* field or of the terminator of a message, is refused by an error of the
\* reader itself, whatever follows it.
THEOREM UnknownRefused ==
  ASSUME NEW T, NEW layout \in Seq(T), NEW B, NEW m, Carries(layout, m, B),
         NEW R, NEW reader \in Seq(R), Agrees(reader, layout),
         NEW n \in 1..Len(Encode(layout, m)), Encode(layout, m)[n].k = "id",
         NEW id, id \notin Ids(reader), id # EndID, NEW X, NEW after \in Seq(X)
  PROVE  Refuses(Decode(reader, SubSeq(Encode(layout, m), 1, n - 1) \o (Field(id) \o after)))
<1> DEFINE z == Encode(layout, m)
           q == SubSeq(z, 1, n - 1)
           a == [k |-> "id", v |-> id]
           w == <<a>> \o after
           y == q \o w
<1>1. PICK S : z \in Seq(S) /\ Written(z, layout)
  BY EncodedIsWritten, Zenon
<1>2. n \in 1..Len(z) /\ z[n].k = "id"
  OBVIOUS
<1> HIDE DEF z
<1>3. Len(z) \in Nat /\ n \in Nat /\ n <= Len(z) /\ n >= 1
  BY <1>1, <1>2
<1>4. q \in Seq(S) /\ Len(q) = n - 1 /\ \A i \in 1..(n - 1) : q[i] = z[i]
  BY <1>1, <1>3
<1> HIDE DEF q
<1>5. Field(id) = <<a>> /\ a.k = "id" /\ a.v = id
  BY DEF Field
<1> DEFINE W == S \cup X \cup {a}
<1>6. q \in Seq(W) /\ after \in Seq(W) /\ a \in W
  BY <1>4
<1> HIDE DEF a, W
<1>7. w \in Seq(W) /\ Len(w) >= 1 /\ w[1] = a
  <2>1. w \in Seq(W) /\ w # <<>> /\ Head(w) = a
    BY <1>6, FirstToken
  <2> HIDE DEF w
  <2> QED
    BY <2>1
<1> HIDE DEF w
<1>8. /\ y \in Seq(W) /\ Len(y) = (n - 1) + Len(w) /\ Len(w) \in Nat
      /\ \A i \in 1..(n - 1) : y[i] = q[i]
  <2>1. /\ y \in Seq(W) /\ Len(y) = Len(q) + Len(w) /\ Len(w) \in Nat
        /\ \A i \in 1..Len(q) : y[i] = q[i]
    BY <1>6, <1>7
  <2> HIDE DEF y
  <2> QED
    BY <1>4, <2>1
<1>9. y[n] = a
  <2>1. \A i \in 1..Len(w) : y[Len(q) + i] = w[i]
    BY <1>6, <1>7
  <2>2. 1 \in 1..Len(w) /\ Len(q) + 1 = n
    BY <1>3, <1>4, <1>7, <1>8
  <2> HIDE DEF y
  <2> QED
    BY <1>7, <2>1, <2>2
<1> HIDE DEF y
<1>10. Departs(y, z, n, Ids(reader))
  <2>1. n \in 1..(Len(y) + 1)
    BY <1>3, <1>7, <1>8
  <2>2. \A j \in 1..(n - 1) : y[j] = z[j]
    BY <1>4, <1>8
  <2> QED
    BY <1>2, <1>3, <1>5, <1>9, <2>1, <2>2 DEF Departs
<1>11. Refuses(Decode(reader, y))
  BY <1>1, <1>3, <1>8, <1>10, DepartureRefused
<1> QED
  BY <1>5, <1>11 DEF y, w, q, z
=============================================================================
