------------------------------- MODULE Varint -------------------------------
(***************************************************************************)
(* LEB128 numbers, as internal/qser reads and writes them.  A number is    *)
(* the sequence of its groups, least significant first, with Cont added to *)
(* every group but the last.  A word of the code has 64 bits: 9 full       *)
(* groups of 7, and a tenth of one bit.                                    *)
(***************************************************************************)
EXTENDS Integers, Sequences, FiniteSetsExt

CONSTANTS Cont,        \* 0x80: the values of a group
          MaxGroups    \* binary.MaxVarintLen64

ASSUME VarintAssumption ==
  /\ Cont \in Nat /\ Cont >= 4 /\ Cont % 2 = 0
  /\ MaxGroups \in Nat /\ MaxGroups >= 2

\* The values of so many groups.
Span(n) == LET span[i \in 0..n] == IF i = 0 THEN 1 ELSE Cont * span[i - 1] IN span[n]

SignBit   == Cont \div 2                            \* 0x40
HalfWord  == Span(MaxGroups - 1)                    \* 1 << 63
Word      == 2 * HalfWord
MaxUint   == Word - 1
MinInt    == -HalfWord

NoError   == ""

Signed(u) == IF u >= HalfWord THEN u - Word ELSE u

----------------------------------------------------------------------------
(* Writing *)

\* What the loops have left of v after so many groups: v >> 7 in each round,
\* for v < 0 with copies of the sign.
Left(v) == LET left[i \in 0..MaxGroups] == IF i = 0 THEN v ELSE left[i - 1] \div Cont IN left

\* The first n groups of v.
Groups(v, n) == [i \in 1..n |-> (Left(v)[i - 1] % Cont) + (IF i < n THEN Cont ELSE 0)]

\* binary.AppendUvarint stops when nothing is left.
AppendUvarint(v) == Groups(v, Min({n \in 1..MaxGroups : Left(v)[n] = 0}))

\* Writer.Svarint stops at the first group after which only copies of the
\* sign bit of that group would follow.
SvarintEnds(v, n) == Left(v)[n] = IF Left(v)[n - 1] % Cont >= SignBit THEN -1 ELSE 0

AppendSvarint(v) == Groups(v, Min({n \in 1..MaxGroups : SvarintEnds(v, n)}))

----------------------------------------------------------------------------
(* Reading *)

\* Where the number that starts a buffer ends; 0 if the buffer does first.
Stop(b) ==
  LET ends == {i \in 1..Len(b) : b[i] < Cont}
  IN  IF ends = {} THEN 0 ELSE Min(ends)

\* The groups up to the last one, put together under the bits above them;
\* what does not fit is lost.
Assemble(b, n, above) ==
  LET sum[i \in 1..(n + 1)] == IF i > n THEN above ELSE (b[i] % Cont) + Cont * sum[i + 1]
  IN  sum[1] % Word

Bad(e) == [v |-> 0, err |-> e]
Good(v) == [v |-> v, err |-> NoError]

\* binary.Uvarint: the last possible group has room for one bit.
ReadUvarint(b) ==
  LET n == Stop(b)
  IN  CASE n = 0 /\ Len(b) <= MaxGroups      -> Bad("truncated")
        [] n = 0 /\ Len(b) > MaxGroups       -> Bad("overflow")
        [] n > MaxGroups                     -> Bad("overflow")
        [] n = MaxGroups /\ b[n] > 1         -> Bad("overflow")
        [] OTHER                             -> Good(Assemble(b, n, 0))

\* Reader.Svarint: ends like ReadUvarint but takes any last group, and copies
\* the sign bit of the last group into the bits above it, if there are any.
ReadSvarint(b) ==
  LET n == Stop(b)
      extended == n < MaxGroups /\ b[n] >= SignBit
  IN  CASE n = 0 /\ Len(b) <= MaxGroups      -> Bad("truncated")
        [] n = 0 /\ Len(b) > MaxGroups       -> Bad("overflow")
        [] n > MaxGroups                     -> Bad("overflow")
        [] OTHER -> Good(Signed(Assemble(b, n, IF extended THEN -1 ELSE 0)))
=============================================================================
