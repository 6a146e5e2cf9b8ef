----------------------------- MODULE Interpolate -----------------------------
(***************************************************************************)
(* driver/interpolate.go: an application writes a query and binds          *)
(* arguments, and the driver puts the arguments into the text.  A text is  *)
(* a sequence of characters: "?", the quotes, the characters of comment    *)
(* delimiters, "nl" for a newline, " " and "a" for any other one.          *)
(***************************************************************************)
EXTENDS Integers, Sequences, SequencesExt

CONSTANTS Pieces,      \* what queries are put together from
          Arguments,   \* the values that may be bound, as <<Go type, content>>
          MaxPieces,   \* of a query
          MaxArgs      \* of a query

Characters == {"?", "'", "\"", "-", "/", "*", "nl", " ", "a"}

\* What database/sql may bind: a Go type, and the content where the text
\* depends on it.
Values == {<<t>> : t \in {"nil", "bool", "bytes", "time", "other"}}
            \cup ({"int64", "float64", "Decimal", "infinite"} \X Int)
            \cup ({"string"} \X Seq(Characters))

ASSUME InterpolateAssumption ==
  /\ Pieces \subseteq Seq(Characters)
  /\ Arguments \subseteq [name : STRING, value : Values]
  /\ MaxPieces \in Nat /\ MaxArgs \in Nat

VARIABLES pieces,  \* number of pieces written so far
          query,   \* the text of the query
          args,    \* its arguments, each with a name, which may be empty
          sent     \* what is sent to the server

vars == <<pieces, query, args, sent>>

None == ""   \* no name, no character

Unsent == [e |-> "unsent", text |-> <<>>]
Error  == [e |-> "error", text |-> <<>>]

Quote  == "'"
Quotes == {Quote, "\""}

----------------------------------------------------------------------------
(* Literals *)

\* Mutant: quotes inside a string are not doubled.
escapeNothing(s) == s

escape(s) == FlattenSeq([i \in 1..Len(s) |-> IF s[i] = Quote THEN <<Quote, Quote>> ELSE <<s[i]>>])

Quoted(s) == <<Quote>> \o s \o <<Quote>>

HasLiteral(v) == v[1] # "other"

\* Digits, keywords and casts are words.
literal(v) ==
  CASE v[1] \in {"nil", "bool"}                 -> <<"a">>
    [] v[1] \in {"int64", "float64", "Decimal"} -> IF v[2] < 0 THEN <<"-", "a">> ELSE <<"a">>
    [] v[1] = "infinite"                        -> Quoted(IF v[2] < 0 THEN <<"-", "a">> ELSE <<"a">>) \o <<"a">>
    [] v[1] = "string"                          -> Quoted(escape(v[2]))
    [] v[1] = "bytes"                           -> Quoted(<<"a">>) \o <<"a">>
    [] v[1] = "time"                            -> <<"a", " ">> \o Quoted(<<"a", "-", "a", " ", "a">>)

----------------------------------------------------------------------------
(* Scanning *)

At(s, i, c) == i \in 1..Len(s) /\ s[i] = c

First(S, default) == IF S = {} THEN default ELSE Min(S)

\* The index just past the quoted region that starts at i: past the first
\* quote that is not one of a pair.
skipQuoted(s, i) ==
  LET past[j \in (i + 1)..(Len(s) + 2)] ==
        IF j > Len(s) THEN Len(s) + 1
        ELSE IF s[j] # s[i] THEN past[j + 1]
        ELSE IF At(s, j + 1, s[i]) THEN past[j + 2] ELSE j + 1
  IN  past[i + 1]

\* A line comment ends before the newline.
skipLine(s, i) == First({j \in i..Len(s) : s[j] = "nl"}, Len(s) + 1)

\* Mutant: the search for the end begins at the star that opens the comment.
skipBlockEarly(s, i) == First({j + 2 : j \in {k \in (i + 1)..Len(s) : s[k] = "*" /\ At(s, k + 1, "/")}}, Len(s) + 1)

skipBlock(s, i) == First({j + 2 : j \in {k \in (i + 2)..Len(s) : s[k] = "*" /\ At(s, k + 1, "/")}}, Len(s) + 1)

\* The index just past what is copied, or replaced, in one go.
next(s, i) ==
  CASE s[i] \in Quotes                    -> skipQuoted(s, i)
    [] s[i] = "-" /\ At(s, i + 1, "-")    -> skipLine(s, i)
    [] s[i] = "/" /\ At(s, i + 1, "*")    -> skipBlock(s, i)
    [] OTHER                              -> i + 1

\* Where the iterations of the loop begin.
Starts(s) ==
  LET from[i \in 1..(Len(s) + 1)] == IF i > Len(s) THEN {} ELSE {i} \cup from[next(s, i)]
  IN  from[1]

Placeholders(s) == {i \in Starts(s) : s[i] = "?"}

\* Those up to i: as many arguments are used up once the loop is past i.
Upto(S, i) == {j \in S : j <= i}

\* An iteration writes a literal, or copies query[i:end] as it is.
Filled(s, as) ==
  [i \in 1..Len(s) |->
     IF i \in Placeholders(s) THEN literal(as[Cardinality(Upto(Placeholders(s), i))].value) ELSE <<s[i]>>]

interpolate(s, as) ==
  IF \E i \in 1..Len(as) : as[i].name # None THEN Error
  ELSE IF as = <<>> /\ (\A i \in 1..Len(s) : s[i] # "?") THEN [e |-> "sent", text |-> s]
  ELSE IF Cardinality(Placeholders(s)) # Len(as) THEN Error
  ELSE IF \E i \in 1..Len(as) : ~HasLiteral(as[i].value) THEN Error
  ELSE [e |-> "sent", text |-> FlattenSeq(Filled(s, as))]

----------------------------------------------------------------------------
Init == pieces = 0 /\ query = <<>> /\ args = <<>> /\ sent = Unsent

Write ==
  /\ sent = Unsent /\ args = <<>> /\ pieces < MaxPieces
  /\ \E p \in Pieces : query' = query \o p
  /\ pieces' = pieces + 1
  /\ UNCHANGED <<args, sent>>

Bind ==
  /\ sent = Unsent /\ Len(args) < MaxArgs
  /\ \E v \in Arguments : args' = Append(args, v)
  /\ UNCHANGED <<pieces, query, sent>>

QueryContext ==
  /\ sent = Unsent
  /\ sent' = interpolate(query, args)
  /\ UNCHANGED <<pieces, query, args>>

Next == Write \/ Bind \/ QueryContext

Spec == Init /\ [][Next]_vars

----------------------------------------------------------------------------
(* The reader on the other side: one pass over the characters.             *)

\* What a character means, given what the one before it left open.  A quote
\* closes a quoted region and, if another follows, opens it again.
Reads(mode, prev, c) ==
  CASE mode = "code" /\ c \in Quotes                -> c
    [] mode = "code" /\ prev = "-" /\ c = "-"       -> "line"
    [] mode = "code" /\ prev = "/" /\ c = "*"       -> "block"
    [] mode = "line" /\ c = "nl"                    -> "code"
    [] mode = "block" /\ prev = "*" /\ c = "/"      -> "code"
    [] mode \in Quotes /\ c = mode                  -> "code"
    [] OTHER                                        -> mode

\* What the reader knows after a character.  One that opens a region or closes
\* a comment counts as nothing for the delimiter that follows it.
After(st, c) ==
  LET m == Reads(st.mode, st.prev, c)
  IN  [mode |-> m, prev |-> IF m = st.mode \/ st.mode \in Quotes \/ st.prev = c THEN c ELSE None]

Fresh == [mode |-> "code", prev |-> None]

\* What the reader knows after each character of a text.
Read(s) ==
  LET read[i \in 1..Len(s)] == After(IF i = 1 THEN Fresh ELSE read[i - 1], s[i])
  IN  read

\* Where the reader sees a placeholder.
Marks(s) == {i \in 1..Len(s) : s[i] = "?" /\ Read(s)[i].mode = "code"}

----------------------------------------------------------------------------
Sent == sent # Unsent

\* Every argument takes the place of one "?" outside quotes and comments, and
\* a query is sent only if there are as many of them as arguments.
PlaceholdersMatched ==
  Sent => (sent.e = "sent" <=>
             /\ Cardinality(Marks(query)) = Len(args)
             /\ \A i \in 1..Len(args) : args[i].name = None /\ HasLiteral(args[i].value))

\* Placeholders touch neither quotes nor each other: 'a'? is no expression.
Apart == \A i \in Marks(query) : \A c \in Quotes \cup {"?"} : ~At(query, i - 1, c) /\ ~At(query, i + 1, c)

\* The argument of the placeholder at i.
ArgumentAt(i) == args[Cardinality(Upto(Marks(query), i))].value

MinusBeforeNegative == \E i \in Marks(query) : At(query, i - 1, "-") /\ literal(ArgumentAt(i))[1] = "-"

\* The query as the reader takes it without arguments, and in the place of
\* each placeholder its literal as the reader takes that alone.
Meant ==
  FlattenSeq([i \in 1..Len(query) |-> IF i \in Marks(query) THEN Read(literal(ArgumentAt(i))) ELSE <<Read(query)[i]>>])

Intact == Read(sent.text) = Meant

\* A placeholder with something before it that opens a comment together with
\* a negative number is the only way an argument changes what the rest of
\* the query means.
LiteralsIntact == sent.e = "sent" /\ Apart /\ ~MinusBeforeNegative => Intact

\* interpolate.go:19: "interpolate replaces each ? outside strings, quoted
\* identifiers, and comments with the corresponding escaped argument."
ArgumentsEscaped == sent.e = "sent" /\ Apart => Intact
=============================================================================
