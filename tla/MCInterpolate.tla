---------------------------- MODULE MCInterpolate ----------------------------
(* Small instances of Interpolate. *)
EXTENDS Interpolate

MCPieces == { <<"?">>, <<"'">>, <<"\"">>, <<"-">>, <<"-", "-">>, <<"/", "*">>, <<"*", "/">>, <<"/">>, <<"nl">>, <<"a">>, <<" ">> }

Value(v) == [name |-> None, value |-> v]

\* A value of each shape, and a named one.
MCArguments ==
  {Value(v) : v \in { <<"int64", -1>>, <<"infinite", -1>>, <<"time">>, <<"string", <<Quote, "-", "-", "?">> >>, <<"other">> }}
  \cup {[name |-> "n", value |-> <<"nil">>]}
=============================================================================
