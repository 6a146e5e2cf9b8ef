---------------------------- MODULE QueryContract ----------------------------
(***************************************************************************)
(* What db.QueryContext and the rows it returns promise a goroutine, with  *)
(* no pool, retries, sessions or fetches: a query runs at most once, its   *)
(* rows come one by one and in the order of the result, and io.EOF comes   *)
(* after the last of them.  ErrBadConn is only said of a query that never  *)
(* ran; any other failure may come at any time, and what came before it    *)
(* still counts.                                                           *)
(***************************************************************************)
EXTENDS Naturals

CONSTANTS
  Apps,        \* goroutines of the application
  Rows         \* the rows of the result: <<chunk in order of arrival, row in it>>

VARIABLES
  status,      \* "idle", "open", or how the last query ended
  rows,        \* rows of it that the goroutine has received
  ran          \* how often the server ran it

vars == <<status, rows, ran>>

Ended == {"eof", "closed", "error", "ErrBadConn"}

Earlier(p, q) == p[1] < q[1] \/ (p[1] = q[1] /\ p[2] < q[2])

Init ==
  /\ status = [a \in Apps |-> "idle"]
  /\ rows = [a \in Apps |-> {}]
  /\ ran = [a \in Apps |-> 0]

\* A new query; the one before it is over.
Start(a) ==
  /\ status[a] \in {"idle"} \union Ended
  /\ status' = [status EXCEPT ![a] = "open"]
  /\ rows' = [rows EXCEPT ![a] = {}]
  /\ ran' = [ran EXCEPT ![a] = 0]

\* The server runs the query: once, and before any row of it is seen.
Run(a) ==
  /\ status[a] = "open" /\ ran[a] = 0 /\ rows[a] = {}
  /\ ran' = [ran EXCEPT ![a] = 1]
  /\ UNCHANGED <<status, rows>>

\* The next row: every earlier one has been received.
Deliver(a) ==
  /\ status[a] = "open" /\ ran[a] = 1
  /\ \E p \in Rows \ rows[a] :
       /\ \A q \in Rows : Earlier(q, p) => q \in rows[a]
       /\ rows' = [rows EXCEPT ![a] = @ \union {p}]
  /\ UNCHANGED <<status, ran>>

\* The query is over.
End(a) ==
  /\ status[a] = "open"
  /\ \E how \in Ended :
       /\ how = "eof" => rows[a] = Rows /\ ran[a] = 1
       /\ how = "closed" => ran[a] = 1
       /\ how = "ErrBadConn" => rows[a] = {} /\ ran[a] = 0
       /\ status' = [status EXCEPT ![a] = how]
  /\ UNCHANGED <<rows, ran>>

Next == \E a \in Apps : Start(a) \/ Run(a) \/ Deliver(a) \/ End(a)

Spec == Init /\ [][Next]_vars
=============================================================================
