---------------------------- MODULE ResultContract ----------------------------
(***************************************************************************)
(* What a duckcall Result promises the goroutine that ranges over it, with *)
(* no workers, channels or requests: the fetched batches are delivered     *)
(* chunk by chunk in any order, none twice, and a pass that ends without   *)
(* an error has delivered all of them.  The two exceptions the code makes  *)
(* are visible: a Result that was closed, and a Result ranged over again.  *)
(***************************************************************************)
EXTENDS Naturals

CONSTANT Size   \* Size[b] = number of chunks in fetchable batch b

VARIABLES
  status,      \* "idle", "open", or how the last pass ended
  delivered,   \* chunks of each batch the caller has received
  closed,      \* Result.Close was called
  pass         \* number of passes begun

vars == <<status, delivered, closed, pass>>

Ended == {"clean", "error", "break"}

Init ==
  /\ status = "idle" /\ closed = FALSE /\ pass = 0
  /\ delivered = [b \in DOMAIN Size |-> 0]

Begin ==
  /\ status \in {"idle"} \union Ended
  /\ status' = "open" /\ pass' = pass + 1
  /\ UNCHANGED <<delivered, closed>>

\* One more chunk of a batch; the loop body may break on it.
Deliver ==
  /\ status = "open" /\ status' \in {"open", "break"}
  /\ \E b \in DOMAIN Size :
       /\ delivered[b] < Size[b]
       /\ delivered' = [delivered EXCEPT ![b] = @ + 1]
  /\ UNCHANGED <<closed, pass>>

\* The end of the range loop without an error.
Finish ==
  /\ status = "open" /\ status' = "clean"
  /\ (\A b \in DOMAIN Size : delivered[b] = Size[b]) \/ closed \/ pass > 1
  /\ UNCHANGED <<delivered, closed, pass>>

\* The range loop ends with an error, or is left on an inline chunk.
GiveUp ==
  /\ status = "open" /\ status' \in {"error", "break"}
  /\ UNCHANGED <<delivered, closed, pass>>

CloseResult ==
  /\ closed' = TRUE
  /\ UNCHANGED <<status, delivered, pass>>

Next == Begin \/ Deliver \/ Finish \/ GiveUp \/ CloseResult

Spec == Init /\ [][Next]_vars

=============================================================================
