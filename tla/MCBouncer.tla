------------------------------ MODULE MCBouncer ------------------------------
(* Small instances of Bouncer: the configurations give every constant a set   *)
(* of model values or a number.                                               *)
EXTENDS Bouncer
=============================================================================
