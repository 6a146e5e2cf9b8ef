---------------------------- MODULE MCWireClient ----------------------------
(* Small instances of WireClient: its constants come from the configuration. *)
EXTENDS WireClient
=============================================================================
