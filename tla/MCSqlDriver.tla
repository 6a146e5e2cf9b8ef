---------------------------- MODULE MCSqlDriver ----------------------------
(* Small instances of SqlDriver. *)
EXTENDS SqlDriver

\* An inline chunk of two rows, then an empty chunk and one more row to fetch.
MCParts == <<2, 0, 1>>
=============================================================================
