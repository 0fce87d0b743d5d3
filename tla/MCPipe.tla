------------------------------- MODULE MCPipe -------------------------------
(* Small instances of Pipe. *)
EXTENDS Pipe

=============================================================================
