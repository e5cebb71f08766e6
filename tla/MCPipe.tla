------------------------------- MODULE MCPipe -------------------------------
(* Three readers, two writers.  One reader at a time is the supported use; *)
(* the history variable shared says when the run leaves it.                *)
EXTENDS Pipe
=============================================================================
