------------------------------- MODULE MCPipe -------------------------------
(***************************************************************************)
(* Instances of Pipe for TLC.                                              *)
(***************************************************************************)
EXTENDS Pipe

PipeSemaphores == {"read_sem", "write_sem"}

Bytes == {"a", "b"}

\* More bytes than the ring holds, in an order that shows.
Texts == {<<"b", "a", "a">>}

=============================================================================
