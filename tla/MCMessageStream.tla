--------------------------- MODULE MCMessageStream ---------------------------
(* Instances of MessageStream for TLC. *)
EXTENDS MessageStream
=============================================================================
