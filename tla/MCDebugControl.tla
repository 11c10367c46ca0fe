--------------------------- MODULE MCDebugControl ---------------------------
(* Instances of DebugControl for TLC. *)
EXTENDS DebugControl
=============================================================================
