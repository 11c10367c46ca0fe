-------------------------- MODULE MCExceptionSystem --------------------------
(* Instances of ExceptionSystem for TLC. *)
EXTENDS ExceptionSystem

(* Every exception has its handler at address 1. *)
MCVectors == [e \in PendingFlags \cup {17, 18} |-> 1]
=============================================================================
