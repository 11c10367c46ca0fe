------------------------------- MODULE MCNVIC --------------------------------
(* Instances of NVIC for TLC. *)
EXTENDS NVIC
=============================================================================
