----------------------------- MODULE MCMemoryBus -----------------------------
(* Instances of MemoryBus for TLC. *)
EXTENDS MemoryBus

MCPeripherals == {10, 11}

At(a, b) == [kind |-> "data", address |-> a, bytes |-> b]
Upper(a) == [kind |-> "extended", address |-> a]
End == [kind |-> "end"]

(* Flash alone; SRAM under an extended address, then a line that is unmapped; *)
(* records that overlap, and one after the end.                               *)
MCPrograms == {
  <<At(0, <<1, 0, 1>>), End>>,
  <<At(1, <<1, 1>>), Upper(4), At(1, <<1, 1>>), At(3, <<1>>), Upper(0), At(0, <<1>>)>>,
  <<Upper(4), At(1, <<1>>), Upper(0), At(0, <<1, 1>>), At(1, <<0, 1>>), End, At(0, <<0>>)>> }
=============================================================================
