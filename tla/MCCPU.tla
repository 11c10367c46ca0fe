-------------------------------- MODULE MCCPU --------------------------------
(* Instances of CPU for TLC. *)
EXTENDS CPUInv

(* Every exception has a handler at address 1, but SVCall has none. *)
MCVectors == [e \in PendingFlags \cup {17} |->
                IF e = EXCEPTION_SVCALL THEN 0 ELSE 1]

(* NMI and SysTick arrive at any time. *)
MCAsync == {EXCEPTION_NMI, EXCEPTION_SYSTICK}

(* A store raises nothing, IRQ1, or PendSV and IRQ1. *)
MCStores == {<<>>, <<17>>, <<EXCEPTION_PENDSV, 17>>}

(***************************************************************************)
(* Words below the stack pointers are dead: no instruction reads one       *)
(* before an entry or a push has written it.  States that differ only in   *)
(* them are explored once.                                                 *)
(***************************************************************************)
LiveView == <<irq, phase, cur, registers, activations,
              [a \in Addr |-> IF a >= msp \/ a \in psp .. PspTop - 1
                              THEN mem[a] ELSE 0]>>
=============================================================================
