------------------------------- MODULE CortexM -------------------------------
(***************************************************************************)
(* What CPU and NVIC share: the exception numbers of CPU.h, the EXC_RETURN *)
(* values, and the CPU end of the irq_line socket (CPU::b_transport).      *)
(*                                                                         *)
(* `irq' is the interface variable of the two components: the pending      *)
(* flags m_*_pending of the CPU as a set, one element per flag, and the    *)
(* single slot m_pending_external_exception.                               *)
(***************************************************************************)
EXTENDS Integers

EXCEPTION_NMI        == 2
EXCEPTION_HARD_FAULT == 3
EXCEPTION_SVCALL     == 11
EXCEPTION_PENDSV     == 14
EXCEPTION_SYSTICK    == 15
EXCEPTION_IRQ0       == 16

(* The one-word signal a device without NVIC sends: "Legacy IRQ signal". *)
LEGACY_IRQ == 1

(***************************************************************************)
(* One element per m_*_pending flag.  m_irq_pending is EXCEPTION_IRQ0: all *)
(* external interrupts share that flag.                                    *)
(***************************************************************************)
PendingFlags == {EXCEPTION_NMI, EXCEPTION_HARD_FAULT, EXCEPTION_SVCALL,
                 EXCEPTION_PENDSV, EXCEPTION_SYSTICK, EXCEPTION_IRQ0}

(* The flag that stands for exception e. *)
FlagOf(e) == IF e >= EXCEPTION_IRQ0 THEN EXCEPTION_IRQ0 ELSE e

(* Mutant: NMI is looked at after SysTick. *)
RankNmiLate(f) == CASE f = EXCEPTION_HARD_FAULT -> 1
                    [] f = EXCEPTION_SVCALL     -> 2
                    [] f = EXCEPTION_SYSTICK    -> 3
                    [] f = EXCEPTION_NMI        -> 4
                    [] OTHER                    -> 5

(***************************************************************************)
(* The order in which check_pending_exceptions looks at the flags.         *)
(***************************************************************************)
Rank(f) == CASE f = EXCEPTION_NMI        -> 1
             [] f = EXCEPTION_HARD_FAULT -> 2
             [] f = EXCEPTION_SVCALL     -> 3
             [] f = EXCEPTION_SYSTICK    -> 4
             [] f = EXCEPTION_PENDSV     -> 5
             [] OTHER                    -> 6

(* Mutant: the number itself becomes a flag. *)
ReceiveExceptionRaw(i, e) == [i EXCEPT !.flags = @ \cup {e}]

(***************************************************************************)
(* CPU::b_transport: the effect on the CPU of exception number e arriving  *)
(* on irq_line.  A second external interrupt overwrites the slot of the    *)
(* first; numbers between 4 and 13 are logged and dropped.                 *)
(***************************************************************************)
ReceiveException(i, e) ==
    CASE e = LEGACY_IRQ ->
           [i EXCEPT !.flags = @ \cup {EXCEPTION_IRQ0}]
      [] e \in {EXCEPTION_NMI, EXCEPTION_HARD_FAULT,
                EXCEPTION_PENDSV, EXCEPTION_SYSTICK} ->
           [i EXCEPT !.flags = @ \cup {e}]
      [] e >= EXCEPTION_IRQ0 ->
           [flags |-> i.flags \cup {EXCEPTION_IRQ0}, ext |-> e]
      [] OTHER -> i

(***************************************************************************)
(* EXC_RETURN.  Words are scaled to eight bits: the value 0xFFFFFFF1 is    *)
(* 241, and a word at or above EXC_RETURN is one whose top nibble is 0xF.  *)
(***************************************************************************)
EXC_RETURN         == 240
RETURN_HANDLER_MSP == EXC_RETURN + 1
RETURN_THREAD_MSP  == EXC_RETURN + 9
RETURN_THREAD_PSP  == EXC_RETURN + 13
ExcReturns == {RETURN_HANDLER_MSP, RETURN_THREAD_MSP, RETURN_THREAD_PSP}
=============================================================================
