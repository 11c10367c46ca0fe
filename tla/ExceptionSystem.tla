--------------------------- MODULE ExceptionSystem ---------------------------
(***************************************************************************)
(* CPU and NVIC together, as Simulator.cpp wires them: the stores of       *)
(* the program are the register writes of the NVIC, the exceptions that    *)
(* the NVIC sends are what the CPU receives, and the SysTick thread runs   *)
(* whenever cpu_thread waits.                                              *)
(*                                                                         *)
(* The program here enables, pends and disables interrupts, pends PendSV,  *)
(* starts and stops the timer, calls SVC and returns with BX LR.           *)
(***************************************************************************)
EXTENDS CortexM, Sequences

CONSTANTS Code, Values, VectorTable, PspTop, MspTop, MaxNest, Irqs, Loads

ASSUME SystemAssumption == Irqs \subseteq Nat

VARIABLES irq, phase, cur, pc, lr, gpr, ipsr, spsel, msp, psp, primask, mem,
          activations
VARIABLES iser, ispr, pendsvset, enable, tickint, countflag, load, val, wake,
          stale, timer
VARIABLE owed      \* history: interrupts sent to the CPU and not yet entered

(* What one register write sends: PendSV, one interrupt, or both. *)
Sent == {<<>>, <<EXCEPTION_PENDSV>>}
          \cup {<<EXCEPTION_IRQ0 + k>> : k \in Irqs}
          \cup {<<EXCEPTION_PENDSV, EXCEPTION_IRQ0 + k>> : k \in Irqs}

C == INSTANCE CPU WITH Async <- {EXCEPTION_SYSTICK}, Stores <- Sent,
                       MaskValues <- {}
N == INSTANCE NVIC WITH CpuFlags <- {EXCEPTION_SVCALL, EXCEPTION_HARD_FAULT}

cpuOwn == <<phase, cur, pc, lr, gpr, ipsr, spsel, msp, psp, primask, mem,
            activations>>
nvicOwn == <<iser, ispr, pendsvset, enable, tickint, countflag, load, val,
             wake, stale, timer>>
vars == <<irq, cpuOwn, nvicOwn, owed>>

Init == C!Init /\ N!Init /\ owed = {}
-----------------------------------------------------------------------------
(* cpu_thread between two accesses of the NVIC. *)
Core ==
    /\ \/ C!Entry
       \/ \E c \in Code : \/ \E v \in Values : C!Plain(c, v)
                          \/ C!Svc(c)
       \/ C!BxLr
    /\ owed' = IF phase = "vectoring" THEN owed \ {cur - EXCEPTION_IRQ0}
               ELSE owed
    /\ UNCHANGED nvicOwn

(* The bound on nesting, for exceptions that the step sends. *)
NestingBound == C!Room(irq'.flags \ irq.flags)

(* One access of an NVIC register. *)
RegisterAccess ==
    \/ \E s \in SUBSET Irqs : N!WriteIser(s) \/ N!WriteIcer(s) \/ N!WriteIspr(s)
    \/ N!WriteIcsr(TRUE, FALSE)
    \/ \E on \in BOOLEAN : N!WriteStkCtrl(on, on, FALSE)
    \/ \E n \in Loads : N!WriteStkLoad(n)

Store ==
    /\ \E c \in Code : C!DeviceAccess(c)
    /\ RegisterAccess
    /\ NestingBound
    /\ owed' = owed \cup {k \in Irqs : /\ EXCEPTION_IRQ0 \in irq'.flags
                                       /\ irq'.ext = EXCEPTION_IRQ0 + k}

CpuThread == Core \/ Store

(* systick_thread runs while the CPU waits. *)
SysTickThread ==
    /\ N!SysTickThread
    /\ NestingBound
    /\ UNCHANGED <<cpuOwn, owed>>

Next == CpuThread \/ SysTickThread

Spec == Init /\ [][Next]_vars

(* The kernel resumes cpu_thread after every wait. *)
FairSpec == Spec /\ WF_vars(CpuThread)
-----------------------------------------------------------------------------
(* Properties *)

Entering(e) == phase = "vectoring" /\ cur = e

(***************************************************************************)
(* What CPU assumes of other processes (SysTick at any wait, at most PendSV*)
(* and one interrupt per store) is what the NVIC does: every step of the   *)
(* system is one of CPU or leaves the CPU alone.                           *)
(***************************************************************************)
ImplementsCPU == C!Spec

(***************************************************************************)
(* What NVIC assumes of the CPU (it takes flags, sets SVCall and HardFault,*)
(* and leaves the slot of the external interrupt alone) is what the CPU    *)
(* does: every step of the system is one of NVIC or leaves the NVIC alone. *)
(***************************************************************************)
ImplementsNVIC == N!Spec

(***************************************************************************)
(* An external interrupt is entered only if the NVIC has sent it and it    *)
(* has not been entered since: none is spurious, none is taken twice,      *)
(* although the CPU keeps its number and resets its flag late.             *)
(***************************************************************************)
NoSpuriousIrq ==
    phase = "stacking" /\ cur >= EXCEPTION_IRQ0 => cur - EXCEPTION_IRQ0 \in owed

(***************************************************************************)
(* What the two sides agree on: a set flag of the CPU always stands for    *)
(* the interrupt in its slot, which the NVIC sent and the CPU still owes   *)
(* its handler; the flag is reset late, but never for another interrupt    *)
(* than the one entered.                                                   *)
(***************************************************************************)
SlotInv ==
    EXCEPTION_IRQ0 \in irq.flags => irq.ext - EXCEPTION_IRQ0 \in owed

InterfaceType ==
    /\ irq \in [flags: SUBSET PendingFlags,
               ext: {0} \cup {EXCEPTION_IRQ0 + k : k \in Irqs}]
    /\ iser \subseteq Irqs /\ ispr \subseteq Irqs /\ owed \subseteq Irqs
    /\ cur \in Int

(* The inductive invariant. *)
IInv == InterfaceType /\ SlotInv /\ NoSpuriousIrq

(***************************************************************************)
(* A tick that arrives while no SysTick entry is under way is taken: no    *)
(* SVCall, PendSV or interrupt traffic keeps the handler from running.     *)
(***************************************************************************)
TickIsTaken ==
    EXCEPTION_SYSTICK \in irq.flags /\ cur # EXCEPTION_SYSTICK
      ~> Entering(EXCEPTION_SYSTICK)

(***************************************************************************)
(* An interrupt that was sent and is alone in the slot is entered, unless  *)
(* the timer keeps the core busy; if it is overwritten, the one that       *)
(* replaced it is.                                                         *)
(***************************************************************************)
SlotIsServed ==
    \/ EXCEPTION_IRQ0 \in irq.flags ~> \E k \in Irqs : Entering(EXCEPTION_IRQ0 + k)
    \/ []<>Entering(EXCEPTION_SYSTICK)

(***************************************************************************)
(* The claim of the README that exceptions and interrupts are delivered:   *)
(* an interrupt that the NVIC sent is entered, unless the timer keeps the  *)
(* core busy.                                                              *)
(***************************************************************************)
SentIrqsAreTaken ==
    \/ \A k \in Irqs : k \in owed ~> Entering(EXCEPTION_IRQ0 + k)
    \/ []<>Entering(EXCEPTION_SYSTICK)
=============================================================================
