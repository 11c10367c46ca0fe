-------------------------------- MODULE NVIC ---------------------------------
(***************************************************************************)
(* The interrupt controller and the SysTick timer of NVIC.cpp.             *)
(*                                                                         *)
(* A register access is one call of b_transport and runs to its end        *)
(* without a wait, the exceptions it sends to the CPU included.  The       *)
(* SysTick thread waits twice per period: for m_systick_wake, and for the  *)
(* period to pass.  Between two waits it runs to its end.                  *)
(*                                                                         *)
(* Data abstraction: a register of one bit per interrupt is a set of       *)
(* interrupt numbers; a count matters only in being zero or not; the       *)
(* sequence number m_systick_seq matters only in whether it has moved      *)
(* since the thread sampled it.  IPR, SHPR2, SHPR3, SHCSR, VTOR and CALIB  *)
(* are read back by software and by nothing else.                          *)
(***************************************************************************)
EXTENDS CortexM, FiniteSets

CONSTANTS
    Irqs,          \* external interrupt numbers
    Loads,         \* reload values software writes
    CpuFlags       \* flags that the CPU sets by itself

ASSUME IrqAssumption  == Irqs \subseteq Nat /\ IsFiniteSet(Irqs)
ASSUME LoadAssumption == Loads \subseteq Nat
ASSUME FlagAssumption == CpuFlags \subseteq PendingFlags

VARIABLES
    irq,           \* the CPU end of irq_line, see CortexM
    iser,          \* enabled interrupts
    ispr,          \* pending interrupts
    pendsvset,     \* ICSR bit 28
    enable,        \* STK_CTRL bit 0
    tickint,       \* STK_CTRL bit 1
    countflag,     \* STK_CTRL bit 16
    load, val,     \* STK_LOAD, STK_VAL
    wake,          \* m_systick_wake is notified for the next delta cycle
    stale,         \* m_systick_seq differs from the value last sampled
    timer          \* "idle": waits for the event; "delay": for the period

controller == <<iser, ispr, pendsvset>>
systick == <<enable, tickint, countflag, load, val, wake, stale, timer>>
nvicVars == <<controller, systick>>
vars == <<irq, nvicVars>>

Init ==
    /\ irq = [flags |-> {}, ext |-> 0]
    /\ iser = {} /\ ispr = {} /\ pendsvset = FALSE
    /\ enable = FALSE /\ tickint = FALSE /\ countflag = FALSE
    /\ load = 0 /\ val = 0
    /\ wake = FALSE /\ stale = FALSE /\ timer = "idle"
-----------------------------------------------------------------------------
(* Mutant: the highest number wins. *)
HighestNumber(active) ==
    IF active = {} THEN 0
    ELSE CHOOSE k \in active : \A j \in active : k >= j

(* get_highest_priority_pending_exception: 0 also when nothing is pending. *)
HighestPriority(active) ==
    IF active = {} THEN 0
    ELSE CHOOSE k \in active : \A j \in active : k <= j

(***************************************************************************)
(* update_interrupt_state, the end of every write: one interrupt at most   *)
(* goes to the CPU and loses its pending bit.  i and p are `irq' and the   *)
(* pending set that the write has left.                                    *)
(***************************************************************************)
Forwarded(p) == LET k == HighestPriority(iser' \cap p) IN {k} \ {0}

(* Mutant: exception numbers of interrupts are off by one. *)
UpdateOffByOne(i, p) ==
    /\ ispr' = p \ Forwarded(p)
    /\ irq' = IF Forwarded(p) = {} THEN i
              ELSE ReceiveException(i,
                     EXCEPTION_IRQ0 + 1 + HighestPriority(iser' \cap p))

UpdateInterruptState(i, p) ==
    /\ ispr' = p \ Forwarded(p)
    /\ irq' = IF Forwarded(p) = {} THEN i
              ELSE ReceiveException(i,
                     EXCEPTION_IRQ0 + HighestPriority(iser' \cap p))

(***************************************************************************)
(* The delta cycle in which the event of an access fires comes before the  *)
(* next access of the CPU, which is at least one access delay later.       *)
(***************************************************************************)
Access == ~(wake /\ stale)

(* Mutant: interrupts that were pending before they are enabled are not sent. *)
WriteIserWithoutUpdate(s) ==
    /\ Access
    /\ iser' = iser \cup s
    /\ UNCHANGED <<irq, ispr, pendsvset, systick>>

WriteIser(s) ==
    /\ Access
    /\ iser' = iser \cup s
    /\ UpdateInterruptState(irq, ispr)
    /\ UNCHANGED <<pendsvset, systick>>

WriteIcer(s) ==
    /\ Access
    /\ iser' = iser \ s
    /\ UpdateInterruptState(irq, ispr)
    /\ UNCHANGED <<pendsvset, systick>>

(* Also trigger_irq, for one interrupt. *)
WriteIspr(s) ==
    /\ Access
    /\ iser' = iser
    /\ UpdateInterruptState(irq, ispr \cup s)
    /\ UNCHANGED <<pendsvset, systick>>

WriteIcpr(s) ==
    /\ Access
    /\ iser' = iser
    /\ UpdateInterruptState(irq, ispr \ s)
    /\ UNCHANGED <<pendsvset, systick>>

(* PENDSVSET pends PendSV at the CPU; PENDSVCLR does not reach the CPU. *)
WriteIcsr(set, clear) ==
    /\ Access
    /\ iser' = iser
    /\ pendsvset' = ((pendsvset \/ set) /\ ~clear)
    /\ UpdateInterruptState(
         IF set THEN ReceiveException(irq, EXCEPTION_PENDSV) ELSE irq, ispr)
    /\ UNCHANGED systick

(* A register that only stores its value, or ignores it. *)
WriteOther ==
    /\ Access
    /\ iser' = iser
    /\ UpdateInterruptState(irq, ispr)
    /\ UNCHANGED <<pendsvset, systick>>

(* m_systick_seq++ and m_systick_wake.notify. *)
Reprogram == wake' = TRUE /\ stale' = TRUE

(* Mutant: COUNTFLAG survives the disabling of the timer. *)
WriteStkCtrlKeepsFlag(e, t, f) ==
    /\ Access
    /\ enable' = e
    /\ tickint' = t
    /\ countflag' = (countflag \/ f)
    /\ Reprogram
    /\ iser' = iser
    /\ UpdateInterruptState(irq, ispr)
    /\ UNCHANGED <<pendsvset, load, val, timer>>

WriteStkCtrl(e, t, f) ==
    /\ Access
    /\ enable' = e
    /\ tickint' = t
    /\ countflag' = ((countflag \/ f) /\ e)
    /\ Reprogram
    /\ iser' = iser
    /\ UpdateInterruptState(irq, ispr)
    /\ UNCHANGED <<pendsvset, load, val, timer>>

WriteStkLoad(n) ==
    /\ Access
    /\ load' = n
    /\ Reprogram
    /\ iser' = iser
    /\ UpdateInterruptState(irq, ispr)
    /\ UNCHANGED <<pendsvset, enable, tickint, countflag, val, timer>>

WriteStkVal(n) ==
    /\ Access
    /\ val' = n
    /\ Reprogram
    /\ iser' = iser
    /\ UpdateInterruptState(irq, ispr)
    /\ UNCHANGED <<pendsvset, enable, tickint, countflag, load, timer>>

(* handle_read: reading STK_CTRL clears COUNTFLAG, no other read matters. *)
ReadStkCtrl ==
    /\ Access
    /\ countflag' = FALSE
    /\ UNCHANGED <<irq, controller, enable, tickint, load, val, wake, stale,
                   timer>>
-----------------------------------------------------------------------------
(* systick_thread *)

(* From one wait for the event to the next wait of the thread. *)
StartPeriod ==
    /\ timer = "idle"
    /\ stale' = FALSE
    /\ IF enable /\ load # 0
       THEN timer' = "delay" /\ val' = IF val = 0 THEN load ELSE val
       ELSE UNCHANGED <<timer, val>>

(* The event fires.  Nobody waits for it while the thread is in its delay. *)
SysTickWake ==
    /\ wake
    /\ wake' = FALSE
    /\ \/ StartPeriod
       \/ timer = "delay" /\ UNCHANGED <<timer, val, stale>>
    /\ UNCHANGED <<irq, controller, enable, tickint, countflag, load>>

(* trigger_systick *)
TriggerSysTick ==
    irq' = IF tickint THEN ReceiveException(irq, EXCEPTION_SYSTICK) ELSE irq

(* Mutant: the next period is not started. *)
SysTickTimeoutOnce ==
    /\ timer = "delay"
    /\ timer' = "idle"
    /\ \/ stale /\ UNCHANGED <<irq, countflag, val>>
       \/ /\ ~stale
          /\ countflag' = TRUE
          /\ val' = load
          /\ TriggerSysTick
    /\ UNCHANGED <<controller, enable, tickint, load, wake, stale>>

SysTickTimeout ==
    /\ timer = "delay"
    /\ timer' = "idle"
    /\ \/ stale /\ UNCHANGED <<irq, countflag, val, wake>>
       \/ /\ ~stale
          /\ countflag' = TRUE
          /\ val' = load
          /\ TriggerSysTick
          /\ wake' = (wake \/ enable)
    /\ UNCHANGED <<controller, enable, tickint, load, stale>>

SysTickThread == SysTickWake \/ SysTickTimeout
-----------------------------------------------------------------------------
(* The CPU takes pending exceptions, and sets flags of its own. *)
CpuSide ==
    /\ \E fl \in SUBSET (irq.flags \cup CpuFlags) :
         irq' = [irq EXCEPT !.flags = fl]
    /\ UNCHANGED nvicVars

WriteController ==
    \/ \E s \in SUBSET Irqs :
         WriteIser(s) \/ WriteIcer(s) \/ WriteIspr(s) \/ WriteIcpr(s)
    \/ \E set, clear \in BOOLEAN : WriteIcsr(set, clear)
    \/ WriteOther

WriteSysTick ==
    \/ \E e, t, f \in BOOLEAN : WriteStkCtrl(e, t, f)
    \/ \E n \in Loads : WriteStkLoad(n) \/ WriteStkVal(n)

Next ==
    \/ WriteController
    \/ WriteSysTick
    \/ ReadStkCtrl
    \/ SysTickThread
    \/ CpuSide

Spec == Init /\ [][Next]_vars

(* Time passes: the kernel fires events and ends delays. *)
KernelFairness == WF_vars(SysTickWake) /\ WF_vars(SysTickTimeout)

FairSpec == Spec /\ KernelFairness

-----------------------------------------------------------------------------
(* Properties *)

TypeOK ==
    /\ irq \in [flags: SUBSET PendingFlags,
               ext: {0} \cup {EXCEPTION_IRQ0 + k : k \in Irqs}]
    /\ iser \subseteq Irqs /\ ispr \subseteq Irqs
    /\ load \in Loads \cup {0} /\ val \in Loads \cup {0}
    /\ {pendsvset, enable, tickint, countflag, wake, stale} \subseteq BOOLEAN
    /\ timer \in {"idle", "delay"}

(***************************************************************************)
(* A timer whose settings the thread has seen is running: the period is    *)
(* being waited for, or the event that starts the next one is on its way.  *)
(***************************************************************************)
SeenTimerIsScheduled ==
    enable /\ load # 0 /\ ~stale => wake \/ timer = "delay"

(***************************************************************************)
(* COUNTFLAG is never set for a timer that is off: a period that runs out  *)
(* after software disabled the timer is ignored (m_systick_seq).           *)
(***************************************************************************)
CountflagOnlyWhenEnabled == countflag => enable

(***************************************************************************)
(* Why an interrupt that is enabled and pending has not been sent: the last*)
(* write sent one of a lower number, which is still the last in the slot;  *)
(* or IRQ0 is enabled and pending.  The code takes its number for "none",  *)
(* so it never sends IRQ0, and sends no other as long as IRQ0 is first.    *)
(***************************************************************************)
WaitsInOrder ==
    /\ irq.ext # EXCEPTION_IRQ0
    /\ \A k \in iser \cap ispr :
         \/ 0 \in iser \cap ispr
         \/ /\ irq.ext - EXCEPTION_IRQ0 \in iser \ ispr
            /\ irq.ext - EXCEPTION_IRQ0 < k

(***************************************************************************)
(* No interrupt vanishes, and none is forgotten: one that stops being      *)
(* pending either is in the slot of the CPU, with the flag set, or was     *)
(* cleared through ICPR; one that stays, in whatever order it was pended   *)
(* and enabled, waits behind a lower one that was sent, or behind IRQ0.    *)
(***************************************************************************)
PendingIrqNotLost ==
    [][/\ \A k \in ispr \ ispr' :
            \/ irq'.ext = EXCEPTION_IRQ0 + k /\ EXCEPTION_IRQ0 \in irq'.flags
            \/ \E s \in SUBSET Irqs : k \in s /\ WriteIcpr(s)
       /\ WaitsInOrder']_vars

(***************************************************************************)
(* What reaches the CPU is enabled, and no lower numbered interrupt is     *)
(* enabled and pending at that moment.                                     *)
(***************************************************************************)
LowestNumberFirst ==
    [][irq'.ext # irq.ext =>
         /\ irq'.ext - EXCEPTION_IRQ0 \in iser'
         /\ \A j \in iser' \cap ispr' : irq'.ext - EXCEPTION_IRQ0 < j]_vars

(***************************************************************************)
(* A timer that software has set up and leaves alone raises SysTick over   *)
(* and over: each period ends and starts the next one.                     *)
(***************************************************************************)
SteadyTimerTicks ==
    <>[](enable /\ tickint /\ load # 0 /\ ~stale)
       => []<>(EXCEPTION_SYSTICK \in irq.flags)

(***************************************************************************)
(* A claim of a comment that the code does not keep.                       *)
(***************************************************************************)

(***************************************************************************)
(* "Wakes/retimes the SysTick scheduler": an enabled timer with a reload   *)
(* value is scheduled, also after it was reprogrammed during a period.     *)
(***************************************************************************)
TimerIsScheduled ==
    enable /\ load # 0 => wake \/ timer = "delay"
=============================================================================
