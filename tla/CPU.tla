--------------------------------- MODULE CPU ---------------------------------
(***************************************************************************)
(* The exception machinery of the Cortex-M core: CPU::cpu_thread, exception*)
(* entry (check_pending_exceptions, handle_exception, stacking, vector     *)
(* fetch), exception return (try_exception_return, reached from BX and     *)
(* from POP {PC}) and the banked registers of Registers.h.                 *)
(*                                                                         *)
(* The SystemC kernel is cooperative, so another process can run only      *)
(* where cpu_thread waits.  Such a process changes nothing of the CPU but  *)
(* `irq'.  The waits between which `irq' is read or written bound the      *)
(* phases:                                                                 *)
(*   check      top of the loop, about to call check_pending_exceptions    *)
(*   stacking   inside push_exception_stack_frame                          *)
(*   vectoring  inside the read of the vector                              *)
(*   execute    the instruction is being fetched                           *)
(*                                                                         *)
(* Data abstraction: words are small naturals, R0-R3 and R12 are one word  *)
(* (gpr), xPSR is its IPSR field, an address counts words.                 *)
(***************************************************************************)
EXTENDS CortexM, Sequences, FiniteSets

CONSTANTS
    Code,          \* code addresses the program runs at
    Values,        \* values of the scratch registers
    VectorTable,   \* exception number -> handler address, 0 for none
    Async,         \* exceptions that other processes raise on irq_line
    Stores,        \* sequences of exceptions one store to the NVIC can raise
    MaskValues,    \* values the program gives PRIMASK
    PspTop,        \* process stack: words 0 .. PspTop - 1
    MspTop,        \* main stack: words PspTop .. MspTop - 1
    MaxNest        \* bound: activations stacked at once

(* Words of the stacked frame. *)
FrameSize == 4

Exceptions == DOMAIN VectorTable

Addr == 0 .. MspTop - 1

ASSUME CodeAssumption ==
    /\ Code \subseteq 1 .. EXC_RETURN - 1
    /\ Code # {}
    /\ Values \subseteq Nat
    /\ Values # {}
    /\ MaskValues \subseteq BOOLEAN

ASSUME VectorAssumption ==
    /\ Exceptions \subseteq Nat \ {0}
    /\ PendingFlags \subseteq Exceptions
    /\ VectorTable \in [Exceptions -> Code \cup {0}]
    /\ Async \subseteq Exceptions
    /\ Stores \subseteq Seq(Exceptions)
    /\ \A s \in Stores : Len(s) \in {0, 1, 2}   \* at most PendSV and one IRQ

(* Every activation takes a frame and at most one pushed word. *)
ASSUME StackAssumption ==
    /\ PspTop \in Nat /\ MspTop \in Nat /\ MaxNest \in Nat
    /\ PspTop >= FrameSize
    /\ MspTop >= PspTop + (FrameSize + 1) * MaxNest

VARIABLES
    irq,           \* [flags, ext]: m_*_pending, m_pending_external_exception
    phase,         \* where cpu_thread is
    cur,           \* the exception being entered, 0 when none
    pc, lr, gpr,   \* registers
    ipsr,          \* exception number, 0 in Thread mode
    spsel,         \* CONTROL.SPSEL
    msp, psp,      \* banked stack pointers
    primask,       \* PRIMASK
    mem,           \* stack memory
    activations    \* history: one record per exception entered, not returned

registers == <<pc, lr, gpr, ipsr, spsel, msp, psp, primask>>
vars == <<irq, phase, cur, registers, mem, activations>>
-----------------------------------------------------------------------------
(* Registers.h *)

(* is_in_exception *)
InHandler == ipsr # 0

(* get_current_sp: Handler mode always uses MSP. *)
CurrentSP == IF InHandler THEN msp ELSE IF spsel THEN psp ELSE msp

(***************************************************************************)
(* The software-visible context an exception must preserve.  SPSEL is part *)
(* of it in Thread mode only, where it selects the stack.                  *)
(***************************************************************************)
Context == [gpr |-> gpr, lr |-> lr, pc |-> pc, psr |-> ipsr,
            sp |-> CurrentSP, psel |-> spsel /\ ~InHandler]

Top == activations[Len(activations)]
-----------------------------------------------------------------------------
(* reset_from_vector_table: registers reset, SP and PC from the table. *)
Init ==
    /\ irq = [flags |-> {}, ext |-> 0]
    /\ phase = "check"
    /\ cur = 0
    /\ pc \in Code
    /\ lr = 0
    /\ gpr \in Values
    /\ ipsr = 0
    /\ spsel = FALSE
    /\ msp = MspTop
    /\ psp = 0
    /\ primask = FALSE
    /\ mem = [a \in Addr |-> 0]
    /\ activations = <<>>
-----------------------------------------------------------------------------
(* The bound on nesting: what raises an exception leaves stack for it. *)

Unvectored(e) == VectorTable[e] = 0

(* The flags that remain once the entry in progress is over. *)
Backlog ==
    IF phase = "vectoring"
    THEN (irq.flags \ {FlagOf(cur)})
           \cup {f \in {EXCEPTION_HARD_FAULT} : Unvectored(cur) /\ cur # f}
    ELSE irq.flags

(* Entries that a set of flags can cause: an unvectored exception is       *)
(* followed by a HardFault.                                                *)
Demand(flags) ==
    Cardinality(flags)
      + Cardinality({f \in flags \ {EXCEPTION_HARD_FAULT} :
                       \E e \in Exceptions : FlagOf(e) = f /\ Unvectored(e)})

Room(flags) == Len(activations) + Demand(Backlog \cup flags) <= MaxNest
-----------------------------------------------------------------------------
(* Exception entry *)

(***************************************************************************)
(* check_pending_exceptions: the first flag in the order of the code wins. *)
(* PRIMASK, priorities and the active exception are not looked at.         *)
(***************************************************************************)
Highest(f) == f \in irq.flags /\ \A g \in irq.flags : Rank(f) <= Rank(g)

(* handle_irq: the slot when NVIC filled it, IRQ0 otherwise. *)
PendingIrq ==
    IF irq.ext >= EXCEPTION_IRQ0 THEN irq.ext ELSE EXCEPTION_IRQ0

CheckPendingExceptions(f) ==
    /\ phase = "check"
    /\ Highest(f)
    /\ Len(activations) < MaxNest                 \* bound
    /\ cur' = IF f = EXCEPTION_IRQ0 THEN PendingIrq ELSE f
    /\ phase' = "stacking"
    /\ UNCHANGED <<irq, registers, mem, activations>>

NothingPending ==
    /\ phase = "check"
    /\ irq.flags = {}
    /\ phase' = "execute"
    /\ UNCHANGED <<irq, cur, registers, mem, activations>>

(* push_exception_stack_frame: the stack of the interrupted code, and the  *)
(* EXC_RETURN value left in LR for the handler.                            *)
ThreadUsedPsp == ~InHandler /\ spsel

(* Mutant: every frame goes to the main stack. *)
StackingSPMain == msp

StackingSP == IF ThreadUsedPsp THEN psp ELSE msp

ExcReturnValue ==
    IF ThreadUsedPsp THEN RETURN_THREAD_PSP
    ELSE IF InHandler THEN RETURN_HANDLER_MSP
    ELSE RETURN_THREAD_MSP

(* Mutant: IPSR is set before xPSR is stacked. *)
PushFrameNewPsr(m, sp) ==
    [m EXCEPT ![sp - 1] = cur, ![sp - 2] = pc,
              ![sp - 3] = lr,  ![sp - 4] = gpr]

(* Mutant: LR is set before LR is stacked. *)
PushFrameNewLr(m, sp) ==
    [m EXCEPT ![sp - 1] = ipsr, ![sp - 2] = pc,
              ![sp - 3] = ExcReturnValue, ![sp - 4] = gpr]

PushFrame(m, sp) ==
    [m EXCEPT ![sp - 1] = ipsr, ![sp - 2] = pc,
              ![sp - 3] = lr,   ![sp - 4] = gpr]

(* handle_exception up to the vector fetch. *)
Stacking ==
    /\ phase = "stacking"
    /\ mem' = PushFrame(mem, StackingSP)
    /\ IF ThreadUsedPsp
       THEN psp' = psp - FrameSize /\ msp' = msp
       ELSE msp' = msp - FrameSize /\ psp' = psp
    /\ lr' = ExcReturnValue
    /\ ipsr' = cur
    /\ spsel' = FALSE
    /\ phase' = "vectoring"
    /\ activations' = Append(activations,
          [exc |-> cur, ret |-> ExcReturnValue, ctx |-> Context,
           at |-> StackingSP - FrameSize, base |-> msp', saved |-> 0])
    /\ UNCHANGED <<irq, cur, pc, gpr, primask>>

(* Mutant: no HardFault. *)
EscalationNone(e) == {}

(* trigger_exception(EXCEPTION_HARD_FAULT) when the vector is 0. *)
Escalation(e) == IF Unvectored(e) THEN {EXCEPTION_HARD_FAULT} \ {e} ELSE {}

(* Mutant: every pending flag is reset. *)
VectoringClearsAll ==
    /\ phase = "vectoring"
    /\ pc' = IF Unvectored(cur) THEN pc ELSE VectorTable[cur]
    /\ irq' = [irq EXCEPT !.flags = Escalation(cur)]
    /\ phase' = "execute"
    /\ cur' = 0
    /\ UNCHANGED <<lr, gpr, ipsr, spsel, msp, psp, primask, mem,
                   activations>>

(* Mutant: m_irq_pending is not reset. *)
VectoringKeepsIrq ==
    /\ phase = "vectoring"
    /\ pc' = IF Unvectored(cur) THEN pc ELSE VectorTable[cur]
    /\ irq' = [irq EXCEPT !.flags = (@ \cup Escalation(cur))
                                      \ ({FlagOf(cur)} \ {EXCEPTION_IRQ0})]
    /\ phase' = "execute"
    /\ cur' = 0
    /\ UNCHANGED <<lr, gpr, ipsr, spsel, msp, psp, primask, mem,
                   activations>>

(* Mutant: the slot is emptied with the flag. *)
VectoringClearsSlot ==
    /\ phase = "vectoring"
    /\ pc' = IF Unvectored(cur) THEN pc ELSE VectorTable[cur]
    /\ irq' = [flags |-> (irq.flags \cup Escalation(cur)) \ {FlagOf(cur)},
               ext |-> 0]
    /\ phase' = "execute"
    /\ cur' = 0
    /\ UNCHANGED <<lr, gpr, ipsr, spsel, msp, psp, primask, mem,
                   activations>>

(***************************************************************************)
(* The rest of handle_exception, and the reset of the flag, which          *)
(* check_pending_exceptions does only after handle_exception returns.      *)
(***************************************************************************)
Vectoring ==
    /\ phase = "vectoring"
    /\ pc' = IF Unvectored(cur) THEN pc ELSE VectorTable[cur]
    /\ irq' = [irq EXCEPT !.flags = (@ \cup Escalation(cur)) \ {FlagOf(cur)}]
    /\ phase' = "execute"
    /\ cur' = 0
    /\ UNCHANGED <<lr, gpr, ipsr, spsel, msp, psp, primask, mem,
                   activations>>
-----------------------------------------------------------------------------
(* Instructions.  Each one ends with the wait at the bottom of the loop.   *)

Executes == phase = "execute" /\ phase' = "check"

(* Any instruction that changes only scratch registers and PC. *)
Plain(c, v) ==
    /\ Executes
    /\ pc' = c
    /\ gpr' = v
    /\ UNCHANGED <<irq, cur, lr, ipsr, spsel, msp, psp, primask, mem,
                   activations>>

(* BL: LR gets the return address r. *)
BranchLink(c, r) ==
    /\ Executes
    /\ pc' = c
    /\ lr' = r
    /\ UNCHANGED <<irq, cur, gpr, ipsr, spsel, msp, psp, primask, mem,
                   activations>>

(* SVC: execute_exception calls CPU::request_svc. *)
Svc(c) ==
    /\ Executes
    /\ Room({EXCEPTION_SVCALL})                   \* bound
    /\ pc' = c
    /\ irq' = [irq EXCEPT !.flags = @ \cup {EXCEPTION_SVCALL}]
    /\ UNCHANGED <<cur, lr, gpr, ipsr, spsel, msp, psp, primask, mem,
                   activations>>

(* The exceptions of s arrive on irq_line one after the other. *)
ReceiveAll(i, s) ==
    IF Len(s) = 0 THEN i
    ELSE IF Len(s) = 1 THEN ReceiveException(i, s[1])
    ELSE ReceiveException(ReceiveException(i, s[1]), s[2])

(* A load or store: what it does to the CPU itself. *)
DeviceAccess(c) ==
    /\ Executes
    /\ pc' = c
    /\ UNCHANGED <<cur, lr, gpr, ipsr, spsel, msp, psp, primask, mem,
                   activations>>

(* A store to an NVIC register: the NVIC may send exceptions meanwhile. *)
DeviceStore(c, s) ==
    /\ DeviceAccess(c)
    /\ Room({FlagOf(s[i]) : i \in DOMAIN s})      \* bound
    /\ irq' = ReceiveAll(irq, s)

(* CPSIE I, CPSID I, MSR PRIMASK. *)
SetPrimask(c, m) ==
    /\ Executes
    /\ pc' = c
    /\ primask' = m
    /\ UNCHANGED <<irq, cur, lr, gpr, ipsr, spsel, msp, psp, mem, activations>>

(* MSR PSP: software sets up its process stack while it runs on MSP. *)
MsrPsp(c) ==
    /\ Executes
    /\ ~InHandler /\ ~spsel
    /\ pc' = c
    /\ psp' = PspTop
    /\ UNCHANGED <<irq, cur, lr, gpr, ipsr, spsel, msp, primask, mem,
                   activations>>

(* MSR CONTROL, accepted in either mode.  Software selects the process     *)
(* stack only after it has set it up.                                      *)
MsrControl(c, s) ==
    /\ Executes
    /\ s => psp # 0
    /\ pc' = c
    /\ spsel' = s
    /\ UNCHANGED <<irq, cur, lr, gpr, ipsr, msp, psp, primask, mem,
                   activations>>

(* PUSH {LR} in the prologue of a handler, or of a function it calls. *)
PushLr(c) ==
    /\ Executes
    /\ InHandler /\ Top.saved = 0
    /\ pc' = c
    /\ mem' = [mem EXCEPT ![msp - 1] = lr]
    /\ msp' = msp - 1
    /\ activations' = [activations EXCEPT ![Len(activations)].saved = lr]
    /\ UNCHANGED <<irq, cur, lr, gpr, ipsr, spsel, psp, primask>>

(***************************************************************************)
(* try_exception_return(v) with MSP at m: unstack from the stack v names,  *)
(* restore the registers, and on return to Thread mode set SPSEL from v.   *)
(***************************************************************************)
ToThread(v) == v \in {RETURN_THREAD_MSP, RETURN_THREAD_PSP}
UsePsp(v)   == v = RETURN_THREAD_PSP

(* Mutant: CONTROL is not written back. *)
ReturnKeepsSpsel(v, m) ==
    LET sp == IF UsePsp(v) THEN psp ELSE m IN
    /\ gpr' = mem[sp]
    /\ lr' = mem[sp + 1]
    /\ pc' = mem[sp + 2]
    /\ ipsr' = mem[sp + 3]
    /\ IF UsePsp(v)
       THEN psp' = psp + FrameSize /\ msp' = m
       ELSE msp' = m + FrameSize /\ psp' = psp
    /\ spsel' = spsel
    /\ activations' = SubSeq(activations, 1, Len(activations) - 1)
    /\ UNCHANGED <<irq, cur, primask, mem>>

(* Mutant: the last word of a frame on the main stack is not popped. *)
ReturnLeavesWord(v, m) ==
    LET sp == IF UsePsp(v) THEN psp ELSE m IN
    /\ gpr' = mem[sp]
    /\ lr' = mem[sp + 1]
    /\ pc' = mem[sp + 2]
    /\ ipsr' = mem[sp + 3]
    /\ IF UsePsp(v)
       THEN psp' = psp + FrameSize /\ msp' = m
       ELSE msp' = m + FrameSize - 1 /\ psp' = psp
    /\ spsel' = IF ToThread(v) THEN UsePsp(v) ELSE spsel
    /\ activations' = SubSeq(activations, 1, Len(activations) - 1)
    /\ UNCHANGED <<irq, cur, primask, mem>>

TryExceptionReturn(v, m) ==
    LET sp == IF UsePsp(v) THEN psp ELSE m IN
    /\ gpr' = mem[sp]
    /\ lr' = mem[sp + 1]
    /\ pc' = mem[sp + 2]
    /\ ipsr' = mem[sp + 3]
    /\ IF UsePsp(v)
       THEN psp' = psp + FrameSize /\ msp' = m
       ELSE msp' = m + FrameSize /\ psp' = psp
    /\ spsel' = IF ToThread(v) THEN UsePsp(v) ELSE spsel
    /\ activations' = SubSeq(activations, 1, Len(activations) - 1)
    /\ UNCHANGED <<irq, cur, primask, mem>>

(***************************************************************************)
(* BX LR: an exception return for the three values, a branch otherwise.    *)
(* By the calling convention a handler returns with a balanced stack.      *)
(***************************************************************************)
BxLr ==
    /\ Executes
    /\ lr # 0
    /\ \/ /\ lr \in ExcReturns
          /\ activations = <<>> \/ Top.saved = 0
          /\ TryExceptionReturn(lr, msp)
       \/ /\ lr \notin ExcReturns
          /\ pc' = lr
          /\ UNCHANGED <<irq, cur, lr, gpr, ipsr, spsel, msp, psp, primask,
                         mem, activations>>

(***************************************************************************)
(* POP {PC} of the word PUSH {LR} saved: SP moves past the word before     *)
(* try_exception_return reads it.                                          *)
(***************************************************************************)
PopPc ==
    /\ Executes
    /\ InHandler /\ Top.saved # 0
    /\ LET data == mem[msp] IN
       \/ data \in ExcReturns /\ TryExceptionReturn(data, msp + 1)
       \/ /\ data \notin ExcReturns
          /\ pc' = data
          /\ msp' = msp + 1
          /\ activations' = [activations EXCEPT
                               ![Len(activations)].saved = 0]
          /\ UNCHANGED <<irq, cur, lr, gpr, ipsr, spsel, psp, primask, mem>>
-----------------------------------------------------------------------------
(* Another process calls b_transport on irq_line while the CPU waits. *)
Raise(e) ==
    /\ Room({FlagOf(e)})                          \* bound
    /\ irq' = ReceiveException(irq, e)
    /\ UNCHANGED <<phase, cur, registers, mem, activations>>

Entry ==
    \/ \E f \in PendingFlags : CheckPendingExceptions(f)
    \/ NothingPending
    \/ Stacking
    \/ Vectoring

Instruction ==
    \/ \E c \in Code :
         \/ \E v \in Values : Plain(c, v)
         \/ \E r \in Code : BranchLink(c, r)
         \/ Svc(c)
         \/ \E s \in Stores : DeviceStore(c, s)
         \/ \E m \in MaskValues : SetPrimask(c, m)
         \/ MsrPsp(c)
         \/ \E s \in BOOLEAN : MsrControl(c, s)
         \/ PushLr(c)
    \/ BxLr
    \/ PopPc

CpuThread == Entry \/ Instruction

Next == CpuThread \/ \E e \in Async : Raise(e)

Spec == Init /\ [][Next]_vars

(* The kernel resumes cpu_thread after every wait. *)
FairSpec == Spec /\ WF_vars(CpuThread)
-----------------------------------------------------------------------------
(* Properties *)

Entering(e) == phase = "vectoring" /\ cur = e

ContextType == [gpr: Nat, lr: Nat, pc: Nat, psr: Nat, sp: Nat, psel: BOOLEAN]

Activation == [exc: Nat, ret: ExcReturns, ctx: ContextType,
               at: Nat, base: Nat, saved: Nat]

TypeOK ==
    /\ irq \in [flags: SUBSET PendingFlags, ext: Nat]
    /\ phase \in {"check", "stacking", "vectoring", "execute"}
    /\ cur \in Nat
    /\ pc \in Nat /\ lr \in Nat /\ gpr \in Nat /\ ipsr \in Nat
    /\ spsel \in BOOLEAN /\ primask \in BOOLEAN
    /\ msp \in Nat /\ psp \in Nat
    /\ mem \in [Addr -> Nat]
    /\ activations \in Seq(Activation)

(***************************************************************************)
(* An exception return gives back exactly the context that the matching    *)
(* entry interrupted: scratch registers, LR, PC, IPSR, the stack pointer   *)
(* in use and, in Thread mode, which stack that is; however deep           *)
(* exceptions nested in between, and whichever way the handler returned    *)
(* (try_exception_return undoes push_exception_stack_frame).               *)
(***************************************************************************)
ReturnRestoresContext ==
    [][Len(activations') < Len(activations) => Context' = Top.ctx]_vars

(***************************************************************************)
(* IPSR names the innermost exception entered and not yet returned from,   *)
(* and Thread mode is exactly the state with none: the IPSR word stacked   *)
(* by one entry is what the return from it restores.                       *)
(***************************************************************************)
IpsrNamesInnermost ==
    ipsr = IF activations = <<>> THEN 0 ELSE Top.exc

(***************************************************************************)
(* Back in Thread mode both stack pointers are where they were before any  *)
(* exception: entries and returns leak no stack on either bank.            *)
(***************************************************************************)
StacksBalanced ==
    activations = <<>> => msp = MspTop /\ psp \in {0, PspTop}

(***************************************************************************)
(* An EXC_RETURN value is live in LR only inside the handler it was made   *)
(* for, so BX LR in Thread mode is never taken for an exception return.    *)
(***************************************************************************)
NoStrayExcReturn ==
    lr \in ExcReturns => activations # <<>> /\ lr = Top.ret

(* The contexts that wait for a return, innermost last. *)
Interrupted == [i \in 1 .. Len(activations) |-> activations[i].ctx]

Nesting == INSTANCE ContextNesting WITH Contexts <- ContextType,
                                        context <- Context,
                                        interrupted <- Interrupted

(***************************************************************************)
(* CPU implements nested contexts: the frames in memory, the two stack     *)
(* pointers and the EXC_RETURN values are one stack of contexts, and what  *)
(* handle_exception saves try_exception_return brings back.                *)
(***************************************************************************)
ImplementsNesting == Nesting!Spec

(***************************************************************************)
(* A pending NMI is entered: whatever else is pending or arrives, the next *)
(* check_pending_exceptions picks it.                                      *)
(***************************************************************************)
NmiIsTaken ==
    EXCEPTION_NMI \in irq.flags ~> Entering(EXCEPTION_NMI)

(***************************************************************************)
(* An exception without a vector ends in the HardFault handler: the        *)
(* HardFault that handle_exception pends is entered in its turn, unless a  *)
(* storm of NMIs keeps the core busy.                                      *)
(***************************************************************************)
UnvectoredEscalates ==
    \/ (phase = "vectoring" /\ Unvectored(cur)) ~> Entering(EXCEPTION_HARD_FAULT)
    \/ []<>Entering(EXCEPTION_NMI)
=============================================================================
