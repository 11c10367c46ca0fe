---------------------------- MODULE SystemProofs ----------------------------
(***************************************************************************)
(* Proofs about ExceptionSystem: no interrupt is entered that was not      *)
(* sent, and the composition is a legal execution of CPU and of NVIC.      *)
(* Both rest on what a register access sends (AccessSends) and on SlotInv: *)
(* the flag of the CPU stands for the interrupt in its slot.               *)
(***************************************************************************)
EXTENDS ExceptionSystem, TLAPS, WellFoundedInduction

SlotType == {0} \cup {EXCEPTION_IRQ0 + k : k \in Irqs}

IrqType == [flags: SUBSET PendingFlags, ext: SlotType]

(* Interrupt k arrives at the CPU with flags i.flags. *)
WithIrq(i, k) == [flags |-> i.flags \cup {EXCEPTION_IRQ0}, ext |-> EXCEPTION_IRQ0 + k]

(* PendSV does. *)
WithPendSv(i) == [flags |-> i.flags \cup {EXCEPTION_PENDSV}, ext |-> i.ext]

-----------------------------------------------------------------------------
(* What NVIC sends *)

LEMMA LeastMember ==
  ASSUME NEW S, S \subseteq Nat, S # {}
  PROVE  \E k \in S : \A j \in S : k <= j
<1>1. PICK x \in S : \A y \in S : ~(<<y, x>> \in OpToRel(<, Nat))
  BY NatLessThanWellFounded, WFMin
<1>2. \A y \in S : ~(y < x)
  BY <1>1 DEF OpToRel
<1> QED BY <1>2

(* update_interrupt_state sends nothing, or one interrupt that exists. *)
LEMMA UpdateSends ==
  ASSUME NEW i \in IrqType, NEW p, p \subseteq Irqs, N!UpdateInterruptState(i, p)
  PROVE  /\ ispr' \subseteq Irqs
         /\ irq' = i \/ \E k \in Irqs : irq' = WithIrq(i, k)
<1> DEFINE active == iser' \cap p
           k == N!HighestPriority(active)
<1>1. ispr' \subseteq Irqs
  BY DEF N!UpdateInterruptState
<1>2. CASE k = 0
  <2>1. irq' = i
    BY <1>2 DEF N!UpdateInterruptState, N!Forwarded
  <2> QED BY <1>1, <2>1
<1>3. CASE k # 0
  <2>1. active # {}
    BY <1>3 DEF N!HighestPriority
  <2>2. \E m \in active : \A j \in active : m <= j
    BY <2>1, LeastMember, SystemAssumption
  <2>3. k \in active
    BY <2>1, <2>2 DEF N!HighestPriority
  <2>4. k \in Irqs /\ k \in Nat
    BY <2>3, SystemAssumption
  <2>5. irq' = N!ReceiveException(i, N!EXCEPTION_IRQ0 + k)
    BY <1>3 DEF N!UpdateInterruptState, N!Forwarded
  <2> HIDE DEF k
  <2>6. irq' = WithIrq(i, k)
    BY <2>4, <2>5 DEF N!ReceiveException, WithIrq, N!LEGACY_IRQ, N!EXCEPTION_NMI, N!EXCEPTION_HARD_FAULT,
       N!EXCEPTION_PENDSV, N!EXCEPTION_SYSTICK, N!EXCEPTION_IRQ0, EXCEPTION_IRQ0
  <2> QED BY <1>1, <2>4, <2>6
<1> QED BY <1>2, <1>3

(* One register access sends nothing, one interrupt, PendSV, or both. *)
LEMMA AccessSends ==
  ASSUME InterfaceType, RegisterAccess
  PROVE  /\ iser' \subseteq Irqs /\ ispr' \subseteq Irqs
         /\ \E i \in {irq, WithPendSv(irq)} : irq' = i \/ \E k \in Irqs : irq' = WithIrq(i, k)
<1>1. irq \in IrqType /\ WithPendSv(irq) \in IrqType
  BY DEF InterfaceType, IrqType, SlotType, WithPendSv, PendingFlags, EXCEPTION_PENDSV
<1>2. ASSUME NEW s \in SUBSET Irqs, N!WriteIser(s) \/ N!WriteIcer(s) \/ N!WriteIspr(s)
      PROVE  /\ iser' \subseteq Irqs
             /\ \E p \in SUBSET Irqs : N!UpdateInterruptState(irq, p)
  BY <1>2 DEF InterfaceType, N!WriteIser, N!WriteIcer, N!WriteIspr
<1>3. ASSUME N!WriteIcsr(TRUE, FALSE)
      PROVE  /\ iser' \subseteq Irqs
             /\ N!UpdateInterruptState(WithPendSv(irq), ispr) /\ ispr \subseteq Irqs
  <2>1. N!ReceiveException(irq, N!EXCEPTION_PENDSV) = WithPendSv(irq)
    BY <1>1 DEF IrqType, WithPendSv, N!ReceiveException, N!LEGACY_IRQ, N!EXCEPTION_NMI, N!EXCEPTION_HARD_FAULT,
       N!EXCEPTION_PENDSV, N!EXCEPTION_SYSTICK, N!EXCEPTION_IRQ0, EXCEPTION_PENDSV
  <2> QED BY <1>3, <2>1 DEF InterfaceType, N!WriteIcsr
<1>4. ASSUME NEW on \in BOOLEAN, N!WriteStkCtrl(on, on, FALSE)
      PROVE  /\ iser' \subseteq Irqs
             /\ N!UpdateInterruptState(irq, ispr) /\ ispr \subseteq Irqs
  BY <1>4 DEF InterfaceType, N!WriteStkCtrl
<1>5. ASSUME NEW n \in Loads, N!WriteStkLoad(n)
      PROVE  /\ iser' \subseteq Irqs
             /\ N!UpdateInterruptState(irq, ispr) /\ ispr \subseteq Irqs
  BY <1>5 DEF InterfaceType, N!WriteStkLoad
<1>6. /\ iser' \subseteq Irqs
      /\ \E i \in {irq, WithPendSv(irq)}, p \in SUBSET Irqs : N!UpdateInterruptState(i, p)
  BY <1>2, <1>3, <1>4, <1>5 DEF RegisterAccess
<1>7. PICK i \in {irq, WithPendSv(irq)}, p \in SUBSET Irqs : N!UpdateInterruptState(i, p)
  BY <1>6
<1> QED BY <1>1, <1>6, <1>7, UpdateSends

(* The SysTick thread sends nothing or SysTick. *)
LEMMA TickSends ==
  ASSUME InterfaceType, N!SysTickThread
  PROVE  /\ iser' = iser /\ ispr' = ispr
         /\ irq' \in {irq, [irq EXCEPT !.flags = @ \cup {EXCEPTION_SYSTICK}]}
<1>1. N!ReceiveException(irq, N!EXCEPTION_SYSTICK) = [irq EXCEPT !.flags = @ \cup {EXCEPTION_SYSTICK}]
  BY DEF InterfaceType, N!ReceiveException, N!LEGACY_IRQ, N!EXCEPTION_NMI, N!EXCEPTION_HARD_FAULT,
     N!EXCEPTION_PENDSV, N!EXCEPTION_SYSTICK, N!EXCEPTION_IRQ0, EXCEPTION_SYSTICK
<1>2. irq' \in {irq, N!ReceiveException(irq, N!EXCEPTION_SYSTICK)}
  BY DEF N!SysTickThread, N!SysTickWake, N!SysTickTimeout, N!TriggerSysTick
<1> QED BY <1>1, <1>2 DEF N!SysTickThread, N!SysTickWake, N!SysTickTimeout, N!controller

-----------------------------------------------------------------------------
(* The invariant *)

LEMMA InitIInv == Init => IInv
  BY DEF Init, C!Init, N!Init, IInv, InterfaceType, SlotInv, NoSpuriousIrq, EXCEPTION_IRQ0

(* cpu_thread picks an exception: the slot is read while its flag is set. *)
LEMMA CheckStep ==
  ASSUME IInv, NEW f \in C!PendingFlags, C!CheckPendingExceptions(f), owed' = owed, UNCHANGED nvicOwn
  PROVE  IInv'
<1>1. f \in {2, 3, 11, 14, 15, 16} /\ f \in irq.flags
  BY DEF C!PendingFlags, C!CheckPendingExceptions, C!Highest, C!EXCEPTION_NMI, C!EXCEPTION_HARD_FAULT,
     C!EXCEPTION_SVCALL, C!EXCEPTION_PENDSV, C!EXCEPTION_SYSTICK, C!EXCEPTION_IRQ0
<1>2. irq' = irq /\ iser' = iser /\ ispr' = ispr /\ phase' = "stacking"
  BY DEF C!CheckPendingExceptions, nvicOwn
<1>3. CASE f = 16
  <2>1. irq.ext - 16 \in owed /\ irq.ext \in Int
    BY <1>1, <1>3, SystemAssumption DEF IInv, SlotInv, InterfaceType, EXCEPTION_IRQ0
  <2>2. irq.ext >= 16
    BY <2>1, SystemAssumption DEF IInv, InterfaceType
  <2>3. cur' = irq.ext
    BY <1>3, <2>2 DEF C!CheckPendingExceptions, C!PendingIrq, C!EXCEPTION_IRQ0
  <2> QED BY <1>2, <2>1, <2>3 DEF IInv, InterfaceType, SlotInv, NoSpuriousIrq, EXCEPTION_IRQ0
<1>4. CASE f # 16
  <2>1. cur' = f /\ cur' < 16
    BY <1>1, <1>4 DEF C!CheckPendingExceptions, C!EXCEPTION_IRQ0
  <2> QED BY <1>1, <1>2, <2>1 DEF IInv, InterfaceType, SlotInv, NoSpuriousIrq, EXCEPTION_IRQ0
<1> QED BY <1>3, <1>4

(* The end of an entry: an interrupt leaves owed together with the flag. *)
LEMMA VectoringStep ==
  ASSUME IInv, C!Vectoring, owed' = owed \ {cur - EXCEPTION_IRQ0}, UNCHANGED nvicOwn
  PROVE  IInv'
<1>1. /\ irq'.ext = irq.ext
      /\ irq'.flags \subseteq (irq.flags \cup {EXCEPTION_HARD_FAULT}) \ {C!FlagOf(cur)}
      /\ irq' \in [flags: SUBSET PendingFlags, ext: SlotType]
  BY DEF C!Vectoring, C!Escalation, C!EXCEPTION_HARD_FAULT, EXCEPTION_HARD_FAULT, IInv, InterfaceType, SlotType,
     PendingFlags
<1>2. phase' = "execute" /\ cur' = 0 /\ iser' = iser /\ ispr' = ispr
  BY DEF C!Vectoring, nvicOwn
<1>3. ASSUME EXCEPTION_IRQ0 \in irq'.flags
      PROVE  irq'.ext - EXCEPTION_IRQ0 \in owed'
  <2>1. EXCEPTION_IRQ0 \in irq.flags
    BY <1>1, <1>3 DEF EXCEPTION_IRQ0, EXCEPTION_HARD_FAULT
  <2>2. cur \in Int /\ cur < 16
    BY <1>1, <1>3 DEF C!FlagOf, C!EXCEPTION_IRQ0, EXCEPTION_IRQ0, IInv, InterfaceType
  <2>3. irq.ext - EXCEPTION_IRQ0 \in owed /\ irq.ext - EXCEPTION_IRQ0 \in Nat
    BY <2>1, SystemAssumption DEF IInv, SlotInv, InterfaceType
  <2> QED BY <1>1, <2>2, <2>3 DEF EXCEPTION_IRQ0
<1> QED BY <1>1, <1>2, <1>3 DEF IInv, InterfaceType, SlotInv, NoSpuriousIrq, SlotType

(* cpu_thread away from the NVIC. *)
LEMMA CoreStep ==
  ASSUME IInv, Core
  PROVE  IInv'
<1>1. UNCHANGED nvicOwn
  BY DEF Core
<1>2. ASSUME NEW f \in C!PendingFlags, C!CheckPendingExceptions(f)
      PROVE  IInv'
  <2>1. owed' = owed
    BY <1>2 DEF Core, C!CheckPendingExceptions
  <2> QED BY <1>1, <1>2, <2>1, CheckStep
<1>3. CASE C!Vectoring
  <2>1. owed' = owed \ {cur - EXCEPTION_IRQ0}
    BY <1>3 DEF Core, C!Vectoring
  <2> QED BY <1>1, <1>3, <2>1, VectoringStep
<1>4. ASSUME /\ owed' = owed /\ cur' = cur /\ irq'.ext = irq.ext
             /\ irq' \in IrqType
             /\ irq'.flags \subseteq irq.flags \cup {EXCEPTION_SVCALL}
             /\ phase' # "stacking"
      PROVE  IInv'
  BY <1>1, <1>4 DEF IInv, InterfaceType, SlotInv, NoSpuriousIrq, nvicOwn, IrqType, SlotType,
     EXCEPTION_IRQ0, EXCEPTION_SVCALL
<1>5. irq \in IrqType
  BY DEF IInv, InterfaceType, IrqType, SlotType
<1>6. CASE C!NothingPending \/ C!Stacking
  BY <1>4, <1>5, <1>6 DEF Core, C!NothingPending, C!Stacking
<1>7. ASSUME NEW c \in Code, NEW v \in Values, C!Plain(c, v)
      PROVE  IInv'
  BY <1>4, <1>5, <1>7 DEF Core, C!Plain, C!Executes
<1>8. ASSUME NEW c \in Code, C!Svc(c)
      PROVE  IInv'
  <2>1. irq' = [irq EXCEPT !.flags = @ \cup {EXCEPTION_SVCALL}]
    BY <1>8 DEF C!Svc, C!EXCEPTION_SVCALL, EXCEPTION_SVCALL
  <2>2. irq' \in IrqType
    BY <1>5, <2>1 DEF IrqType, PendingFlags
  <2>3. irq'.ext = irq.ext /\ irq'.flags \subseteq irq.flags \cup {EXCEPTION_SVCALL}
    BY <1>5, <2>1 DEF IrqType
  <2>4. owed' = owed /\ cur' = cur /\ phase' = "check"
    BY <1>8 DEF Core, C!Svc, C!Executes
  <2> QED BY <1>4, <2>2, <2>3, <2>4
<1>9. CASE C!BxLr
  <2>1. irq' = irq /\ cur' = cur
    BY <1>9 DEF C!BxLr, C!TryExceptionReturn
  <2>2. owed' = owed /\ phase' = "check"
    BY <1>9 DEF Core, C!BxLr, C!Executes
  <2> QED BY <1>4, <1>5, <2>1, <2>2
<1> QED BY <1>2, <1>3, <1>6, <1>7, <1>8, <1>9 DEF Core, C!Entry

(* A register access: what it puts into the slot, it also puts into owed. *)
LEMMA StoreStep ==
  ASSUME IInv, Store
  PROVE  IInv'
<1>1. /\ iser' \subseteq Irqs /\ ispr' \subseteq Irqs
      /\ \E i \in {irq, WithPendSv(irq)} : irq' = i \/ \E k \in Irqs : irq' = WithIrq(i, k)
  BY AccessSends DEF IInv, Store
<1>2. irq' \in IrqType /\ (EXCEPTION_IRQ0 \in irq'.flags => irq'.ext - EXCEPTION_IRQ0 \in Irqs)
  <2>1. irq \in IrqType /\ (EXCEPTION_IRQ0 \in irq.flags => irq.ext - EXCEPTION_IRQ0 \in Irqs)
    BY DEF IInv, InterfaceType, SlotInv, IrqType, SlotType
  <2>2. ASSUME NEW i \in {irq, WithPendSv(irq)}
        PROVE  /\ i \in IrqType
               /\ EXCEPTION_IRQ0 \in i.flags => i.ext - EXCEPTION_IRQ0 \in Irqs
    BY <2>1, <2>2 DEF IrqType, WithPendSv, PendingFlags, EXCEPTION_IRQ0, EXCEPTION_PENDSV
  <2>3. ASSUME NEW i \in {irq, WithPendSv(irq)}, NEW k \in Irqs
        PROVE  /\ WithIrq(i, k) \in IrqType
               /\ WithIrq(i, k).ext - EXCEPTION_IRQ0 \in Irqs
    BY <2>2, <2>3, SystemAssumption DEF IrqType, SlotType, WithIrq, PendingFlags, EXCEPTION_IRQ0
  <2> QED BY <1>1, <2>2, <2>3
<1>3. irq'.ext - EXCEPTION_IRQ0 \in Irqs => irq'.ext = EXCEPTION_IRQ0 + (irq'.ext - EXCEPTION_IRQ0)
  BY <1>2, SystemAssumption DEF IrqType, SlotType, EXCEPTION_IRQ0
<1>4. owed' \subseteq Irqs /\ SlotInv'
  BY <1>2, <1>3 DEF Store, IInv, InterfaceType, SlotInv
<1>5. cur' = cur /\ phase' = "check"
  BY DEF Store, C!DeviceAccess, C!Executes
<1> QED BY <1>1, <1>2, <1>4, <1>5 DEF IInv, InterfaceType, NoSpuriousIrq, IrqType, SlotType

LEMMA TickStep ==
  ASSUME IInv, SysTickThread
  PROVE  IInv'
<1>1. iser' = iser /\ ispr' = ispr /\ irq' \in {irq, [irq EXCEPT !.flags = @ \cup {EXCEPTION_SYSTICK}]}
  BY TickSends DEF IInv, SysTickThread
<1>2. cur' = cur /\ phase' = phase /\ owed' = owed
  BY DEF SysTickThread, cpuOwn
<1>3. irq \in IrqType
  BY DEF IInv, InterfaceType, IrqType, SlotType
<1>4. irq' \in IrqType /\ irq'.ext = irq.ext /\ irq'.flags \subseteq irq.flags \cup {EXCEPTION_SYSTICK}
  BY <1>1, <1>3 DEF IrqType, PendingFlags
<1> QED BY <1>1, <1>2, <1>4 DEF IInv, InterfaceType, SlotInv, NoSpuriousIrq, IrqType, SlotType,
           EXCEPTION_IRQ0, EXCEPTION_SYSTICK

LEMMA NextIInv == IInv /\ [Next]_vars => IInv'
<1> SUFFICES ASSUME IInv, [Next]_vars PROVE IInv'
  OBVIOUS
<1>1. CASE UNCHANGED vars
  BY <1>1 DEF vars, cpuOwn, nvicOwn, IInv, InterfaceType, SlotInv, NoSpuriousIrq
<1> QED BY <1>1, CoreStep, StoreStep, TickStep DEF Next, CpuThread

(* Between the moment an interrupt is sent and its entry the flag, the slot and *)
(* the history agree.                                                           *)
THEOREM SystemInvariant == Spec => []IInv
<1> QED BY InitIInv, NextIInv, PTL DEF Spec

(* A set flag stands for the interrupt in the slot, which is still owed. *)
THEOREM SystemSlot == Spec => []SlotInv
<1>1. IInv => SlotInv
  BY DEF IInv
<1> QED BY SystemInvariant, <1>1, PTL

(***************************************************************************)
(* CPU and NVIC composed: an external interrupt is entered only if the     *)
(* NVIC has sent it and it has not been entered since.                     *)
(***************************************************************************)
THEOREM SystemNoSpuriousIrq == Spec => []NoSpuriousIrq
<1>1. IInv => NoSpuriousIrq
  BY DEF IInv
<1> QED BY SystemInvariant, <1>1, PTL

-----------------------------------------------------------------------------
(* The NVIC in the composition *)

LEMMA InitNVIC == Init => N!Init
  BY DEF Init

LEMMA StepNVIC == IInv /\ [Next]_vars => [N!Next]_(N!vars)
<1> SUFFICES ASSUME IInv, [Next]_vars PROVE [N!Next]_(N!vars)
  OBVIOUS
<1>1. CASE UNCHANGED vars
  BY <1>1 DEF vars, nvicOwn, N!vars, N!nvicVars, N!controller, N!systick
<1>2. CASE Store
  BY <1>2 DEF Store, RegisterAccess, N!Next, N!WriteController, N!WriteSysTick
<1>3. CASE SysTickThread
  BY <1>3 DEF SysTickThread, N!Next
<1>4. CASE Core
  <2>1. UNCHANGED N!nvicVars
    BY <1>4 DEF Core, nvicOwn, N!nvicVars, N!controller, N!systick
  <2>2. irq' = irq \/ \E fl \in SUBSET (irq.flags \cup {EXCEPTION_SVCALL, EXCEPTION_HARD_FAULT}) :
                        irq' = [irq EXCEPT !.flags = fl]
    <3>1. ASSUME NEW f \in C!PendingFlags, C!CheckPendingExceptions(f) PROVE irq' = irq
      BY <3>1 DEF C!CheckPendingExceptions
    <3>2. CASE C!NothingPending \/ C!Stacking
      BY <3>2 DEF C!NothingPending, C!Stacking
    <3>3. CASE C!Vectoring
      <4> DEFINE fl == (irq.flags \cup C!Escalation(cur)) \ {C!FlagOf(cur)}
      <4>1. irq' = [irq EXCEPT !.flags = fl]
        BY <3>3 DEF C!Vectoring
      <4>2. fl \subseteq irq.flags \cup {EXCEPTION_HARD_FAULT}
        BY DEF C!Escalation, C!EXCEPTION_HARD_FAULT, EXCEPTION_HARD_FAULT
      <4> QED BY <4>1, <4>2
    <3>4. ASSUME NEW c \in Code, NEW v \in Values, C!Plain(c, v) PROVE irq' = irq
      BY <3>4 DEF C!Plain
    <3>5. ASSUME NEW c \in Code, C!Svc(c)
          PROVE  irq' = [irq EXCEPT !.flags = irq.flags \cup {EXCEPTION_SVCALL}]
      BY <3>5 DEF C!Svc, C!EXCEPTION_SVCALL, EXCEPTION_SVCALL
    <3>6. CASE C!BxLr
      BY <3>6 DEF C!BxLr, C!TryExceptionReturn
    <3> QED BY <1>4, <3>1, <3>2, <3>3, <3>4, <3>5, <3>6 DEF Core, C!Entry
  <2>3. CASE irq' = irq
    BY <2>1, <2>3 DEF N!vars
  <2>4. ASSUME NEW fl \in SUBSET (irq.flags \cup {EXCEPTION_SVCALL, EXCEPTION_HARD_FAULT}),
               irq' = [irq EXCEPT !.flags = fl]
        PROVE  N!CpuSide
    BY <2>1, <2>4 DEF N!CpuSide
  <2> QED BY <2>2, <2>3, <2>4 DEF N!Next
<1> QED BY <1>1, <1>2, <1>3, <1>4 DEF Next, CpuThread

(***************************************************************************)
(* What NVIC.tla assumes of the CPU is what the CPU does: every step of    *)
(* the composition is a step of NVIC or leaves it alone.                   *)
(***************************************************************************)
THEOREM SystemImplementsNVIC == Spec => ImplementsNVIC
<1> QED BY InitNVIC, StepNVIC, SystemInvariant, PTL DEF Spec, ImplementsNVIC, N!Spec

-----------------------------------------------------------------------------
(* The CPU in the composition *)

(* Exceptions as CPU receives them. *)
LEMMA CpuReceives ==
  ASSUME NEW i \in IrqType
  PROVE  /\ C!ReceiveException(i, EXCEPTION_PENDSV) = WithPendSv(i)
         /\ C!ReceiveException(i, EXCEPTION_SYSTICK) = [i EXCEPT !.flags = @ \cup {EXCEPTION_SYSTICK}]
         /\ \A k \in Irqs : C!ReceiveException(i, EXCEPTION_IRQ0 + k) = WithIrq(i, k)
<1>1. /\ C!ReceiveException(i, EXCEPTION_PENDSV) = WithPendSv(i)
      /\ C!ReceiveException(i, EXCEPTION_SYSTICK) = [i EXCEPT !.flags = @ \cup {EXCEPTION_SYSTICK}]
  BY DEF IrqType, WithPendSv, C!ReceiveException, C!LEGACY_IRQ, C!EXCEPTION_NMI, C!EXCEPTION_HARD_FAULT,
     C!EXCEPTION_PENDSV, C!EXCEPTION_SYSTICK, C!EXCEPTION_IRQ0, EXCEPTION_PENDSV, EXCEPTION_SYSTICK
<1>2. ASSUME NEW k \in Irqs
      PROVE  C!ReceiveException(i, EXCEPTION_IRQ0 + k) = WithIrq(i, k)
  <2>1. k \in Nat
    BY SystemAssumption
  <2> QED BY <2>1 DEF WithIrq, C!ReceiveException, C!LEGACY_IRQ, C!EXCEPTION_NMI, C!EXCEPTION_HARD_FAULT,
     C!EXCEPTION_PENDSV, C!EXCEPTION_SYSTICK, C!EXCEPTION_IRQ0, EXCEPTION_IRQ0
<1> QED BY <1>1, <1>2

(* What a register access sends is one of the sequences of Sent, received in order. *)
LEMMA SentSequence ==
  ASSUME InterfaceType, RegisterAccess
  PROVE  \E s \in Sent :
           /\ irq' = C!ReceiveAll(irq, s)
           /\ irq'.flags = irq.flags \cup {C!FlagOf(s[j]) : j \in DOMAIN s}
<1> DEFINE Arrives(s) ==
      /\ irq' = C!ReceiveAll(irq, s)
      /\ irq'.flags = irq.flags \cup {C!FlagOf(s[j]) : j \in DOMAIN s}
<1>1. irq \in IrqType /\ WithPendSv(irq) \in IrqType
  BY DEF InterfaceType, IrqType, SlotType, WithPendSv, PendingFlags, EXCEPTION_PENDSV
<1>2. C!FlagOf(EXCEPTION_PENDSV) = EXCEPTION_PENDSV /\ \A k \in Irqs : C!FlagOf(EXCEPTION_IRQ0 + k) = EXCEPTION_IRQ0
  BY SystemAssumption DEF C!FlagOf, C!EXCEPTION_IRQ0, EXCEPTION_IRQ0, EXCEPTION_PENDSV
<1>3. \E i \in {irq, WithPendSv(irq)} : irq' = i \/ \E k \in Irqs : irq' = WithIrq(i, k)
  BY AccessSends
<1>4. CASE irq' = irq
  <2>1. Len(<<>>) = 0 /\ {C!FlagOf(<<>>[j]) : j \in DOMAIN <<>>} = {}
    OBVIOUS
  <2>2. Arrives(<<>>)
    BY <1>4, <2>1 DEF C!ReceiveAll
  <2> QED BY <2>2 DEF Sent
<1>5. CASE irq' = WithPendSv(irq)
  <2> DEFINE s == <<EXCEPTION_PENDSV>>
  <2>1. Len(s) = 1 /\ s[1] = EXCEPTION_PENDSV /\ DOMAIN s = {1}
    OBVIOUS
  <2>2. {C!FlagOf(s[j]) : j \in DOMAIN s} = {EXCEPTION_PENDSV}
    BY <1>2, <2>1
  <2>3. Arrives(s)
    BY <1>1, <1>5, <2>1, <2>2, CpuReceives DEF C!ReceiveAll, WithPendSv
  <2> QED BY <2>3 DEF Sent
<1>6. ASSUME NEW k \in Irqs, irq' = WithIrq(irq, k)
      PROVE  \E s \in Sent : Arrives(s)
  <2> DEFINE s == <<EXCEPTION_IRQ0 + k>>
  <2>1. Len(s) = 1 /\ s[1] = EXCEPTION_IRQ0 + k /\ DOMAIN s = {1}
    OBVIOUS
  <2>2. {C!FlagOf(s[j]) : j \in DOMAIN s} = {EXCEPTION_IRQ0}
    BY <1>2, <2>1
  <2>3. Arrives(s)
    BY <1>1, <1>6, <2>1, <2>2, CpuReceives DEF C!ReceiveAll, WithIrq
  <2> QED BY <2>3 DEF Sent
<1>7. ASSUME NEW k \in Irqs, irq' = WithIrq(WithPendSv(irq), k)
      PROVE  \E s \in Sent : Arrives(s)
  <2> DEFINE s == <<EXCEPTION_PENDSV, EXCEPTION_IRQ0 + k>>
  <2>1. Len(s) = 2 /\ s[1] = EXCEPTION_PENDSV /\ s[2] = EXCEPTION_IRQ0 + k /\ DOMAIN s = {1, 2}
    OBVIOUS
  <2>2. {C!FlagOf(s[j]) : j \in DOMAIN s} = {EXCEPTION_PENDSV, EXCEPTION_IRQ0}
    BY <1>2, <2>1
  <2>3. C!ReceiveAll(irq, s) = C!ReceiveException(C!ReceiveException(irq, EXCEPTION_PENDSV), EXCEPTION_IRQ0 + k)
    BY <2>1 DEF C!ReceiveAll
  <2>4. C!ReceiveAll(irq, s) = WithIrq(WithPendSv(irq), k)
    BY <1>1, <2>3, CpuReceives
  <2>5. Arrives(s)
    BY <1>1, <1>7, <2>2, <2>4 DEF WithIrq, WithPendSv
  <2> QED BY <2>5 DEF Sent
<1> QED BY <1>3, <1>4, <1>5, <1>6, <1>7

LEMMA InitCPU == Init => C!Init
  BY DEF Init

LEMMA StepCPU == IInv /\ [Next]_vars => [C!Next]_(C!vars)
<1> SUFFICES ASSUME IInv, [Next]_vars PROVE [C!Next]_(C!vars)
  OBVIOUS
<1>1. CASE UNCHANGED vars
  BY <1>1 DEF vars, cpuOwn, C!vars, C!registers
<1>2. CASE Core
  BY <1>2 DEF Core, C!Next, C!CpuThread, C!Instruction
<1>3. CASE Store
  <2>1. PICK c \in Code : C!DeviceAccess(c)
    BY <1>3 DEF Store
  <2>2. PICK s \in Sent : /\ irq' = C!ReceiveAll(irq, s)
                          /\ irq'.flags = irq.flags \cup {C!FlagOf(s[j]) : j \in DOMAIN s}
    BY <1>3, SentSequence DEF Store, IInv
  <2>3. C!Backlog = irq.flags
    BY <2>1 DEF C!Backlog, C!DeviceAccess, C!Executes
  <2>4. C!Backlog \cup (irq'.flags \ irq.flags) = C!Backlog \cup {C!FlagOf(s[j]) : j \in DOMAIN s}
    BY <2>2, <2>3
  <2>5. C!Room({C!FlagOf(s[j]) : j \in DOMAIN s})
    BY <1>3, <2>4 DEF Store, NestingBound, C!Room
  <2>6. C!DeviceStore(c, s)
    BY <2>1, <2>2, <2>5 DEF C!DeviceStore
  <2> QED BY <2>6 DEF C!Next, C!CpuThread, C!Instruction
<1>4. CASE SysTickThread
  <2>1. irq \in IrqType
    BY DEF IInv, InterfaceType, IrqType, SlotType
  <2>2. UNCHANGED <<phase, cur, C!registers, mem, activations>>
    BY <1>4 DEF SysTickThread, cpuOwn, C!registers
  <2>3. irq' \in {irq, [irq EXCEPT !.flags = @ \cup {EXCEPTION_SYSTICK}]}
    BY <1>4, TickSends DEF SysTickThread, IInv
  <2>4. CASE irq' = irq
    BY <2>2, <2>4 DEF C!vars
  <2>5. CASE irq' # irq
    <3>1. irq' = C!ReceiveException(irq, EXCEPTION_SYSTICK)
      BY <2>1, <2>3, <2>5, CpuReceives
    <3>2. irq'.flags = irq.flags \cup {EXCEPTION_SYSTICK}
      BY <2>1, <2>3, <2>5 DEF IrqType
    <3>3. EXCEPTION_SYSTICK \notin irq.flags
      <4>1. SUFFICES ASSUME EXCEPTION_SYSTICK \in irq.flags PROVE FALSE
        OBVIOUS
      <4>2. irq.flags \cup {EXCEPTION_SYSTICK} = irq.flags
        BY <4>1
      <4> QED BY <2>1, <2>3, <2>5, <4>2 DEF IrqType
    <3>4. irq'.flags \ irq.flags = {EXCEPTION_SYSTICK}
      BY <3>2, <3>3
    <3>5. C!FlagOf(EXCEPTION_SYSTICK) = EXCEPTION_SYSTICK
      BY DEF C!FlagOf, C!EXCEPTION_IRQ0, EXCEPTION_SYSTICK
    <3>6. C!Room({C!FlagOf(EXCEPTION_SYSTICK)})
      BY <1>4, <3>4, <3>5 DEF SysTickThread, NestingBound
    <3>7. C!Raise(EXCEPTION_SYSTICK)
      BY <2>2, <3>1, <3>6 DEF C!Raise
    <3> QED BY <3>7 DEF C!Next
  <2> QED BY <2>4, <2>5
<1> QED BY <1>1, <1>2, <1>3, <1>4 DEF Next, CpuThread

(***************************************************************************)
(* What CPU.tla assumes of other processes is what the NVIC and its timer  *)
(* do: every step of the composition is a step of CPU or leaves it alone.  *)
(***************************************************************************)
THEOREM SystemImplementsCPU == Spec => ImplementsCPU
<1> QED BY InitCPU, StepCPU, SystemInvariant, PTL DEF Spec, ImplementsCPU, C!Spec
=============================================================================
