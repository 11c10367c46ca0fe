----------------------------- MODULE NVICProofs ------------------------------
(***************************************************************************)
(* Proofs about NVIC, for every set of interrupts and of reload values.    *)
(***************************************************************************)
EXTENDS NVIC, TLAPS, WellFoundedInduction

IrqType == [flags: SUBSET PendingFlags,
            ext: {0} \cup {EXCEPTION_IRQ0 + k : k \in Irqs}]

(* A period whose end will not be ignored belongs to an enabled timer. *)
RunningTimerIsEnabled == timer = "delay" /\ ~stale => enable

(* The timer part of the inductive invariant. *)
TimerInv ==
    /\ SeenTimerIsScheduled
    /\ CountflagOnlyWhenEnabled
    /\ RunningTimerIsEnabled

IInv == TypeOK /\ TimerInv /\ WaitsInOrder
-----------------------------------------------------------------------------
(* A set of natural numbers that is not empty has a least element. *)
LEMMA LeastElement ==
    ASSUME NEW S, S \subseteq Nat, S # {}
    PROVE  \E k \in S : \A j \in S : k <= j
  <1>1. PICK x \in S : \A y \in S : ~(<<y, x>> \in OpToRel(<, Nat))
    BY NatLessThanWellFounded, WFMin
  <1>2. ASSUME NEW y \in S
        PROVE  x <= y
    <2>1. ~(y < x)
      BY <1>1 DEF OpToRel
    <2> QED BY <2>1
  <1> QED BY <1>2

(* The least member of a set of interrupts that is not empty. *)
LEMMA HighestPriorityIsLeast ==
    ASSUME NEW active, active \subseteq Irqs, active # {}
    PROVE  /\ HighestPriority(active) \in active
           /\ \A j \in active : HighestPriority(active) <= j
  <1>1. active \subseteq Nat
    BY IrqAssumption
  <1>2. \E k \in active : \A j \in active : k <= j
    BY <1>1, LeastElement
  <1> QED BY <1>2 DEF HighestPriority
-----------------------------------------------------------------------------
(* What update_interrupt_state does, whatever was written. *)

LEMMA UpdateEffect ==
    ASSUME NEW i \in IrqType, NEW p, p \subseteq Irqs, iser' \subseteq Irqs,
           UpdateInterruptState(i, p)
    PROVE  /\ ispr' \subseteq p
           /\ irq' \in IrqType
           /\ \A k \in p \ ispr' : /\ irq'.ext = EXCEPTION_IRQ0 + k
                                   /\ EXCEPTION_IRQ0 \in irq'.flags
           /\ irq'.ext # i.ext =>
                /\ irq'.ext - EXCEPTION_IRQ0 \in iser'
                /\ \A j \in iser' \cap ispr' : irq'.ext - EXCEPTION_IRQ0 < j
           /\ i.ext # EXCEPTION_IRQ0 => WaitsInOrder'
  <1> DEFINE active == iser' \cap p
             k == HighestPriority(active)
  <1>1. ispr' = p \ ({k} \ {0})
    BY DEF UpdateInterruptState, Forwarded
  <1>2. CASE {k} \ {0} = {}
    <2>1. irq' = i
      BY <1>2 DEF UpdateInterruptState, Forwarded
    <2>2. active = {} \/ 0 \in active
      BY <1>2, HighestPriorityIsLeast
    <2>3. ispr' = p
      BY <1>1, <1>2
    <2>4. i.ext # EXCEPTION_IRQ0 => WaitsInOrder'
      BY <2>1, <2>2, <2>3 DEF WaitsInOrder
    <2> QED BY <2>1, <2>3, <2>4
  <1>3. CASE {k} \ {0} # {}
    <2>1. k # 0
      BY <1>3
    <2>2. active # {}
      BY <2>1 DEF HighestPriority
    <2>3. k \in active /\ \A j \in active : k <= j
      BY <2>2, HighestPriorityIsLeast
    <2>4. k \in Irqs /\ k \in Nat
      BY <2>3, IrqAssumption
    <2>5. irq' = ReceiveException(i, EXCEPTION_IRQ0 + k)
      BY <1>3 DEF UpdateInterruptState, Forwarded
    <2> HIDE DEF k
    <2>6. irq' = [flags |-> i.flags \cup {EXCEPTION_IRQ0},
                  ext |-> EXCEPTION_IRQ0 + k]
      BY <2>4, <2>5 DEF ReceiveException, LEGACY_IRQ, EXCEPTION_NMI,
         EXCEPTION_HARD_FAULT, EXCEPTION_PENDSV, EXCEPTION_SYSTICK,
         EXCEPTION_IRQ0
    <2>7. irq' \in IrqType
      BY <2>4, <2>6 DEF IrqType, PendingFlags
    <2>8. irq'.ext = EXCEPTION_IRQ0 + k /\ EXCEPTION_IRQ0 \in irq'.flags
      BY <2>6
    <2>9. irq'.ext - EXCEPTION_IRQ0 = k
      BY <2>4, <2>8 DEF EXCEPTION_IRQ0
    <2>10. ispr' = p \ {k}
      BY <1>1, <2>1
    <2>11. ASSUME NEW j \in iser' \cap ispr'
           PROVE  k < j
      <3>1. j \in active /\ j # k
        BY <2>10
      <3>2. j \in Nat
        BY IrqAssumption
      <3> QED BY <2>3, <2>4, <3>1, <3>2
    <2>12. WaitsInOrder'
      <3>1. irq'.ext # EXCEPTION_IRQ0
        BY <2>1, <2>4, <2>8 DEF EXCEPTION_IRQ0
      <3>2. irq'.ext - EXCEPTION_IRQ0 \in iser' \ ispr'
        BY <2>3, <2>9, <2>10
      <3> QED BY <2>9, <2>11, <3>1, <3>2 DEF WaitsInOrder
    <2> QED BY <2>3, <2>7, <2>8, <2>9, <2>10, <2>11, <2>12
  <1> QED BY <1>2, <1>3

(* PendSV changes neither the slot nor the type. *)
LEMMA PendSvEffect ==
    ASSUME NEW i \in IrqType
    PROVE  /\ ReceiveException(i, EXCEPTION_PENDSV) \in IrqType
           /\ ReceiveException(i, EXCEPTION_PENDSV).ext = i.ext
  BY DEF ReceiveException, IrqType, PendingFlags, LEGACY_IRQ, EXCEPTION_NMI,
     EXCEPTION_HARD_FAULT, EXCEPTION_PENDSV, EXCEPTION_SYSTICK, EXCEPTION_IRQ0

LEMMA SysTickEffect ==
    ASSUME NEW i \in IrqType
    PROVE  /\ ReceiveException(i, EXCEPTION_SYSTICK) \in IrqType
           /\ ReceiveException(i, EXCEPTION_SYSTICK).ext = i.ext
  BY DEF ReceiveException, IrqType, PendingFlags, LEGACY_IRQ, EXCEPTION_NMI,
     EXCEPTION_HARD_FAULT, EXCEPTION_PENDSV, EXCEPTION_SYSTICK, EXCEPTION_IRQ0
-----------------------------------------------------------------------------
(* The actions *)

(* What every register write keeps and does, apart from the timer. *)
WriteEffect ==
    /\ irq' \in IrqType
    /\ iser' \subseteq Irqs /\ ispr' \subseteq Irqs
    /\ pendsvset' \in BOOLEAN
    /\ \A k \in ispr \ ispr' :
         \/ irq'.ext = EXCEPTION_IRQ0 + k /\ EXCEPTION_IRQ0 \in irq'.flags
         \/ \E s \in SUBSET Irqs : k \in s /\ WriteIcpr(s)
    /\ irq'.ext # irq.ext =>
         /\ irq'.ext - EXCEPTION_IRQ0 \in iser'
         /\ \A j \in iser' \cap ispr' : irq'.ext - EXCEPTION_IRQ0 < j
    /\ WaitsInOrder'

(* A write that adds pending interrupts, or none. *)
LEMMA WritesKeepPending ==
    ASSUME TypeOK, WaitsInOrder,
           NEW i \in IrqType, NEW p, ispr \subseteq p, p \subseteq Irqs, i.ext = irq.ext, iser' \subseteq Irqs, pendsvset' \in BOOLEAN,
           UpdateInterruptState(i, p)
    PROVE  WriteEffect
  <1>1. /\ ispr' \subseteq p
        /\ irq' \in IrqType
        /\ \A k \in p \ ispr' : /\ irq'.ext = EXCEPTION_IRQ0 + k
                                /\ EXCEPTION_IRQ0 \in irq'.flags
        /\ irq'.ext # i.ext =>
             /\ irq'.ext - EXCEPTION_IRQ0 \in iser'
             /\ \A j \in iser' \cap ispr' : irq'.ext - EXCEPTION_IRQ0 < j
        /\ i.ext # EXCEPTION_IRQ0 => WaitsInOrder'
    BY UpdateEffect
  <1>2. i.ext # EXCEPTION_IRQ0
    BY DEF WaitsInOrder
  <1> QED BY <1>1, <1>2 DEF WriteEffect

LEMMA IrqIsTyped == TypeOK => irq \in IrqType
  BY DEF TypeOK, IrqType

LEMMA ControllerWrites ==
    ASSUME TypeOK, WaitsInOrder, WriteController
    PROVE  WriteEffect /\ UNCHANGED systick
  <1>1. irq \in IrqType /\ iser \subseteq Irqs /\ ispr \subseteq Irqs
    BY IrqIsTyped DEF TypeOK
  <1>2. pendsvset \in BOOLEAN
    BY DEF TypeOK
  <1>3. ASSUME NEW s \in SUBSET Irqs, WriteIser(s)
        PROVE  WriteEffect
    <2>1. iser' \subseteq Irqs
      BY <1>1, <1>3 DEF WriteIser
    <2>2. pendsvset' \in BOOLEAN /\ UpdateInterruptState(irq, ispr)
      BY <1>2, <1>3 DEF WriteIser
    <2> QED BY <1>1, <2>1, <2>2, WritesKeepPending
  <1>4. ASSUME NEW s \in SUBSET Irqs, WriteIcer(s)
        PROVE  WriteEffect
    <2>1. iser' \subseteq Irqs
      BY <1>1, <1>4 DEF WriteIcer
    <2>2. pendsvset' \in BOOLEAN /\ UpdateInterruptState(irq, ispr)
      BY <1>2, <1>4 DEF WriteIcer
    <2> QED BY <1>1, <2>1, <2>2, WritesKeepPending
  <1>5. ASSUME NEW s \in SUBSET Irqs, WriteIspr(s)
        PROVE  WriteEffect
    <2>1. /\ iser' \subseteq Irqs
          /\ UpdateInterruptState(irq, ispr \cup s)
      BY <1>1, <1>5 DEF WriteIspr
    <2>2. pendsvset' \in BOOLEAN
      BY <1>2, <1>5 DEF WriteIspr
    <2>3. ispr \subseteq ispr \cup s /\ ispr \cup s \subseteq Irqs
      BY <1>1
    <2> QED BY <1>1, <2>1, <2>2, <2>3, WritesKeepPending
  <1>6. ASSUME NEW s \in SUBSET Irqs, WriteIcpr(s)
        PROVE  WriteEffect
    <2>1. iser' \subseteq Irqs /\ UpdateInterruptState(irq, ispr \ s)
      BY <1>1, <1>6 DEF WriteIcpr
    <2>2. pendsvset' \in BOOLEAN
      BY <1>2, <1>6 DEF WriteIcpr
    <2>3. ispr \ s \subseteq Irqs
      BY <1>1
    <2>4. /\ ispr' \subseteq ispr \ s
          /\ irq' \in IrqType
          /\ \A k \in (ispr \ s) \ ispr' :
               /\ irq'.ext = EXCEPTION_IRQ0 + k
               /\ EXCEPTION_IRQ0 \in irq'.flags
          /\ irq'.ext # irq.ext =>
               /\ irq'.ext - EXCEPTION_IRQ0 \in iser'
               /\ \A j \in iser' \cap ispr' : irq'.ext - EXCEPTION_IRQ0 < j
          /\ irq.ext # EXCEPTION_IRQ0 => WaitsInOrder'
      BY <1>1, <2>1, <2>3, UpdateEffect
    <2>5. ASSUME NEW k \in ispr \ ispr'
          PROVE  \/ irq'.ext = EXCEPTION_IRQ0 + k /\ EXCEPTION_IRQ0 \in irq'.flags
                 \/ \E r \in SUBSET Irqs : k \in r /\ WriteIcpr(r)
      BY <1>6, <2>4
    <2>6. WaitsInOrder'
      BY <2>4 DEF WaitsInOrder
    <2> QED BY <1>1, <2>1, <2>2, <2>4, <2>5, <2>6 DEF WriteEffect
  <1>7. ASSUME NEW set \in BOOLEAN, NEW clear \in BOOLEAN, WriteIcsr(set, clear)
        PROVE  WriteEffect
    <2> DEFINE i == IF set THEN ReceiveException(irq, EXCEPTION_PENDSV) ELSE irq
    <2>1. i \in IrqType /\ i.ext = irq.ext
      BY <1>1, PendSvEffect
    <2>2. iser' \subseteq Irqs /\ UpdateInterruptState(i, ispr)
      BY <1>1, <1>7 DEF WriteIcsr
    <2>3. pendsvset' \in BOOLEAN
      BY <1>2, <1>7 DEF WriteIcsr
    <2> HIDE DEF i
    <2> QED BY <1>1, <2>1, <2>2, <2>3, WritesKeepPending
  <1>8. ASSUME WriteOther
        PROVE  WriteEffect
    <2>1. iser' \subseteq Irqs /\ UpdateInterruptState(irq, ispr)
      BY <1>1, <1>8 DEF WriteOther
    <2>2. pendsvset' \in BOOLEAN
      BY <1>2, <1>8 DEF WriteOther
    <2> QED BY <1>1, <2>1, <2>2, WritesKeepPending
  <1>9. UNCHANGED systick
    BY DEF WriteController, WriteIser, WriteIcer, WriteIspr, WriteIcpr,
       WriteIcsr, WriteOther
  <1> QED BY <1>3, <1>4, <1>5, <1>6, <1>7, <1>8, <1>9 DEF WriteController

(* The timer variables have their types. *)
TimerType ==
    /\ load \in Loads \cup {0} /\ val \in Loads \cup {0}
    /\ {enable, tickint, countflag, wake, stale} \subseteq BOOLEAN
    /\ timer \in {"idle", "delay"}

LEMMA TypeSplit ==
    TypeOK <=> /\ irq \in IrqType
               /\ iser \subseteq Irqs /\ ispr \subseteq Irqs
               /\ pendsvset \in BOOLEAN
               /\ TimerType
  BY DEF TypeOK, TimerType, IrqType

(* A write to the timer is seen by the thread later: the period is stale. *)
LEMMA StaleTimer ==
    ASSUME stale' = TRUE, countflag' => enable'
    PROVE  TimerInv'
  BY DEF TimerInv, SeenTimerIsScheduled, CountflagOnlyWhenEnabled,
     RunningTimerIsEnabled

LEMMA SysTickWrites ==
    ASSUME IInv, WriteSysTick
    PROVE  WriteEffect /\ TimerType' /\ TimerInv'
  <1>1. TypeOK /\ TimerType /\ irq \in IrqType
    BY TypeSplit DEF IInv
  <1>2. iser \subseteq Irqs /\ ispr \subseteq Irqs /\ pendsvset \in BOOLEAN
    BY TypeSplit DEF IInv
  <1>3. countflag => enable
    BY DEF IInv, TimerInv, CountflagOnlyWhenEnabled
  <1>4. /\ iser' = iser /\ pendsvset' = pendsvset
        /\ UpdateInterruptState(irq, ispr)
        /\ stale' = TRUE /\ wake' = TRUE /\ timer' = timer
    BY DEF WriteSysTick, WriteStkCtrl, WriteStkLoad, WriteStkVal, Reprogram
  <1>5. WriteEffect
    <2>1. iser' \subseteq Irqs /\ pendsvset' \in BOOLEAN
      BY <1>2, <1>4
    <2>2. TypeOK /\ WaitsInOrder
      BY DEF IInv
    <2> QED BY <1>1, <1>2, <1>4, <2>1, <2>2, WritesKeepPending
  <1>6. ASSUME NEW e \in BOOLEAN, NEW t \in BOOLEAN, NEW f \in BOOLEAN,
               WriteStkCtrl(e, t, f)
        PROVE  TimerType' /\ (countflag' => enable')
    <2>1. /\ enable' = e /\ tickint' = t
          /\ countflag' = ((countflag \/ f) /\ e)
          /\ load' = load /\ val' = val
      BY <1>6 DEF WriteStkCtrl
    <2> QED BY <1>1, <1>4, <2>1 DEF TimerType
  <1>7. ASSUME NEW n \in Loads, WriteStkLoad(n) \/ WriteStkVal(n)
        PROVE  TimerType' /\ (countflag' => enable')
    <2>1. /\ enable' = enable /\ tickint' = tickint /\ countflag' = countflag
          /\ load' \in {load, n} /\ val' \in {val, n}
      BY <1>7 DEF WriteStkLoad, WriteStkVal
    <2> QED BY <1>1, <1>3, <1>4, <2>1 DEF TimerType
  <1>8. TimerType' /\ (countflag' => enable')
    BY <1>6, <1>7 DEF WriteSysTick
  <1> QED BY <1>4, <1>5, <1>8, StaleTimer

(* Steps that leave the registers of the controller alone. *)
NoController ==
    /\ UNCHANGED controller
    /\ irq' \in IrqType
    /\ irq'.ext = irq.ext

LEMMA ReadStep ==
    ASSUME IInv, ReadStkCtrl
    PROVE  NoController /\ TimerType' /\ TimerInv'
  <1>1. irq \in IrqType /\ TimerType /\ TimerInv
    BY TypeSplit DEF IInv
  <1>2. /\ countflag' = FALSE
        /\ UNCHANGED <<irq, controller, enable, tickint, load, val, wake,
                       stale, timer>>
    BY DEF ReadStkCtrl
  <1>3. NoController
    BY <1>1, <1>2 DEF NoController
  <1>4. TimerType'
    BY <1>1, <1>2 DEF TimerType
  <1>5. TimerInv'
    BY <1>1, <1>2 DEF TimerInv, SeenTimerIsScheduled,
       CountflagOnlyWhenEnabled, RunningTimerIsEnabled
  <1> QED BY <1>3, <1>4, <1>5

LEMMA WakeStep ==
    ASSUME IInv, SysTickWake
    PROVE  NoController /\ TimerType' /\ TimerInv'
  <1>1. irq \in IrqType /\ TimerType /\ TimerInv
    BY TypeSplit DEF IInv
  <1>2. /\ wake' = FALSE
        /\ UNCHANGED <<irq, controller, enable, tickint, countflag, load>>
    BY DEF SysTickWake
  <1>3. NoController
    BY <1>1, <1>2 DEF NoController
  <1>4. CASE StartPeriod
    <2>1. /\ stale' = FALSE
          /\ \/ enable /\ load # 0 /\ timer' = "delay" /\ val' \in {load, val}
             \/ ~(enable /\ load # 0) /\ timer' = "idle" /\ val' = val
      BY <1>4 DEF StartPeriod
    <2>2. TimerType'
      BY <1>1, <1>2, <2>1 DEF TimerType
    <2>3. TimerInv'
      BY <1>1, <1>2, <2>1 DEF TimerInv, SeenTimerIsScheduled,
         CountflagOnlyWhenEnabled, RunningTimerIsEnabled
    <2> QED BY <1>3, <2>2, <2>3
  <1>5. CASE timer = "delay" /\ UNCHANGED <<timer, val, stale>>
    <2>1. TimerType'
      BY <1>1, <1>2, <1>5 DEF TimerType
    <2>2. TimerInv'
      BY <1>1, <1>2, <1>5 DEF TimerInv, SeenTimerIsScheduled,
         CountflagOnlyWhenEnabled, RunningTimerIsEnabled
    <2> QED BY <1>3, <2>1, <2>2
  <1> QED BY <1>4, <1>5 DEF SysTickWake

LEMMA TimeoutStep ==
    ASSUME IInv, SysTickTimeout
    PROVE  NoController /\ TimerType' /\ TimerInv'
  <1>1. irq \in IrqType /\ TimerType /\ TimerInv
    BY TypeSplit DEF IInv
  <1>2. /\ timer = "delay" /\ timer' = "idle"
        /\ UNCHANGED <<controller, enable, tickint, load, stale>>
    BY DEF SysTickTimeout
  <1>3. CASE stale /\ UNCHANGED <<irq, countflag, val, wake>>
    <2>1. NoController
      BY <1>1, <1>2, <1>3 DEF NoController
    <2>2. TimerType'
      BY <1>1, <1>2, <1>3 DEF TimerType
    <2>3. TimerInv'
      BY <1>1, <1>2, <1>3 DEF TimerInv, SeenTimerIsScheduled,
         CountflagOnlyWhenEnabled, RunningTimerIsEnabled
    <2> QED BY <2>1, <2>2, <2>3
  <1>4. CASE /\ ~stale
             /\ countflag' = TRUE
             /\ val' = load
             /\ TriggerSysTick
             /\ wake' = (wake \/ enable)
    <2>1. NoController
      <3>1. irq' \in IrqType /\ irq'.ext = irq.ext
        BY <1>1, <1>4, SysTickEffect DEF TriggerSysTick
      <3> QED BY <1>2, <3>1 DEF NoController
    <2>2. TimerType'
      BY <1>1, <1>2, <1>4 DEF TimerType
    <2>3. enable
      BY <1>1, <1>2, <1>4 DEF TimerInv, RunningTimerIsEnabled
    <2>4. TimerInv'
      BY <1>2, <1>4, <2>3 DEF TimerInv, SeenTimerIsScheduled,
         CountflagOnlyWhenEnabled, RunningTimerIsEnabled
    <2> QED BY <2>1, <2>2, <2>4
  <1> QED BY <1>3, <1>4 DEF SysTickTimeout

LEMMA CpuStep ==
    ASSUME IInv, CpuSide
    PROVE  NoController /\ TimerType' /\ TimerInv'
  <1>1. irq \in IrqType /\ TimerType /\ TimerInv
    BY TypeSplit DEF IInv
  <1>2. UNCHANGED <<controller, systick>>
    BY DEF CpuSide, nvicVars
  <1>3. irq' \in IrqType /\ irq'.ext = irq.ext
    <2>1. PICK fl \in SUBSET (irq.flags \cup CpuFlags) :
            irq' = [irq EXCEPT !.flags = fl]
      BY DEF CpuSide
    <2>2. fl \subseteq PendingFlags
      BY <1>1, FlagAssumption DEF IrqType
    <2> QED BY <1>1, <2>1, <2>2 DEF IrqType
  <1>4. NoController
    BY <1>2, <1>3 DEF NoController
  <1>5. TimerType'
    BY <1>1, <1>2 DEF TimerType, systick
  <1>6. TimerInv'
    BY <1>1, <1>2 DEF TimerInv, SeenTimerIsScheduled,
       CountflagOnlyWhenEnabled, RunningTimerIsEnabled, systick
  <1> QED BY <1>4, <1>5, <1>6
-----------------------------------------------------------------------------
(* The theorems *)

(* Every step writes a register, or leaves the controller alone. *)
LEMMA Step ==
    ASSUME IInv, [Next]_vars
    PROVE  /\ WriteEffect \/ NoController
           /\ TimerType' /\ TimerInv'
  <1>1. irq \in IrqType /\ TimerType /\ TimerInv
    BY TypeSplit DEF IInv
  <1>2. CASE UNCHANGED vars
    <2>1. UNCHANGED <<irq, controller, systick>>
      BY <1>2 DEF vars, nvicVars
    <2>2. NoController
      BY <1>1, <2>1 DEF NoController
    <2>3. TimerType'
      BY <1>1, <2>1 DEF TimerType, systick
    <2>4. TimerInv'
      BY <1>1, <2>1 DEF TimerInv, SeenTimerIsScheduled,
         CountflagOnlyWhenEnabled, RunningTimerIsEnabled, systick
    <2> QED BY <2>2, <2>3, <2>4
  <1>3. CASE WriteController
    <2>1. WriteEffect /\ UNCHANGED systick
      BY <1>3, ControllerWrites DEF IInv
    <2>2. TimerType'
      BY <1>1, <2>1 DEF TimerType, systick
    <2>3. TimerInv'
      BY <1>1, <2>1 DEF TimerInv, SeenTimerIsScheduled,
         CountflagOnlyWhenEnabled, RunningTimerIsEnabled, systick
    <2> QED BY <2>1, <2>2, <2>3
  <1>4. CASE WriteSysTick
    BY <1>4, SysTickWrites
  <1>5. CASE ReadStkCtrl
    BY <1>5, ReadStep
  <1>6. CASE SysTickThread
    BY <1>6, WakeStep, TimeoutStep DEF SysTickThread
  <1>7. CASE CpuSide
    BY <1>7, CpuStep
  <1> QED BY <1>2, <1>3, <1>4, <1>5, <1>6, <1>7 DEF Next

(* Only a write changes what is enabled and pending, and it keeps the order. *)
LEMMA OrderStep ==
    ASSUME IInv, [Next]_vars
    PROVE  WaitsInOrder'
  <1>1. WaitsInOrder
    BY DEF IInv
  <1>2. CASE WriteEffect
    BY <1>2 DEF WriteEffect
  <1>3. CASE NoController
    BY <1>1, <1>3 DEF NoController, controller, WaitsInOrder
  <1> QED BY <1>2, <1>3, Step


LEMMA Inductive == IInv /\ [Next]_vars => IInv'
  <1> SUFFICES ASSUME IInv, [Next]_vars
               PROVE  IInv'
    OBVIOUS
  <1>1. (WriteEffect \/ NoController) /\ TimerType' /\ TimerInv' /\ WaitsInOrder'
    BY Step, OrderStep
  <1>2. iser \subseteq Irqs /\ ispr \subseteq Irqs /\ pendsvset \in BOOLEAN
    BY TypeSplit DEF IInv
  <1>3. /\ irq' \in IrqType /\ iser' \subseteq Irqs /\ ispr' \subseteq Irqs
        /\ pendsvset' \in BOOLEAN
    BY <1>1, <1>2 DEF WriteEffect, NoController, controller
  <1>4. TypeOK'
    <2>1. (/\ irq \in IrqType
           /\ iser \subseteq Irqs /\ ispr \subseteq Irqs
           /\ pendsvset \in BOOLEAN
           /\ TimerType)' => TypeOK'
      BY TypeSplit, PTL
    <2> QED BY <1>1, <1>3, <2>1
  <1> QED BY <1>1, <1>4 DEF IInv

(***************************************************************************)
(* The invariant of the timer, of what waits in the controller and of the  *)
(* types holds in every reachable state, for every set of interrupts and   *)
(* of reload values.                                                       *)
(***************************************************************************)
THEOREM Invariance == Spec => []IInv
  <1>1. Init => IInv
    <2> SUFFICES ASSUME Init
                 PROVE  IInv
      OBVIOUS
    <2>1. TypeOK
      BY DEF Init, TypeOK, PendingFlags
    <2>2. TimerInv
      BY DEF Init, TimerInv, SeenTimerIsScheduled, CountflagOnlyWhenEnabled,
         RunningTimerIsEnabled
    <2>3. WaitsInOrder
      BY DEF Init, WaitsInOrder, EXCEPTION_IRQ0
    <2> QED BY <2>1, <2>2, <2>3 DEF IInv
  <1> QED BY <1>1, Inductive, PTL DEF Spec

(* Every variable keeps its type; the slot holds only known interrupts. *)
THEOREM TypeCorrect == Spec => []TypeOK
  <1>1. IInv => TypeOK
    BY DEF IInv
  <1> QED BY <1>1, Invariance, PTL

(* A timer whose settings the SysTick thread has sampled is scheduled. *)
THEOREM SeenTimerIsScheduledCorrect == Spec => []SeenTimerIsScheduled
  <1>1. IInv => SeenTimerIsScheduled
    BY DEF IInv, TimerInv
  <1> QED BY <1>1, Invariance, PTL

(* COUNTFLAG is never set for a timer that is off. *)
THEOREM CountflagCorrect == Spec => []CountflagOnlyWhenEnabled
  <1>1. IInv => CountflagOnlyWhenEnabled
    BY DEF IInv, TimerInv
  <1> QED BY <1>1, Invariance, PTL

(* An interrupt that stops being pending was sent, or cleared by ICPR; one *)
(* that stays waits behind a lower one that was sent, or behind IRQ0.      *)
THEOREM PendingIrqNotLostCorrect == Spec => PendingIrqNotLost
  <1>1. IInv /\ [Next]_vars =>
          [/\ \A k \in ispr \ ispr' :
                \/ irq'.ext = EXCEPTION_IRQ0 + k /\ EXCEPTION_IRQ0 \in irq'.flags
                \/ \E s \in SUBSET Irqs : k \in s /\ WriteIcpr(s)
           /\ WaitsInOrder']_vars
    BY Step, OrderStep DEF WriteEffect, NoController, controller
  <1> QED BY <1>1, Invariance, PTL DEF Spec, PendingIrqNotLost

(* What is sent is enabled, and lower than all that stay pending. *)
THEOREM LowestNumberFirstCorrect == Spec => LowestNumberFirst
  <1>1. IInv /\ [Next]_vars =>
          [irq'.ext # irq.ext =>
             /\ irq'.ext - EXCEPTION_IRQ0 \in iser'
             /\ \A j \in iser' \cap ispr' :
                  irq'.ext - EXCEPTION_IRQ0 < j]_vars
    BY Step DEF WriteEffect, NoController, controller
  <1> QED BY <1>1, Invariance, PTL DEF Spec, LowestNumberFirst

=============================================================================
