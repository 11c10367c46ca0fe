------------------------------ MODULE CPUProofs ------------------------------
(***************************************************************************)
(* Proofs about CPU.  IInv of CPUInv is inductive; the type invariant, the *)
(* safety invariants and ReturnRestoresContext follow from it.             *)
(***************************************************************************)
EXTENDS CPUInv, TLAPS, SequenceTheorems

USE DEF FrameSize, Addr

-----------------------------------------------------------------------------
(* Facts about constants and sequences. *)

(* EXC_RETURN values are words that no code address is. *)
LEMMA ExcReturnFacts ==
    /\ ExcReturns = {241, 249, 253}
    /\ \A c \in Code : c \in Nat /\ c # 0 /\ c \notin ExcReturns
    /\ \A v \in ExcReturns : v \in Nat /\ v # 0 /\ (UsePsp(v) <=> v = 253)
  BY CodeAssumption DEF ExcReturns, RETURN_HANDLER_MSP, RETURN_THREAD_MSP,
     RETURN_THREAD_PSP, EXC_RETURN, UsePsp

(* The last element of a sequence goes away, the others stay. *)
LEMMA DropLast ==
    ASSUME NEW S, NEW s \in Seq(S), Len(s) > 0
    PROVE  LET t == SubSeq(s, 1, Len(s) - 1) IN
           /\ t \in Seq(S)
           /\ Len(t) = Len(s) - 1
           /\ \A i \in 1 .. Len(t) : t[i] = s[i]
  BY SubSeqProperties

(* The initial states satisfy the invariant. *)
LEMMA InitIInv == Init => IInv
  <1> SUFFICES ASSUME Init PROVE IInv
    OBVIOUS
  <1> USE DEF Init, Depth
  <1>1. TypeOK
    BY CodeAssumption, StackAssumption DEF TypeOK, ContextType, Activation
  <1>2. EntryInv
    BY StackAssumption DEF EntryInv
  <1>3. LayoutInv /\ FramesIntact /\ ContextInv
    BY DEF LayoutInv, FramesIntact, ContextInv
  <1>4. RegisterInv
    BY ExcReturnFacts DEF RegisterInv, IpsrNamesInnermost, NoStrayExcReturn
  <1> QED BY <1>1, <1>2, <1>3, <1>4 DEF IInv
-----------------------------------------------------------------------------
(* Steps that leave the stacks alone. *)

IrqOK(i) == /\ i \in [flags: SUBSET PendingFlags, ext: Nat]
            /\ i.ext \in Exceptions \cup {0}

(* irq_line delivers: the flags and the slot stay within their types. *)
LEMMA ReceiveOK ==
    ASSUME NEW i, IrqOK(i), NEW e \in Exceptions
    PROVE  IrqOK(ReceiveException(i, e))
  BY VectorAssumption DEF IrqOK, ReceiveException, PendingFlags, LEGACY_IRQ,
     EXCEPTION_NMI, EXCEPTION_HARD_FAULT, EXCEPTION_SVCALL, EXCEPTION_PENDSV,
     EXCEPTION_SYSTICK, EXCEPTION_IRQ0

(* The same for the deliveries of one store. *)
LEMMA ReceiveAllOK ==
    ASSUME NEW i, IrqOK(i), NEW s \in Stores
    PROVE  IrqOK(ReceiveAll(i, s))
  <1> s \in Seq(Exceptions) /\ Len(s) \in {0, 1, 2}
    BY VectorAssumption
  <1>1. CASE Len(s) = 0
    BY <1>1 DEF ReceiveAll
  <1>2. CASE Len(s) = 1
    BY <1>2, ReceiveOK DEF ReceiveAll
  <1>3. CASE Len(s) = 2
    <2>a. 1 \in 1 .. Len(s) /\ 2 \in 1 .. Len(s)
      BY <1>3
    <2>b. \A j \in 1 .. Len(s) : s[j] \in Exceptions
      OBVIOUS
    <2>1. s[1] \in Exceptions /\ s[2] \in Exceptions
      BY <2>a, <2>b
    <2>2. ReceiveAll(i, s) = ReceiveException(ReceiveException(i, s[1]), s[2])
      BY <1>3 DEF ReceiveAll
    <2>3. IrqOK(ReceiveException(i, s[1]))
      BY <2>1, ReceiveOK
    <2>4. IrqOK(ReceiveException(ReceiveException(i, s[1]), s[2]))
      BY <2>1, <2>3, ReceiveOK
    <2> QED BY <2>2, <2>4
  <1> QED BY <1>1, <1>2, <1>3

(***************************************************************************)
(* Layout, frames and contexts depend on memory and activations only.      *)
(***************************************************************************)
LEMMA StacksUntouched ==
    ASSUME LayoutInv, FramesIntact, ContextInv, UNCHANGED <<mem, activations>>
    PROVE  (LayoutInv /\ FramesIntact /\ ContextInv)'
  BY DEF LayoutInv, FramesIntact, ContextInv, Depth

(* Exception entry up to the stacking, and the CPU's waits. *)
LEMMA CheckStep ==
    ASSUME IInv, NEW f \in PendingFlags, CheckPendingExceptions(f)
    PROVE  IInv'
  <1> USE DEF IInv, CheckPendingExceptions, registers
  <1>1. cur' \in Exceptions /\ cur' # 0 /\ cur' \in Nat
    <2>1. EXCEPTION_IRQ0 \in PendingFlags
      BY DEF PendingFlags
    <2>2. PendingIrq \in Exceptions
      BY <2>1, VectorAssumption DEF EntryInv, PendingIrq, EXCEPTION_IRQ0
    <2> QED BY <2>2, VectorAssumption
  <1>2. TypeOK'
    BY <1>1 DEF TypeOK
  <1>3. EntryInv'
    BY <1>1 DEF EntryInv, Depth
  <1>4. RegisterInv'
    BY DEF RegisterInv, IpsrNamesInnermost, NoStrayExcReturn, Depth, Top
  <1> QED BY <1>2, <1>3, <1>4, StacksUntouched

(* No exception is pending: the CPU goes on to fetch. *)
LEMMA NothingPendingStep ==
    ASSUME IInv, NothingPending
    PROVE  IInv'
  <1> USE DEF IInv, NothingPending, registers
  <1>1. TypeOK'
    BY DEF TypeOK
  <1>2. EntryInv'
    BY DEF EntryInv, Depth
  <1>3. RegisterInv'
    BY DEF RegisterInv, IpsrNamesInnermost, NoStrayExcReturn, Depth, Top
  <1> QED BY <1>1, <1>2, <1>3, StacksUntouched

(* The vector fetch and the reset of the pending flag. *)
LEMMA VectoringStep ==
    ASSUME IInv, Vectoring
    PROVE  IInv'
  <1> USE DEF IInv, Vectoring
  <1>1. pc' \in Nat
    BY VectorAssumption, CodeAssumption DEF TypeOK, EntryInv, Unvectored
  <1>2. IrqOK(irq')
    BY DEF IrqOK, TypeOK, EntryInv, Escalation, PendingFlags
  <1>3. TypeOK'
    BY <1>1, <1>2 DEF TypeOK, IrqOK
  <1>4. EntryInv'
    BY <1>2 DEF EntryInv, IrqOK, Depth
  <1>5. RegisterInv'
    BY DEF RegisterInv, IpsrNamesInnermost, NoStrayExcReturn, Depth, Top
  <1> QED BY <1>3, <1>4, <1>5, StacksUntouched

(* Another process raises an exception. *)
LEMMA RaiseStep ==
    ASSUME IInv, NEW e \in Async, Raise(e)
    PROVE  IInv'
  <1> USE DEF IInv, Raise, registers
  <1>1. IrqOK(irq')
    BY ReceiveOK, VectorAssumption DEF IrqOK, TypeOK, EntryInv
  <1>2. TypeOK'
    BY <1>1 DEF TypeOK, IrqOK
  <1>3. EntryInv'
    BY <1>1 DEF EntryInv, IrqOK, Depth
  <1>4. RegisterInv'
    BY DEF RegisterInv, IpsrNamesInnermost, NoStrayExcReturn, Depth, Top
  <1> QED BY <1>2, <1>3, <1>4, StacksUntouched

-----------------------------------------------------------------------------
(* Instructions that leave the stacks alone. *)

(***************************************************************************)
(* An instruction that writes no stack memory keeps the invariant when the *)
(* registers it changes keep theirs.                                       *)
(***************************************************************************)
LEMMA RegisterStep ==
    ASSUME IInv, Executes, IrqOK(irq'),
           UNCHANGED <<cur, ipsr, msp, mem, activations>>,
           pc' \in Nat, gpr' \in Nat, primask' \in BOOLEAN,
           lr' = lr \/ lr' \in Code,
           \/ UNCHANGED psp
           \/ Depth = 0 /\ psp' = PspTop,
           \/ UNCHANGED spsel /\ UNCHANGED psp
           \/ spsel' \in BOOLEAN /\ (spsel' => psp' # 0)
    PROVE  IInv'
  <1> USE DEF IInv, Executes
  <1>1. lr' \in Nat /\ psp' \in Nat /\ spsel' \in BOOLEAN
    BY ExcReturnFacts, StackAssumption DEF TypeOK
  <1>2. TypeOK'
    BY <1>1 DEF TypeOK, IrqOK
  <1>3. EntryInv'
    BY DEF EntryInv, IrqOK, Depth
  <1>4. IpsrNamesInnermost' /\ NoStrayExcReturn'
    BY ExcReturnFacts DEF RegisterInv, IpsrNamesInnermost, NoStrayExcReturn,
       Top
  <1>5. (Depth > 0 => lr # 0)'
    BY ExcReturnFacts DEF RegisterInv, Depth
  <1>6. (IF Depth > 0 /\ UsePsp(activations[1].ret)
         THEN psp = PspTop - FrameSize
         ELSE psp \in {0, PspTop})'
    BY DEF RegisterInv, Depth, UsePsp
  <1>7. (Depth = 0 /\ spsel => psp = PspTop)'
    <2>1. Depth' = 0 => psp' \in {0, PspTop}
      BY <1>6
    <2>2. Depth' = Depth
      BY DEF Depth
    <2>3. CASE UNCHANGED <<spsel, psp>>
      BY <2>2, <2>3 DEF RegisterInv
    <2>4. CASE spsel' => psp' # 0
      BY <2>1, <2>4
    <2> QED BY <2>3, <2>4
  <1>8. RegisterInv'
    BY <1>4, <1>5, <1>6, <1>7 DEF RegisterInv, Depth, Top
  <1> QED BY <1>2, <1>3, <1>8, StacksUntouched

(* Every instruction but PUSH, POP and BX. *)
LEMMA PlainSteps ==
    ASSUME IInv, NEW c \in Code,
           \/ \E v \in Values : Plain(c, v)
           \/ \E r \in Code : BranchLink(c, r)
           \/ Svc(c)
           \/ \E s \in Stores : DeviceStore(c, s)
           \/ \E m \in MaskValues : SetPrimask(c, m)
           \/ MsrPsp(c)
           \/ \E s \in BOOLEAN : MsrControl(c, s)
    PROVE  IInv'
  <1> USE CodeAssumption
  <1>0. /\ IrqOK(irq) /\ TypeOK /\ c \in Nat
        /\ Depth = 0 <=> ~InHandler
    <2>1. InHandler <=> Depth # 0
      BY DEF IInv, TypeOK, RegisterInv, ContextInv, IpsrNamesInnermost, Depth,
         Top, InHandler
    <2> QED BY <2>1, ExcReturnFacts DEF IInv, IrqOK, TypeOK, EntryInv
  <1>1. ASSUME NEW v \in Values, Plain(c, v) PROVE IInv'
    BY <1>0, <1>1, RegisterStep DEF Plain, TypeOK
  <1>2. ASSUME NEW r \in Code, BranchLink(c, r) PROVE IInv'
    BY <1>0, <1>2, RegisterStep DEF BranchLink, TypeOK
  <1>3. CASE Svc(c)
    <2>1. IrqOK(irq')
      BY <1>0, <1>3 DEF Svc, IrqOK, PendingFlags
    <2> QED BY <1>0, <1>3, <2>1, RegisterStep DEF Svc, TypeOK
  <1>4. ASSUME NEW s \in Stores, DeviceStore(c, s) PROVE IInv'
    <2>1. IrqOK(irq')
      BY <1>0, <1>4, ReceiveAllOK DEF DeviceStore
    <2> QED BY <1>0, <1>4, <2>1, RegisterStep DEF DeviceStore, DeviceAccess,
               TypeOK
  <1>5. ASSUME NEW m \in MaskValues, SetPrimask(c, m) PROVE IInv'
    BY <1>0, <1>5, RegisterStep DEF SetPrimask, TypeOK
  <1>6. CASE MsrPsp(c)
    BY <1>0, <1>6, RegisterStep DEF MsrPsp, TypeOK
  <1>7. ASSUME NEW s \in BOOLEAN, MsrControl(c, s) PROVE IInv'
    BY <1>0, <1>7, RegisterStep DEF MsrControl, TypeOK
  <1> QED BY <1>1, <1>2, <1>3, <1>4, <1>5, <1>6, <1>7

-----------------------------------------------------------------------------
(* Where things are on the stacks. *)

(* The fields of a live activation. *)
LEMMA ActivationFields ==
    ASSUME TypeOK, NEW i \in 1 .. Depth
    PROVE  LET a == activations[i] IN
           /\ a \in Activation
           /\ a.exc \in Nat /\ a.ret \in ExcReturns /\ a.ctx \in ContextType
           /\ a.at \in Nat /\ a.base \in Nat /\ a.saved \in Nat
           /\ Pushed(a) \in {0, 1}
           /\ HandlerSP(a) \in Int
           /\ HandlerSP(a) = IF a.saved = 0 THEN a.base ELSE a.base - 1
  <1>1. activations[i] \in Activation
    BY DEF TypeOK, Depth
  <1> QED BY <1>1 DEF Activation, Pushed, HandlerSP

(* A handler that has pushed nothing. *)
LEMMA FreshHandlerSP ==
    ASSUME NEW a, a.saved = 0, a.base \in Nat
    PROVE  Pushed(a) = 0 /\ HandlerSP(a) = a.base
  BY DEF Pushed, HandlerSP

(* The words of a frame are stack memory. *)
LEMMA FrameAddr ==
    ASSUME NEW at \in Nat, NEW m \in Nat, m >= PspTop, m <= MspTop,
           at = PspTop - FrameSize \/ (at >= m /\ at + FrameSize <= MspTop),
           NEW k \in {0, 1, 2, 3}
    PROVE  at + k \in Addr /\ (at + k >= m \/ at + k < PspTop)
  <1>1. PspTop \in Nat /\ MspTop \in Nat
    BY StackAssumption
  <1>2. at + k \in Int /\ at + k >= 0
    OBVIOUS
  <1>3. CASE at = PspTop - FrameSize
    BY <1>1, <1>2, <1>3
  <1>4. CASE at >= m /\ at + FrameSize <= MspTop
    BY <1>1, <1>2, <1>4
  <1> QED BY <1>3, <1>4

(* All frames on the main stack are above MSP, and MSP leaves room below. *)
LEMMA StackBounds ==
    ASSUME IInv
    PROVE  /\ Depth \in Nat
           /\ msp \in Nat /\ psp \in Nat
           /\ msp <= MspTop
           /\ msp >= MspTop - (FrameSize + 1) * Depth
           /\ msp >= PspTop
           /\ Depth < MaxNest => msp >= PspTop + FrameSize + 1
           /\ \A i \in 1 .. Depth : HandlerSP(activations[i]) >= msp
  <1>1. Depth \in Nat /\ msp \in Nat /\ psp \in Nat
    BY DEF IInv, TypeOK, Depth
  <1>2. CASE Depth = 0
    BY <1>1, <1>2, StackAssumption DEF IInv, RegisterInv
  <1>3. CASE Depth > 0
    <2>1. msp = HandlerSP(activations[Depth])
      BY <1>1, <1>3 DEF IInv, RegisterInv, Top, Depth
    <2>2. /\ activations[Depth].base \in PspTop .. MspTop
          /\ activations[Depth].base > MspTop - (FrameSize + 1) * Depth
      BY <1>1, <1>3 DEF IInv, LayoutInv
    <2>3. /\ activations[Depth].base \in Nat
          /\ msp = activations[Depth].base \/ msp = activations[Depth].base - 1
      BY <1>1, <1>3, <2>1, ActivationFields DEF IInv
    <2>4. msp <= MspTop /\ msp >= MspTop - (FrameSize + 1) * Depth
      BY <1>1, <2>2, <2>3, StackAssumption
    <2>5. Depth <= MaxNest
      BY DEF IInv, EntryInv
    <2>6. msp >= PspTop
      BY <1>1, <2>4, <2>5, StackAssumption
    <2>7. Depth < MaxNest => msp >= PspTop + FrameSize + 1
      BY <1>1, <2>4, <2>5, StackAssumption
    <2>8. ASSUME NEW i \in 1 .. Depth
          PROVE  HandlerSP(activations[i]) >= msp
      <3>1. CASE i = Depth
        BY <1>1, <2>1, <3>1
      <3>2. CASE i < Depth
        <4>1. activations[Depth].base + FrameSize <= HandlerSP(activations[i])
          BY <1>1, <1>3, <3>2 DEF IInv, LayoutInv
        <4>2. HandlerSP(activations[i]) \in Int
          BY ActivationFields DEF IInv
        <4> QED BY <1>1, <2>3, <4>1, <4>2
      <3> QED BY <1>1, <3>1, <3>2
    <2> QED BY <1>1, <2>4, <2>6, <2>7, <2>8
  <1> QED BY <1>1, <1>2, <1>3

(***************************************************************************)
(* A frame is four words of stack memory: on the main stack, at or above   *)
(* MSP, or the top of the process stack.                                   *)
(***************************************************************************)
LEMMA FramePlace ==
    ASSUME IInv, NEW i \in 1 .. Depth
    PROVE  LET a == activations[i] IN
           /\ a.at \in Nat
           /\ \/ /\ UsePsp(a.ret)
                 /\ i = 1
                 /\ a.at = PspTop - FrameSize
              \/ /\ ~UsePsp(a.ret)
                 /\ a.at = a.base
                 /\ a.at >= msp
                 /\ a.at + FrameSize <= MspTop
  <1> DEFINE a == activations[i]
  <1>1. Depth \in Nat /\ msp \in Nat /\ a.at \in Nat /\ a.base \in Nat
    BY StackBounds, ActivationFields DEF IInv
  <1>2. a.at = IF UsePsp(a.ret) THEN PspTop - FrameSize ELSE a.base
    BY DEF IInv, LayoutInv
  <1>3. UsePsp(a.ret) => i = 1
    BY <1>1 DEF IInv, LayoutInv, UsePsp, RETURN_HANDLER_MSP, RETURN_THREAD_PSP,
       EXC_RETURN
  <1>4. a.base >= msp
    BY <1>1, StackBounds, ActivationFields DEF IInv
  <1>5. ~UsePsp(a.ret) => a.base + FrameSize <= MspTop
    <2>1. CASE i = 1
      BY <1>1, <2>1, StackAssumption DEF IInv, LayoutInv
    <2>2. CASE i > 1
      <3>1. 1 \in 1 .. Depth
        BY <1>1, <2>2
      <3>2. a.base + FrameSize <= HandlerSP(activations[1])
        BY <1>1, <2>2, <3>1 DEF IInv, LayoutInv
      <3>3. HandlerSP(activations[1]) \in Int
        BY <3>1, ActivationFields DEF IInv
      <3>4. HandlerSP(activations[1]) <= activations[1].base
        BY <3>1, ActivationFields DEF IInv
      <3>5. activations[1].base \in PspTop .. MspTop
        BY <3>1 DEF IInv, LayoutInv
      <3> QED BY <1>1, <3>2, <3>3, <3>4, <3>5, StackAssumption
    <2> QED BY <1>1, <2>1, <2>2
  <1> QED BY <1>1, <1>2, <1>3, <1>4, <1>5

-----------------------------------------------------------------------------
(* Stacking *)

(* Thread mode is the state without activations. *)
LEMMA ThreadMode ==
    ASSUME IInv
    PROVE  InHandler <=> Depth # 0
  BY DEF IInv, TypeOK, RegisterInv, ContextInv, IpsrNamesInnermost, Depth,
     Top, InHandler

(* The four words that an entry writes, and the words it leaves alone. *)
LEMMA PushedFrame ==
    ASSUME TypeOK, NEW sp \in FrameSize .. MspTop
    PROVE  LET m == PushFrame(mem, sp) IN
           /\ m \in [Addr -> Nat]
           /\ m[sp - 4] = gpr /\ m[sp - 3] = lr
           /\ m[sp - 2] = pc  /\ m[sp - 1] = ipsr
           /\ \A x \in Addr : x \notin sp - FrameSize .. sp - 1 => m[x] = mem[x]
  <1>1. {sp - 1, sp - 2, sp - 3, sp - 4} \subseteq Addr
    BY StackAssumption
  <1>2. mem \in [Addr -> Nat] /\ gpr \in Nat /\ lr \in Nat /\ pc \in Nat
          /\ ipsr \in Nat
    BY DEF TypeOK
  <1>3. PushFrame(mem, sp)
          = [x \in Addr |-> IF x = sp - 4 THEN gpr ELSE IF x = sp - 3 THEN lr
                            ELSE IF x = sp - 2 THEN pc
                            ELSE IF x = sp - 1 THEN ipsr ELSE mem[x]]
    BY <1>1, <1>2, StackAssumption DEF PushFrame
  <1> QED BY <1>1, <1>2, <1>3, StackAssumption

(* An entry stacks a frame below all others and starts a new activation. *)
LEMMA StackingStep ==
    ASSUME IInv, Stacking
    PROVE  IInv'
  <1> DEFINE n   == Depth
             sp  == StackingSP
             new == [exc |-> cur, ret |-> ExcReturnValue, ctx |-> Context,
                     at |-> sp - FrameSize, base |-> msp', saved |-> 0]
  <1> USE DEF Stacking
  <1>1. /\ n \in Nat /\ n < MaxNest
        /\ msp \in Nat /\ psp \in Nat
        /\ msp <= MspTop /\ msp >= PspTop + FrameSize + 1
        /\ ipsr \in Nat /\ pc \in Nat /\ lr \in Nat /\ gpr \in Nat
    BY StackBounds DEF IInv, EntryInv, TypeOK
  <1>2. ThreadUsedPsp => n = 0 /\ psp = PspTop
    BY ThreadMode, <1>1 DEF ThreadUsedPsp, IInv, RegisterInv
  <1>3. sp \in FrameSize .. MspTop
    BY <1>1, <1>2, StackAssumption DEF StackingSP
  <1>4. CurrentSP = sp /\ (spsel /\ ~InHandler <=> ThreadUsedPsp)
    BY DEF CurrentSP, StackingSP, ThreadUsedPsp
  <1>5. /\ ExcReturnValue \in ExcReturns
        /\ UsePsp(ExcReturnValue) <=> ThreadUsedPsp
        /\ InHandler => ExcReturnValue = RETURN_HANDLER_MSP
        /\ ~InHandler => ExcReturnValue \in {RETURN_THREAD_MSP,
                                             RETURN_THREAD_PSP}
    BY DEF ExcReturnValue, ThreadUsedPsp, UsePsp, ExcReturns,
       RETURN_HANDLER_MSP, RETURN_THREAD_MSP, RETURN_THREAD_PSP, EXC_RETURN
  <1>6. /\ msp' \in Nat /\ psp' \in Nat
        /\ ThreadUsedPsp => msp' = msp /\ psp' = PspTop - FrameSize
        /\ ~ThreadUsedPsp => msp' = msp - FrameSize /\ psp' = psp
    BY <1>1, <1>2, StackAssumption
  <1>7. Context \in ContextType
    BY <1>1, <1>3, <1>4 DEF Context, ContextType, IInv, TypeOK
  <1>8. cur \in Nat /\ cur # 0
    BY VectorAssumption DEF IInv, EntryInv
  <1>9. new \in Activation
    BY <1>1, <1>3, <1>5, <1>6, <1>7, <1>8 DEF Activation
  <1>10. activations \in Seq(Activation)
    BY DEF IInv, TypeOK
  <1>11. /\ activations' = Append(activations, new)
         /\ activations' \in Seq(Activation)
         /\ Depth' = n + 1
         /\ activations'[n + 1] = new
         /\ \A i \in 1 .. n : activations'[i] = activations[i]
    BY <1>9, <1>10 DEF Depth
  <1>12. TypeOK'
    <2>1. mem' \in [Addr -> Nat]
      BY <1>3, PushedFrame DEF IInv
    <2>2. lr' \in Nat
      BY <1>5, ExcReturnFacts
    <2> QED BY <1>6, <1>8, <1>11, <2>1, <2>2 DEF IInv, TypeOK
  <1>13. EntryInv'
    <2>1. UNCHANGED <<cur, irq>> /\ phase' = "vectoring"
      OBVIOUS
    <2>2. Depth' > 0 /\ Depth' <= MaxNest
      BY <1>1, <1>11, StackAssumption
    <2> QED BY <1>8, <2>1, <2>2 DEF IInv, EntryInv
  <1>14. /\ new.exc = cur /\ new.ret = ExcReturnValue /\ new.ctx = Context
         /\ new.at = sp - FrameSize /\ new.base = msp' /\ new.saved = 0
    OBVIOUS
  <1>d. /\ mem' = PushFrame(mem, sp)
        /\ ipsr' = cur /\ lr' = ExcReturnValue /\ ~spsel'
    OBVIOUS
  <1> HIDE DEF Stacking, n, sp, new
  <1>m. new.base \in Nat /\ new.base = msp' /\ new.saved = 0
    BY <1>6, <1>14
  <1>0. Pushed(new) = 0 /\ HandlerSP(new) = msp'
    BY <1>m, FreshHandlerSP
  <1>n. n = Depth /\ sp = StackingSP
    BY DEF n, sp
  <1>a. n \in Nat /\ Depth' = n + 1
    BY <1>1, <1>11
  <1>b. \A i \in 1 .. n : activations'[i] = activations[i]
    BY <1>11
  <1>c. activations'[n + 1] = new
    BY <1>11
  <1>15. ASSUME NEW i \in 1 .. Depth'
         PROVE  \/ i = n + 1 /\ activations'[i] = new
                \/ i \in 1 .. n /\ activations'[i] = activations[i]
    BY <1>a, <1>b, <1>c
  <1>16. n > 0 => /\ ~ThreadUsedPsp /\ InHandler
                  /\ msp = HandlerSP(activations[n])
    BY <1>1, <1>2, ThreadMode DEF IInv, RegisterInv, Top, Depth, n
  <1>17. n = 0 => msp = MspTop /\ ~InHandler
    BY ThreadMode, <1>n DEF IInv, RegisterInv
  <1>18. LayoutInv'
    <2>1. ASSUME NEW i \in 1 .. Depth'
          PROVE  /\ activations'[i].base \in PspTop .. MspTop
                 /\ activations'[i].base > MspTop - (FrameSize + 1) * i
      <3>1. CASE i = n + 1 /\ activations'[i] = new
        <4>1. msp >= MspTop - (FrameSize + 1) * n
          BY StackBounds, <1>n
        <4>2. ThreadUsedPsp => msp' = MspTop
          BY <1>2, <1>6, <1>17
        <4> QED BY <1>1, <1>6, <1>0, <1>14, <3>1, <4>1, <4>2, StackAssumption
      <3>2. CASE i \in 1 .. n /\ activations'[i] = activations[i]
        BY <3>2, <1>n DEF IInv, LayoutInv
      <3> QED BY <1>15, <3>1, <3>2
    <2>2. ASSUME NEW i \in 1 .. Depth', NEW j \in 1 .. Depth', i < j
          PROVE  activations'[j].base + FrameSize <= HandlerSP(activations'[i])
      <3>1. i \in 1 .. n /\ activations'[i] = activations[i]
        BY <1>a, <1>b, <2>2
      <3>2. CASE j = n + 1 /\ activations'[j] = new
        <4>1. HandlerSP(activations[i]) >= msp
          BY <3>1, StackBounds, <1>n
        <4>2. msp' + FrameSize = msp
          <5>1. n > 0
            BY <1>a, <3>1
          <5>2. msp' = msp - FrameSize
            BY <1>6, <1>16, <5>1
          <5> QED BY <1>1, <5>2
        <4>3. HandlerSP(activations[i]) \in Int
          BY <3>1, <1>n, ActivationFields DEF IInv
        <4> QED BY <1>1, <1>0, <1>14, <3>1, <3>2, <4>1, <4>2, <4>3
      <3>3. CASE j \in 1 .. n /\ activations'[j] = activations[j]
        BY <2>2, <3>1, <3>3, <1>n DEF IInv, LayoutInv
      <3> QED BY <1>15, <3>2, <3>3
    <2>3. ASSUME NEW i \in 2 .. Depth'
          PROVE  /\ activations'[i].ret = RETURN_HANDLER_MSP
                 /\ activations'[i].base
                      = HandlerSP(activations'[i - 1]) - FrameSize
      <3>1. activations'[i - 1] = activations[i - 1] /\ i \in 1 .. Depth'
        BY <1>a, <1>b, <2>3
      <3>2. CASE i = n + 1 /\ activations'[i] = new
        BY <1>1, <1>5, <1>6, <1>0, <1>14, <1>16, <2>3, <3>1, <3>2
      <3>3. CASE i \in 1 .. n /\ activations'[i] = activations[i]
        BY <2>3, <3>1, <3>3, <1>n DEF IInv, LayoutInv
      <3> QED BY <1>15, <3>1, <3>2, <3>3
    <2>4. /\ activations'[1].ret \in {RETURN_THREAD_MSP, RETURN_THREAD_PSP}
          /\ activations'[1].base = MspTop -
               IF UsePsp(activations'[1].ret) THEN 0 ELSE FrameSize
      <3>1. CASE n = 0
        <4>1. activations'[1] = new
          BY <1>c, <3>1
        <4> QED BY <1>1, <1>2, <1>5, <1>6, <1>0, <1>14, <1>17, <3>1, <4>1,
                   StackAssumption
      <3>2. CASE n > 0
        <4>1. activations'[1] = activations[1]
          BY <1>a, <1>b, <3>2
        <4> QED BY <3>2, <4>1, <1>n DEF IInv, LayoutInv
      <3> QED BY <1>1, <3>1, <3>2
    <2>5. ASSUME NEW i \in 1 .. Depth'
          PROVE  activations'[i].at = IF UsePsp(activations'[i].ret)
                                      THEN PspTop - FrameSize
                                      ELSE activations'[i].base
      <3>1. CASE i = n + 1 /\ activations'[i] = new
        BY <1>1, <1>2, <1>5, <1>6, <1>0, <1>14, <3>1, <1>n DEF StackingSP
      <3>2. CASE i \in 1 .. n /\ activations'[i] = activations[i]
        BY <3>2, <1>n DEF IInv, LayoutInv
      <3> QED BY <1>15, <3>1, <3>2
    <2> QED BY <2>1, <2>2, <2>3, <2>4, <2>5 DEF LayoutInv
  <1>19. FramesIntact'
    <2>1. /\ mem'[sp - 4] = gpr /\ mem'[sp - 3] = lr
          /\ mem'[sp - 2] = pc  /\ mem'[sp - 1] = ipsr
          /\ \A x \in Addr : x \notin sp - FrameSize .. sp - 1
                               => mem'[x] = mem[x]
      BY <1>3, <1>d, PushedFrame DEF IInv
    <2>2. ASSUME NEW i \in 1 .. Depth', NEW a, a = activations'[i]
          PROVE  Holds(mem', a)
      <3>1. CASE i = n + 1 /\ a = new
        <4>1. a.at = sp - 4 /\ a.ctx = Context /\ a.saved = 0
          BY <1>14, <3>1
        <4>2. /\ a.at + 1 = sp - 3 /\ a.at + 2 = sp - 2 /\ a.at + 3 = sp - 1
          BY <1>3, <4>1
        <4> QED BY <2>1, <4>1, <4>2 DEF Context, Holds
      <3>2. CASE i \in 1 .. n /\ a = activations[i]
        <4>1. sp = msp /\ n > 0
          BY <1>a, <1>16, <1>n, <3>2 DEF StackingSP
        <4>2. /\ mem[a.at]     = a.ctx.gpr
              /\ mem[a.at + 1] = a.ctx.lr
              /\ mem[a.at + 2] = a.ctx.pc
              /\ mem[a.at + 3] = a.ctx.psr
              /\ a.saved # 0 => mem[a.base - 1] = a.saved
          BY <1>n, <3>2 DEF IInv, FramesIntact, Holds
        <4>3. /\ a.at \in Nat
              /\ \/ a.at = PspTop - FrameSize
                 \/ a.at >= msp /\ a.at + FrameSize <= MspTop
          BY <1>n, <3>2, FramePlace
        <4>4. ASSUME NEW k \in {0, 1, 2, 3}
              PROVE  mem'[a.at + k] = mem[a.at + k]
          <5>1. a.at + k \in Addr /\ a.at + k \notin sp - FrameSize .. sp - 1
            BY <1>1, <4>1, <4>3, StackAssumption
          <5> QED BY <2>1, <5>1
        <4>5. mem'[a.at] = mem[a.at]
          BY <4>3, <4>4
        <4>6. ASSUME a.saved # 0
              PROVE  mem'[a.base - 1] = mem[a.base - 1]
          <5>1. /\ a.base - 1 >= msp /\ a.base \in Nat
                /\ a.base <= MspTop
            <6>1. HandlerSP(a) >= msp /\ HandlerSP(a) = a.base - 1
                  /\ a.base \in Nat
              BY <1>n, <3>2, <4>6, StackBounds, ActivationFields DEF IInv
            <6> QED BY <1>n, <3>2, <6>1 DEF IInv, LayoutInv
          <5>2. /\ a.base - 1 \in Addr
                /\ a.base - 1 \notin sp - FrameSize .. sp - 1
            BY <1>1, <4>1, <5>1, StackAssumption
          <5> QED BY <2>1, <5>2
        <4> QED BY <4>2, <4>4, <4>5, <4>6 DEF Holds
      <3> QED BY <1>15, <2>2, <3>1, <3>2
    <2> QED BY <2>2 DEF FramesIntact
  <1>20. ContextInv'
    <2>1. ASSUME NEW i \in 1 .. Depth', NEW a, a = activations'[i]
          PROVE  /\ a.exc # 0
                 /\ a.ctx.sp = a.at + FrameSize
                 /\ a.ctx.psel = UsePsp(a.ret)
                 /\ a.ctx.psr = IF i = 1 THEN 0 ELSE activations'[i - 1].exc
                 /\ a.saved \in ExcReturns => a.saved = a.ret
                 /\ a.ctx.lr \in ExcReturns
                      => i > 1 /\ a.ctx.lr = activations'[i - 1].ret
                 /\ i > 1 => a.ctx.lr # 0
      <3>1. CASE i = n + 1 /\ a = new
        <4>1. /\ a.ctx.sp = sp /\ a.ctx.psr = ipsr /\ a.ctx.lr = lr
              /\ a.ctx.psel = (spsel /\ ~InHandler)
          BY <1>4, <1>14, <3>1 DEF Context
        <4>2. a.exc # 0 /\ a.saved = 0 /\ a.ret = ExcReturnValue
              /\ a.at + FrameSize = sp
          BY <1>3, <1>8, <1>14, <3>1
        <4>3. a.ctx.psel = UsePsp(a.ret)
          BY <1>4, <1>5, <4>1, <4>2 DEF UsePsp
        <4>4. CASE n = 0
          <5>0. activations = <<>>
            BY <1>10, <1>n, <4>4, EmptySeq DEF Depth
          <5>1. ipsr = 0 /\ lr \notin ExcReturns
            BY <5>0 DEF IInv, RegisterInv, IpsrNamesInnermost,
               NoStrayExcReturn
          <5> QED BY <3>1, <4>1, <4>2, <4>3, <4>4, <5>1, ExcReturnFacts
        <4>5. CASE n > 0
          <5>1. /\ activations'[i - 1] = activations[n] /\ i > 1
            BY <1>a, <1>b, <3>1, <4>5
          <5>2. /\ ipsr = activations[n].exc /\ lr # 0
                /\ lr \in ExcReturns => lr = activations[n].ret
            BY <1>n, <4>5 DEF IInv, RegisterInv, IpsrNamesInnermost,
               NoStrayExcReturn, Depth, Top
          <5> QED BY <3>1, <4>1, <4>2, <4>3, <5>1, <5>2, ExcReturnFacts
        <4> QED BY <1>a, <4>4, <4>5
      <3>2. CASE i \in 1 .. n /\ a = activations[i]
        <4>1. i > 1 => activations'[i - 1] = activations[i - 1]
          BY <1>a, <1>b, <3>2
        <4> QED BY <1>a, <1>n, <3>2, <4>1 DEF IInv, ContextInv
      <3> QED BY <1>15, <2>1, <3>1, <3>2
    <2> QED BY <2>1 DEF ContextInv
  <1>21. RegisterInv'
    <2>1. Top' = new /\ activations' # <<>> /\ Depth' > 0
      BY <1>a, <1>c DEF Top, Depth
    <2>2. IpsrNamesInnermost' /\ NoStrayExcReturn'
      BY <1>14, <1>d, <2>1 DEF IpsrNamesInnermost, NoStrayExcReturn
    <2>3. lr' # 0 /\ ~spsel'
      BY <1>5, <1>d, ExcReturnFacts
    <2>4. msp' = HandlerSP(Top')
      BY <1>0, <2>1
    <2>5. IF UsePsp(activations'[1].ret)
          THEN psp' = PspTop - FrameSize ELSE psp' \in {0, PspTop}
      <3>1. CASE n = 0
        <4>1. activations'[1].ret = ExcReturnValue
          BY <1>c, <1>14, <3>1
        <4>2. psp \in {0, PspTop}
          BY <1>n, <3>1 DEF IInv, RegisterInv
        <4> QED BY <1>5, <1>6, <4>1, <4>2
      <3>2. CASE n > 0
        <4>1. activations'[1] = activations[1] /\ psp' = psp
          BY <1>a, <1>b, <1>6, <1>16, <3>2
        <4> QED BY <1>n, <3>2, <4>1 DEF IInv, RegisterInv
      <3> QED BY <1>a, <3>1, <3>2
    <2> QED BY <2>1, <2>2, <2>3, <2>4, <2>5 DEF RegisterInv
  <1> QED BY <1>12, <1>13, <1>18, <1>19, <1>20, <1>21 DEF IInv
-----------------------------------------------------------------------------
(* PUSH {LR} and POP {PC} of a word that is no EXC_RETURN. *)

(***************************************************************************)
(* A step in a handler that changes nothing of the activations but the     *)
(* word the innermost one has pushed, and MSP with it.                     *)
(***************************************************************************)
LEMMA SavedStep ==
    ASSUME IInv, Executes, Depth > 0,
           NEW w \in Nat, w \in ExcReturns => w = Top.ret,
           activations' = [activations EXCEPT ![Depth].saved = w],
           UNCHANGED <<irq, cur, lr, gpr, ipsr, spsel, psp, primask>>,
           pc' \in Nat,
           mem' \in [Addr -> Nat],
           \A x \in Addr : x >= msp \/ x < PspTop => mem'[x] = mem[x],
           w # 0 => mem'[Top.base - 1] = w,
           msp' \in Nat,
           msp' = HandlerSP(Top'),
           Top.saved = 0 \/ w = 0
    PROVE  IInv'
  <1> DEFINE n == Depth
  <1>1. /\ n \in Nat /\ n > 0 /\ n \in 1 .. n
        /\ activations \in Seq(Activation)
        /\ Top = activations[n]
    BY DEF IInv, TypeOK, Depth, Top
  <1>2. [activations[n] EXCEPT !.saved = w] \in Activation
    BY <1>1, ActivationFields DEF IInv, Activation
  <1>3. /\ activations' \in Seq(Activation)
        /\ Depth' = n
        /\ activations'[n] = [activations[n] EXCEPT !.saved = w]
        /\ \A i \in 1 .. n : i # n => activations'[i] = activations[i]
    BY SMTT(40), <1>1, <1>2 DEF Depth
  <1>4. Top' = activations'[n]
    BY <1>3 DEF Top, Depth
  <1>5. \A i \in 1 .. n :
          /\ activations'[i].exc = activations[i].exc
          /\ activations'[i].ret = activations[i].ret
          /\ activations'[i].ctx = activations[i].ctx
          /\ activations'[i].at = activations[i].at
          /\ activations'[i].base = activations[i].base
          /\ activations'[i].saved = IF i = n THEN w ELSE activations[i].saved
    <2> TAKE i \in 1 .. n
    <2>1. activations[i] \in Activation
      BY ActivationFields DEF IInv
    <2>2. CASE i = n
      BY <1>3, <2>1, <2>2 DEF Activation
    <2>3. CASE i # n
      BY <1>3, <2>3
    <2> QED BY <2>2, <2>3
  <1>6. \A i \in 1 .. n : i # n =>
          HandlerSP(activations'[i]) = HandlerSP(activations[i])
    BY <1>3
  <1>7. TypeOK'
    BY <1>3 DEF Executes, IInv, TypeOK
  <1>8. EntryInv'
    BY <1>3 DEF Executes, IInv, EntryInv
  <1>9. LayoutInv'
    <2>1. ASSUME NEW i \in 1 .. n
          PROVE  /\ activations'[i].base \in PspTop .. MspTop
                 /\ activations'[i].base > MspTop - (FrameSize + 1) * i
      BY <1>5 DEF IInv, LayoutInv
    <2>2. ASSUME NEW i \in 1 .. n, NEW j \in 1 .. n, i < j
          PROVE  activations'[j].base + FrameSize <= HandlerSP(activations'[i])
      <3>1. i # n
        BY <1>1, <2>2
      <3>2. activations[j].base + FrameSize <= HandlerSP(activations[i])
        BY <2>2 DEF IInv, LayoutInv
      <3>3. /\ HandlerSP(activations'[i]) = HandlerSP(activations[i])
            /\ activations'[j].base = activations[j].base
        BY <1>5, <1>6, <3>1
      <3> QED BY <3>2, <3>3
    <2>3. ASSUME NEW i \in 2 .. n
          PROVE  /\ activations'[i].ret = RETURN_HANDLER_MSP
                 /\ activations'[i].base
                      = HandlerSP(activations'[i - 1]) - FrameSize
      <3>1. i \in 1 .. n /\ i - 1 \in 1 .. n /\ i - 1 # n
        BY <1>1, <2>3
      <3>2. /\ activations[i].ret = RETURN_HANDLER_MSP
            /\ activations[i].base = HandlerSP(activations[i - 1]) - FrameSize
        BY <2>3 DEF IInv, LayoutInv
      <3>3. /\ HandlerSP(activations'[i - 1]) = HandlerSP(activations[i - 1])
            /\ activations'[i].base = activations[i].base
            /\ activations'[i].ret = activations[i].ret
        BY <1>5, <1>6, <3>1
      <3> QED BY <3>2, <3>3
    <2>4. /\ activations'[1].ret \in {RETURN_THREAD_MSP, RETURN_THREAD_PSP}
          /\ activations'[1].base = MspTop -
               IF UsePsp(activations'[1].ret) THEN 0 ELSE FrameSize
      <3>1. 1 \in 1 .. n
        BY <1>1
      <3> QED BY <1>1, <1>5, <3>1 DEF IInv, LayoutInv
    <2>5. ASSUME NEW i \in 1 .. n
          PROVE  activations'[i].at = IF UsePsp(activations'[i].ret)
                                      THEN PspTop - FrameSize
                                      ELSE activations'[i].base
      BY <1>5 DEF IInv, LayoutInv
    <2> HIDE DEF n
    <2> QED BY <1>3, <2>1, <2>2, <2>3, <2>4, <2>5 DEF LayoutInv
  <1>10. FramesIntact'
    <2>1. ASSUME NEW i \in 1 .. n
          PROVE  Holds(mem', activations[i])
      <3> DEFINE a == activations[i]
      <3>1. /\ mem[a.at]     = a.ctx.gpr
            /\ mem[a.at + 1] = a.ctx.lr
            /\ mem[a.at + 2] = a.ctx.pc
            /\ mem[a.at + 3] = a.ctx.psr
            /\ a.saved # 0 => mem[a.base - 1] = a.saved
        BY <2>1 DEF IInv, FramesIntact, Holds
      <3>2. /\ a.at \in Nat
            /\ \/ a.at = PspTop - FrameSize
               \/ a.at >= msp /\ a.at + FrameSize <= MspTop
        BY <2>1, FramePlace
      <3>3. msp \in Nat /\ msp >= PspTop /\ msp <= MspTop
        BY StackBounds
      <3>7. /\ a.base \in Nat /\ a.base <= MspTop
            /\ a.saved # 0 => a.base - 1 >= msp
        <4>1. /\ a.base \in Nat
              /\ a.saved # 0 => HandlerSP(a) = a.base - 1
              /\ HandlerSP(a) >= msp
          BY <2>1, StackBounds, ActivationFields DEF IInv
        <4>2. a.base <= MspTop
          BY <2>1, <4>1 DEF IInv, LayoutInv
        <4> QED BY <4>1, <4>2
      <3> HIDE DEF a
      <3>4. ASSUME NEW k \in {0, 1, 2, 3}
            PROVE  mem'[a.at + k] = mem[a.at + k]
        <4>1. a.at + k \in Addr /\ (a.at + k >= msp \/ a.at + k < PspTop)
          BY <3>2, <3>3, FrameAddr
        <4> QED BY <4>1
      <3>5. mem'[a.at] = mem[a.at]
        BY <3>2, <3>4
      <3>6. ASSUME a.saved # 0
            PROVE  mem'[a.base - 1] = mem[a.base - 1]
        <4>3. a.base - 1 \in Addr /\ a.base - 1 >= msp
          BY SMTT(40), <3>3, <3>6, <3>7, StackAssumption
        <4> QED BY <4>3
      <3> QED BY <3>1, <3>4, <3>5, <3>6 DEF Holds, a
    <2>2. ASSUME NEW i \in 1 .. n
          PROVE  Holds(mem', activations'[i])
      <3>1. CASE i # n
        BY <1>3, <2>1, <2>2, <3>1
      <3>2. CASE i = n
        <4>1. Holds(mem', activations[n])
          BY <1>1, <2>1
        <4>2. /\ activations'[n].at = activations[n].at
              /\ activations'[n].ctx = activations[n].ctx
              /\ activations'[n].base = Top.base
              /\ activations'[n].saved = w
          BY <1>1, <1>5
        <4> QED BY <3>2, <4>1, <4>2 DEF Holds
      <3> QED BY <3>1, <3>2
    <2> HIDE DEF n
    <2> QED BY <1>3, <2>2 DEF FramesIntact
  <1>11. ContextInv'
    <2>1. ASSUME NEW i \in 1 .. n, NEW a, a = activations'[i]
          PROVE  /\ a.exc # 0
                 /\ a.ctx.sp = a.at + FrameSize
                 /\ a.ctx.psel = UsePsp(a.ret)
                 /\ a.ctx.psr = IF i = 1 THEN 0 ELSE activations'[i - 1].exc
                 /\ a.saved \in ExcReturns => a.saved = a.ret
                 /\ a.ctx.lr \in ExcReturns
                      => i > 1 /\ a.ctx.lr = activations'[i - 1].ret
                 /\ i > 1 => a.ctx.lr # 0
      <3>1. i > 1 => /\ activations'[i - 1].exc = activations[i - 1].exc
                     /\ activations'[i - 1].ret = activations[i - 1].ret
        BY <1>1, <1>5
      <3>2. a.saved \in ExcReturns => a.saved = a.ret
        BY <1>1, <1>5, <2>1 DEF IInv, ContextInv
      <3>3. /\ a.exc = activations[i].exc /\ a.ret = activations[i].ret
            /\ a.ctx = activations[i].ctx /\ a.at = activations[i].at
        BY <1>5, <2>1
      <3> QED BY <1>1, <3>1, <3>2, <3>3 DEF IInv, ContextInv
    <2> HIDE DEF n
    <2> QED BY ZenonT(40), <1>3, <2>1 DEF ContextInv
  <1>12. RegisterInv'
    <2>1. /\ activations # <<>> /\ activations' # <<>>
          /\ Top'.exc = Top.exc /\ Top'.ret = Top.ret
          /\ activations'[1].ret = activations[1].ret
      BY <1>1, <1>3, <1>4, <1>5 DEF Depth
    <2>2. IpsrNamesInnermost' /\ NoStrayExcReturn'
      BY <2>1 DEF IInv, RegisterInv, IpsrNamesInnermost, NoStrayExcReturn
    <2>3. Depth' = Depth
      BY <1>3
    <2> QED BY <1>1, <2>1, <2>2, <2>3 DEF IInv, RegisterInv, UsePsp
  <1> QED BY <1>7, <1>8, <1>9, <1>10, <1>11, <1>12 DEF IInv
-----------------------------------------------------------------------------
(* Exception return *)

(***************************************************************************)
(* try_exception_return with the EXC_RETURN value of the innermost         *)
(* activation, and MSP just above what its handler pushed, restores the    *)
(* context that the activation interrupted.                                *)
(***************************************************************************)
LEMMA ReturnStep ==
    ASSUME IInv, Executes, Depth > 0, TryExceptionReturn(Top.ret, Top.base)
    PROVE  IInv' /\ Context' = Top.ctx
  <1> DEFINE n == Depth
             a == activations[n]
             v == a.ret
             sp == IF UsePsp(v) THEN psp ELSE a.base
  <1>1. /\ n \in Nat /\ n > 0 /\ n \in 1 .. n
        /\ activations \in Seq(Activation)
        /\ Top = a
    BY DEF IInv, TypeOK, Depth, Top
  <1>2. /\ a.at \in Nat /\ a.base \in Nat /\ a.ctx \in ContextType
        /\ v \in ExcReturns
    BY <1>1, ActivationFields DEF IInv
  <1>3. /\ gpr' = mem[sp] /\ lr' = mem[sp + 1]
        /\ pc' = mem[sp + 2] /\ ipsr' = mem[sp + 3]
        /\ UsePsp(v) => psp' = psp + FrameSize /\ msp' = a.base
        /\ ~UsePsp(v) => msp' = a.base + FrameSize /\ psp' = psp
        /\ ToThread(v) => spsel' = UsePsp(v)
        /\ ~ToThread(v) => spsel' = spsel
        /\ UNCHANGED <<irq, cur, primask, mem>>
        /\ activations' = SubSeq(activations, 1, Len(activations) - 1)
    BY <1>1 DEF TryExceptionReturn
  <1>4. /\ activations' \in Seq(Activation)
        /\ Depth' = n - 1
        /\ \A i \in 1 .. n - 1 : activations'[i] = activations[i]
    BY <1>1, <1>3, DropLast DEF Depth
  <1>5. /\ a.at = IF UsePsp(v) THEN PspTop - FrameSize ELSE a.base
        /\ a.ctx.sp = a.at + FrameSize
        /\ a.ctx.psel = UsePsp(v)
        /\ a.ctx.psr = IF n = 1 THEN 0 ELSE activations[n - 1].exc
        /\ a.ctx.lr \in ExcReturns => n > 1 /\ a.ctx.lr = activations[n - 1].ret
        /\ n > 1 => a.ctx.lr # 0
    BY <1>1 DEF IInv, LayoutInv, ContextInv
  <1>6. /\ UsePsp(v) => n = 1
        /\ n = 1 <=> ToThread(v)
    <2>1. n = 1 => v \in {RETURN_THREAD_MSP, RETURN_THREAD_PSP}
      BY <1>1 DEF IInv, LayoutInv
    <2>2. n > 1 => v = RETURN_HANDLER_MSP
      BY <1>1 DEF IInv, LayoutInv
    <2>3. n = 1 \/ n > 1
      BY <1>1
    <2> QED BY <2>1, <2>2, <2>3 DEF UsePsp, ToThread, RETURN_THREAD_MSP,
               RETURN_THREAD_PSP, RETURN_HANDLER_MSP, EXC_RETURN
  <1>7. UsePsp(v) => psp = PspTop - FrameSize
    BY <1>1, <1>6 DEF IInv, RegisterInv
  <1>8. /\ gpr' = a.ctx.gpr /\ lr' = a.ctx.lr
        /\ pc' = a.ctx.pc /\ ipsr' = a.ctx.psr
    <2>1. sp = a.at
      BY <1>5, <1>7
    <2>2. Holds(mem, a)
      BY <1>1 DEF IInv, FramesIntact
    <2> QED BY <1>3, <2>1, <2>2 DEF Holds
  <1>9. msp' = IF n = 1 THEN MspTop ELSE HandlerSP(activations[n - 1])
    <2>1. CASE n = 1
      <3>1. a.base = MspTop - IF UsePsp(v) THEN 0 ELSE FrameSize
        BY <1>1, <2>1 DEF IInv, LayoutInv
      <3> QED BY <1>3, <2>1, <3>1, StackAssumption
    <2>2. CASE n > 1
      <3>1. a.base = HandlerSP(activations[n - 1]) - FrameSize
        BY <1>1, <2>2 DEF IInv, LayoutInv
      <3>2. HandlerSP(activations[n - 1]) \in Int
        BY <1>1, <2>2, ActivationFields DEF IInv
      <3> QED BY <1>3, <1>6, <2>2, <3>1, <3>2
    <2> QED BY <1>1, <2>1, <2>2
  <1>10. /\ msp' \in Nat /\ psp' \in Nat /\ spsel' \in BOOLEAN
         /\ a.ctx.sp = IF UsePsp(v) THEN psp' ELSE msp'
         /\ UsePsp(v) => psp' = PspTop
    <2>1. msp' \in Nat
      BY <1>2, <1>3
    <2>2. psp \in Nat /\ spsel \in BOOLEAN
      BY DEF IInv, TypeOK
    <2>3. psp' \in Nat /\ (UsePsp(v) => psp' = PspTop)
      BY <1>3, <1>7, <2>2, StackAssumption
    <2>4. spsel' \in BOOLEAN
      BY <1>3, <2>2 DEF UsePsp
    <2>5. a.ctx.sp = IF UsePsp(v) THEN psp' ELSE msp'
      BY <1>2, <1>3, <1>5, <2>3, StackAssumption
    <2> QED BY <2>1, <2>3, <2>4, <2>5
  <1> HIDE DEF n, a, v, sp
  <1>n. /\ n = Depth /\ a = activations[n] /\ v = a.ret
    BY DEF n, a, v
  <1>11. n > 1 => ipsr' # 0 /\ n - 1 \in 1 .. Depth
    <2> HAVE n > 1
    <2>1. n - 1 \in 1 .. Depth
      BY <1>1, <1>n
    <2>2. activations[n - 1].exc # 0
      BY <2>1 DEF IInv, ContextInv
    <2> QED BY <1>1, <1>5, <1>8, <2>1, <2>2
  <1>12. TypeOK'
    BY <1>2, <1>3, <1>4, <1>8, <1>10 DEF Executes, IInv, TypeOK, ContextType
  <1>13. EntryInv'
    <2>1. n <= MaxNest /\ Depth' <= MaxNest
      BY <1>1, <1>4, <1>n, StackAssumption DEF IInv, EntryInv
    <2> QED BY <1>3, <2>1 DEF Executes, IInv, EntryInv
  <1>14. LayoutInv'
    <2>1. \A i \in 1 .. Depth' : i \in 1 .. Depth /\ activations'[i] = activations[i]
      BY <1>1, <1>4, <1>n
    <2>2. \A i \in 2 .. Depth' : /\ i \in 2 .. Depth /\ i \in 1 .. Depth'
                                 /\ i - 1 \in 1 .. Depth'
      BY <1>1, <1>4, <1>n
    <2>3. Depth' > 0 => 1 \in 1 .. Depth' /\ Depth > 0
      BY <1>1, <1>4, <1>n
    <2> QED BY <2>1, <2>2, <2>3 DEF IInv, LayoutInv
  <1>15. FramesIntact'
    <2>1. \A i \in 1 .. Depth' : i \in 1 .. Depth /\ activations'[i] = activations[i]
      BY <1>1, <1>4, <1>n
    <2> QED BY <1>3, <2>1 DEF IInv, FramesIntact
  <1>16. ContextInv'
    <2>1. \A i \in 1 .. Depth' :
            /\ i \in 1 .. Depth /\ activations'[i] = activations[i]
            /\ i # 1 => activations'[i - 1] = activations[i - 1]
      BY <1>1, <1>4, <1>n
    <2>2. \A i \in 1 .. Depth' : i > 1 => i # 1
      OBVIOUS
    <2> QED BY <2>1, <2>2 DEF IInv, ContextInv
  <1>17. RegisterInv'
    <2>1. CASE n = 1
      <3>1. activations' = <<>> /\ Depth' = 0
        BY <1>4, <2>1, EmptySeq DEF Depth
      <3>2. ipsr' = 0 /\ lr' \notin ExcReturns /\ msp' = MspTop
        BY <1>5, <1>8, <1>9, <2>1
      <3>3. psp' \in {0, PspTop} /\ (spsel' => psp' = PspTop)
        BY <1>3, <1>6, <1>10, <1>n, <2>1 DEF IInv, RegisterInv
      <3> QED BY <3>1, <3>2, <3>3 DEF RegisterInv, IpsrNamesInnermost,
                 NoStrayExcReturn
    <2>2. CASE n > 1
      <3>1. /\ Top' = activations[n - 1] /\ Depth' > 0
            /\ activations'[1] = activations[1]
        BY <1>1, <1>4, <1>n, <2>2 DEF Top, Depth
      <3>2. activations' # <<>>
        BY <3>1 DEF Depth
      <3>3. /\ ipsr' = Top'.exc /\ msp' = HandlerSP(Top')
            /\ lr' \in ExcReturns => lr' = Top'.ret
            /\ lr' # 0 /\ psp' = psp
        BY <1>3, <1>5, <1>6, <1>8, <1>9, <2>2, <3>1
      <3>4. IF UsePsp(activations'[1].ret)
            THEN psp' = PspTop - FrameSize ELSE psp' \in {0, PspTop}
        BY <1>1, <1>n, <3>1, <3>3 DEF IInv, RegisterInv
      <3> QED BY <3>1, <3>2, <3>3, <3>4 DEF RegisterInv, IpsrNamesInnermost,
                 NoStrayExcReturn
    <2> QED BY <1>1, <2>1, <2>2
  <1>18. Context' = Top.ctx
    <2>1. CurrentSP' = a.ctx.sp /\ (spsel /\ ~InHandler)' = a.ctx.psel
      <3>1. CASE n = 1
        <4>1. ipsr' = 0 /\ spsel' = UsePsp(v)
          BY <1>3, <1>5, <1>6, <1>8, <3>1
        <4>2. ~InHandler'
          BY <4>1 DEF InHandler
        <4>3. CurrentSP' = IF UsePsp(v) THEN psp' ELSE msp'
          BY <4>1, <4>2 DEF CurrentSP
        <4>4. (spsel /\ ~InHandler)' = UsePsp(v)
          BY <4>1, <4>2 DEF UsePsp
        <4> QED BY <1>5, <1>10, <4>3, <4>4
      <3>2. CASE n > 1
        <4>1. ipsr' # 0 /\ ~UsePsp(v)
          BY <1>6, <1>11, <3>2
        <4>2. InHandler'
          BY <4>1 DEF InHandler
        <4>3. CurrentSP' = msp'
          BY <4>2 DEF CurrentSP
        <4>4. (spsel /\ ~InHandler)' = UsePsp(v)
          BY <4>1, <4>2 DEF UsePsp
        <4> QED BY <1>5, <1>10, <4>1, <4>3, <4>4
      <3> QED BY <1>1, <3>1, <3>2
    <2>2. Context' = [gpr |-> a.ctx.gpr, lr |-> a.ctx.lr, pc |-> a.ctx.pc,
                      psr |-> a.ctx.psr, sp |-> a.ctx.sp, psel |-> a.ctx.psel]
      BY <1>8, <2>1 DEF Context
    <2> QED BY <1>1, <1>2, <2>2 DEF ContextType
  <1> QED BY <1>12, <1>13, <1>14, <1>15, <1>16, <1>17, <1>18 DEF IInv

(***************************************************************************)
(* PUSH {LR}: the word goes below every frame.                             *)
(***************************************************************************)
LEMMA PushLrStep ==
    ASSUME IInv, NEW c \in Code, PushLr(c)
    PROVE  IInv'
  <1> USE DEF PushLr
  <1>1. /\ Depth \in Nat /\ Depth > 0 /\ Depth \in 1 .. Depth
        /\ Top = activations[Depth] /\ Top.saved = 0
        /\ activations \in Seq(Activation)
    <2>1. Depth # 0
      BY ThreadMode
    <2> QED BY <2>1 DEF IInv, TypeOK, Depth, Top
  <1>2. /\ lr \in Nat /\ lr # 0
        /\ lr \in ExcReturns => lr = Top.ret
    BY <1>1 DEF IInv, TypeOK, RegisterInv, NoStrayExcReturn
  <1>3. /\ msp \in Nat /\ msp > PspTop /\ msp <= MspTop
        /\ msp = Top.base /\ Top.base \in Nat
    <2>1. Top.base \in Nat
      BY <1>1, ActivationFields DEF IInv
    <2>2. msp = Top.base
      BY <1>1, <2>1, FreshHandlerSP DEF IInv, RegisterInv
    <2>3. /\ msp > MspTop - (FrameSize + 1) * Depth
          /\ Depth <= MaxNest
      BY <1>1, <2>2 DEF IInv, LayoutInv, EntryInv
    <2> QED BY SMTT(40), <1>1, <2>1, <2>2, <2>3, StackBounds, StackAssumption
  <1>4. msp - 1 \in Addr
    BY <1>3, StackAssumption
  <1>5. /\ mem' = [mem EXCEPT ![msp - 1] = lr]
        /\ mem \in [Addr -> Nat]
    BY DEF IInv, TypeOK
  <1>6. /\ mem' \in [Addr -> Nat]
        /\ mem'[msp - 1] = lr
        /\ \A x \in Addr : x # msp - 1 => mem'[x] = mem[x]
    BY <1>2, <1>4, <1>5
  <1>7. \A x \in Addr : x >= msp \/ x < PspTop => mem'[x] = mem[x]
    BY <1>3, <1>6, StackAssumption
  <1>8. activations' = [activations EXCEPT ![Depth].saved = lr]
    BY DEF Depth
  <1>9. Top' = [Top EXCEPT !.saved = lr]
    BY <1>1, <1>8 DEF Top, Depth
  <1>10. msp' \in Nat /\ msp' = HandlerSP(Top')
    <2>1. Top \in Activation
      BY <1>1, ActivationFields DEF IInv
    <2>2. Top'.saved = lr /\ Top'.base = msp
      BY <1>3, <1>9, <2>1 DEF Activation
    <2>3. Pushed(Top') = 1
      BY <1>2, <2>2 DEF Pushed
    <2>4. HandlerSP(Top') = msp - 1
      BY <2>2, <2>3 DEF HandlerSP
    <2> QED BY <1>3, <2>4, StackAssumption
  <1>11. pc' \in Nat
    BY ExcReturnFacts
  <1>12. Executes /\ UNCHANGED <<irq, cur, lr, gpr, ipsr, spsel, psp, primask>>
    OBVIOUS
  <1> QED BY <1>1, <1>2, <1>3, <1>6, <1>7, <1>8, <1>10, <1>11, <1>12, SavedStep

(***************************************************************************)
(* POP {PC}: the word popped is the word pushed.  If it is an EXC_RETURN   *)
(* value it is the one of the innermost activation.                        *)
(***************************************************************************)
LEMMA PopPcStep ==
    ASSUME IInv, PopPc
    PROVE  /\ IInv'
           /\ Len(activations') < Len(activations) => Context' = Top.ctx
  <1>1. /\ Depth \in Nat /\ Depth > 0 /\ Depth \in 1 .. Depth
        /\ Top = activations[Depth] /\ Top.saved # 0
        /\ activations \in Seq(Activation)
    <2>1. Depth # 0 /\ Top.saved # 0
      BY ThreadMode DEF PopPc
    <2> QED BY <2>1 DEF IInv, TypeOK, Depth, Top
  <1>2. /\ Top.base \in Nat /\ Top.saved \in Nat
        /\ msp = Top.base - 1 /\ msp \in Nat
    <2>1. HandlerSP(Top) = Top.base - 1 /\ Top.base \in Nat /\ Top.saved \in Nat
      BY <1>1, ActivationFields DEF IInv
    <2>2. msp = HandlerSP(Top) /\ msp \in Nat
      BY <1>1 DEF IInv, RegisterInv, TypeOK
    <2> QED BY <2>1, <2>2
  <1>3. mem[msp] = Top.saved
    BY <1>1, <1>2 DEF IInv, FramesIntact, Holds
  <1>4. Top.saved \in ExcReturns => Top.saved = Top.ret
    BY <1>1 DEF IInv, ContextInv
  <1>5. CASE Top.saved \in ExcReturns
    <2>1. Executes /\ TryExceptionReturn(Top.ret, msp + 1)
      BY <1>3, <1>4, <1>5 DEF PopPc
    <2>2. msp + 1 = Top.base
      BY <1>2
    <2> QED BY <1>1, <2>1, <2>2, ReturnStep
  <1>6. CASE Top.saved \notin ExcReturns
    <2>1. /\ Executes
          /\ pc' = Top.saved /\ msp' = msp + 1
          /\ activations' = [activations EXCEPT ![Len(activations)].saved = 0]
          /\ UNCHANGED <<irq, cur, lr, gpr, ipsr, spsel, psp, primask, mem>>
      BY <1>3, <1>6 DEF PopPc
    <2>2. activations' = [activations EXCEPT ![Depth].saved = 0]
      BY <2>1 DEF Depth
    <2>3. Top \in Activation
      BY <1>1, ActivationFields DEF IInv
    <2>4. Top' = [Top EXCEPT !.saved = 0] /\ Len(activations') = Len(activations)
      BY <1>1, <2>2 DEF Top, Depth
    <2>5. Top'.saved = 0 /\ Top'.base = Top.base
      BY <2>3, <2>4 DEF Activation
    <2>6. msp' \in Nat /\ msp' = HandlerSP(Top')
      <3>1. HandlerSP(Top') = Top.base
        BY <1>2, <2>5, FreshHandlerSP
      <3> QED BY <1>2, <2>1, <3>1
    <2>7. mem' \in [Addr -> Nat] /\ pc' \in Nat
      BY <1>2, <2>1 DEF IInv, TypeOK
    <2>8. 0 \notin ExcReturns
      BY ExcReturnFacts
    <2>9. IInv'
      BY <1>1, <2>1, <2>2, <2>6, <2>7, <2>8, SavedStep
    <2> QED BY <1>1, <2>4, <2>9
  <1> QED BY <1>5, <1>6

(***************************************************************************)
(* BX LR: an EXC_RETURN value in LR is the one of the innermost activation.*)
(***************************************************************************)
LEMMA BxLrStep ==
    ASSUME IInv, BxLr
    PROVE  /\ IInv'
           /\ Len(activations') < Len(activations) => Context' = Top.ctx
  <1>1. CASE lr \in ExcReturns
    <2>1. activations # <<>> /\ lr = Top.ret
      BY <1>1 DEF IInv, RegisterInv, NoStrayExcReturn
    <2>2. /\ Depth \in Nat /\ Depth > 0 /\ Depth \in 1 .. Depth
          /\ Top = activations[Depth]
      <3>1. activations \in Seq(Activation)
        BY DEF IInv, TypeOK
      <3> QED BY <2>1, <3>1, EmptySeq DEF Depth, Top
    <2>3. Executes /\ TryExceptionReturn(Top.ret, msp) /\ Top.saved = 0
      BY <1>1, <2>1 DEF BxLr
    <2>4. msp = Top.base
      <3>1. Top.base \in Nat
        BY <2>2, ActivationFields DEF IInv
      <3> QED BY <2>2, <2>3, <3>1, FreshHandlerSP DEF IInv, RegisterInv
    <2> QED BY <2>2, <2>3, <2>4, ReturnStep
  <1>2. CASE lr \notin ExcReturns
    <2>1. /\ Executes /\ pc' = lr
          /\ UNCHANGED <<irq, cur, lr, gpr, ipsr, spsel, msp, psp, primask,
                         mem, activations>>
      BY <1>2 DEF BxLr
    <2>2. IrqOK(irq)
      BY DEF IrqOK, IInv, TypeOK, EntryInv
    <2>3. IInv'
      BY <2>1, <2>2, RegisterStep DEF IInv, TypeOK
    <2>4. Len(activations) \in Nat
      BY DEF IInv, TypeOK
    <2> QED BY <2>1, <2>3, <2>4
  <1> QED BY <1>1, <1>2

-----------------------------------------------------------------------------
(* The theorems *)

(***************************************************************************)
(* Only an exception return shortens the list of activations.              *)
(***************************************************************************)
LEMMA StepIInv ==
    ASSUME IInv, [Next]_vars
    PROVE  /\ IInv'
           /\ Len(activations') < Len(activations) => Context' = Top.ctx
  <1> DEFINE Longer == Len(activations') >= Len(activations)
  <1>1. activations \in Seq(Activation) /\ Len(activations) \in Nat
    BY DEF IInv, TypeOK
  <1>2. CASE UNCHANGED vars
    <2>1. UNCHANGED <<mem, activations>>
      BY <1>2 DEF vars
    <2>2. TypeOK' /\ EntryInv' /\ RegisterInv'
      BY <1>2 DEF vars, registers, IInv, TypeOK, EntryInv, RegisterInv,
         IpsrNamesInnermost, NoStrayExcReturn, Depth, Top
    <2> QED BY <1>1, <2>1, <2>2, StacksUntouched DEF IInv
  <1>3. ASSUME NEW f \in PendingFlags, CheckPendingExceptions(f)
        PROVE  IInv' /\ UNCHANGED activations
    BY <1>3, CheckStep DEF CheckPendingExceptions
  <1>4. CASE NothingPending
    BY <1>1, <1>4, NothingPendingStep DEF NothingPending
  <1>5. CASE Stacking
    <2>1. Len(activations') = Len(activations) + 1
      BY <1>1, <1>5 DEF Stacking
    <2> QED BY <1>1, <1>5, <2>1, StackingStep
  <1>6. CASE Vectoring
    BY <1>1, <1>6, VectoringStep DEF Vectoring
  <1>7. ASSUME NEW c \in Code,
               \/ \E v \in Values : Plain(c, v)
               \/ \E r \in Code : BranchLink(c, r)
               \/ Svc(c)
               \/ \E s \in Stores : DeviceStore(c, s)
               \/ \E m \in MaskValues : SetPrimask(c, m)
               \/ MsrPsp(c)
               \/ \E s \in BOOLEAN : MsrControl(c, s)
        PROVE  IInv' /\ UNCHANGED activations
    BY <1>7, PlainSteps DEF Plain, BranchLink, Svc, DeviceStore, DeviceAccess,
       SetPrimask, MsrPsp, MsrControl
  <1>8. ASSUME NEW c \in Code, PushLr(c)
        PROVE  IInv' /\ Len(activations') = Len(activations)
    <2>1. Len(activations') = Len(activations)
      BY <1>1, <1>8 DEF PushLr
    <2> QED BY <1>8, <2>1, PushLrStep
  <1>9. CASE BxLr
    BY <1>9, BxLrStep
  <1>10. CASE PopPc
    BY <1>10, PopPcStep
  <1>11. ASSUME NEW e \in Async, Raise(e)
         PROVE  IInv' /\ UNCHANGED activations
    BY <1>11, RaiseStep DEF Raise
  <1>12. CASE Next
    <2>1. CASE Entry
      BY <1>1, <1>3, <1>4, <1>5, <1>6, <2>1 DEF Entry
    <2>2. CASE Instruction
      BY <1>1, <1>7, <1>8, <1>9, <1>10, <2>2 DEF Instruction
    <2>3. CASE \E e \in Async : Raise(e)
      BY <1>1, <1>11, <2>3
    <2> QED BY <1>12, <2>1, <2>2, <2>3 DEF Next, CpuThread
  <1> QED BY <1>2, <1>12

(***************************************************************************)
(* In every reachable state, whatever the program, the vectors and the     *)
(* depth of nesting, the frames of all live activations are intact, lie    *)
(* where the stack pointers say, and LR and IPSR belong to the innermost.  *)
(***************************************************************************)
THEOREM Invariance == Spec => []IInv
  <1>1. Init => IInv
    BY InitIInv
  <1>2. IInv /\ [Next]_vars => IInv'
    BY StepIInv
  <1> QED BY <1>1, <1>2, PTL DEF Spec

(* Every variable keeps its type; no stack pointer leaves its range. *)
THEOREM TypeCorrect == Spec => []TypeOK
  <1>1. IInv => TypeOK
    BY DEF IInv
  <1> QED BY <1>1, Invariance, PTL

(* IPSR always names the innermost live exception. *)
THEOREM IpsrCorrect == Spec => []IpsrNamesInnermost
  <1>1. IInv => IpsrNamesInnermost
    BY DEF IInv, RegisterInv
  <1> QED BY <1>1, Invariance, PTL

(* Entries and returns leak no stack on either bank. *)
THEOREM StacksBalancedCorrect == Spec => []StacksBalanced
  <1>1. IInv => StacksBalanced
    <2> SUFFICES ASSUME IInv, activations = <<>>
                 PROVE  msp = MspTop /\ psp \in {0, PspTop}
      BY DEF StacksBalanced
    <2>1. Depth = 0
      BY DEF Depth
    <2> QED BY <2>1 DEF IInv, RegisterInv
  <1> QED BY <1>1, Invariance, PTL

(* LR holds an EXC_RETURN value only in the handler it was made for. *)
THEOREM NoStrayExcReturnCorrect == Spec => []NoStrayExcReturn
  <1>1. IInv => NoStrayExcReturn
    BY DEF IInv, RegisterInv
  <1> QED BY <1>1, Invariance, PTL

(***************************************************************************)
(* Every exception return restores exactly the context that its entry      *)
(* interrupted, however deep exceptions nested in between.                 *)
(***************************************************************************)
THEOREM ContextRestored == Spec => ReturnRestoresContext
  <1>1. IInv /\ [Next]_vars
          => [Len(activations') < Len(activations) => Context' = Top.ctx]_vars
    BY StepIInv
  <1> QED BY <1>1, Invariance, PTL DEF Spec, ReturnRestoresContext

-----------------------------------------------------------------------------
(* CPU implements ContextNesting. *)

(* The contexts in progress form a sequence, one per activation. *)
LEMMA InterruptedSeq ==
    TypeOK => /\ Interrupted \in Seq(ContextType)
              /\ Len(Interrupted) = Len(activations)
              /\ \A i \in 1 .. Len(activations) :
                   Interrupted[i] = activations[i].ctx
  <1> HAVE TypeOK
  <1>1. \A i \in 1 .. Len(activations) : activations[i].ctx \in ContextType
    BY ActivationFields DEF Depth
  <1>2. Len(activations) \in Nat
    BY DEF TypeOK
  <1> QED BY <1>1, <1>2 DEF Interrupted

(* The context in use is a context. *)
LEMMA ContextInType == TypeOK => Context \in ContextType
  <1> HAVE TypeOK
  <1>1. CurrentSP \in Nat /\ (spsel /\ ~InHandler) \in BOOLEAN
    BY DEF TypeOK, CurrentSP
  <1> QED BY <1>1 DEF TypeOK, Context, ContextType

(* A step that keeps the contexts in progress keeps the sequence of them. *)
LEMMA SameInterrupted ==
    ASSUME IInv, IInv', Len(activations') = Len(activations),
           \A i \in 1 .. Len(activations) :
             activations'[i].ctx = activations[i].ctx
    PROVE  Interrupted' = Interrupted
  BY DEF Interrupted

(* Every step but entry and return keeps the mode and the contexts. *)
LEMMA RunSteps ==
    ASSUME IInv, IInv', UNCHANGED ipsr,
           \/ UNCHANGED activations
           \/ \E w \in Nat :
                activations' = [activations EXCEPT ![Len(activations)].saved = w]
    PROVE  Nesting!Run
  <1>1. activations \in Seq(Activation) /\ Len(activations) \in Nat
    BY DEF IInv, TypeOK
  <1>2. Interrupted' = Interrupted
    <2>1. CASE UNCHANGED activations
      BY <1>1, <2>1, SameInterrupted
    <2>2. ASSUME NEW w \in Nat,
                 activations' = [activations EXCEPT ![Len(activations)].saved = w]
          PROVE  Interrupted' = Interrupted
      <3>1. Len(activations') = Len(activations)
        BY <1>1, <2>2
      <3>2. ASSUME NEW i \in 1 .. Len(activations)
            PROVE  activations'[i].ctx = activations[i].ctx
        <4>1. activations[i] \in Activation
          BY <1>1
        <4> QED BY <1>1, <2>2, <4>1 DEF Activation
      <3> QED BY <3>1, <3>2, SameInterrupted
    <2> QED BY <2>1, <2>2
  <1>3. Context' \in ContextType
    <2>1. TypeOK'
      BY DEF IInv
    <2>2. TypeOK' => (Context \in ContextType)'
      BY ContextInType, PTL
    <2> QED BY <2>1, <2>2
  <1>4. Context'.psr = Context.psr
    BY DEF Context
  <1> QED BY <1>2, <1>3, <1>4 DEF Nesting!Run

(* Stacking is an entry of the abstract specification. *)
LEMMA StackingEnters ==
    ASSUME IInv, IInv', Stacking
    PROVE  Nesting!Enter
  <1>1. /\ activations \in Seq(Activation) /\ activations' \in Seq(Activation)
        /\ Len(activations) \in Nat
    BY DEF IInv, TypeOK
  <1> DEFINE new == [exc |-> cur, ret |-> ExcReturnValue, ctx |-> Context,
                     at |-> StackingSP - FrameSize, base |-> msp', saved |-> 0]
  <1>2. activations' = Append(activations, new)
    BY DEF Stacking
  <1>3. /\ Len(activations') = Len(activations) + 1
        /\ \A i \in 1 .. Len(activations) : activations'[i] = activations[i]
        /\ activations'[Len(activations) + 1] = new
    BY <1>1, <1>2
  <1>4. new.ctx = Context
    OBVIOUS
  <1> HIDE DEF new
  <1>5. Context \in ContextType /\ Context' \in ContextType
    <2>1. TypeOK /\ TypeOK'
      BY DEF IInv
    <2>2. TypeOK' => (Context \in ContextType)'
      BY ContextInType, PTL
    <2> QED BY <2>1, <2>2, ContextInType
  <1>6. /\ Interrupted \in Seq(ContextType)
        /\ Len(Interrupted) = Len(activations)
        /\ \A i \in 1 .. Len(activations) : Interrupted[i] = activations[i].ctx
    BY InterruptedSeq DEF IInv
  <1>7. /\ Interrupted' \in Seq(ContextType)
        /\ Len(Interrupted') = Len(activations')
        /\ \A i \in 1 .. Len(activations') :
             Interrupted'[i] = activations'[i].ctx
    <2>1. TypeOK'
      BY DEF IInv
    <2>2. TypeOK' =>
            (/\ Interrupted \in Seq(ContextType)
             /\ Len(Interrupted) = Len(activations)
             /\ \A i \in 1 .. Len(activations) :
                  Interrupted[i] = activations[i].ctx)'
      BY InterruptedSeq, PTL
    <2> QED BY <2>1, <2>2
  <1>8. /\ Append(Interrupted, Context) \in Seq(ContextType)
        /\ Len(Append(Interrupted, Context)) = Len(activations) + 1
        /\ \A i \in 1 .. Len(activations) :
             Append(Interrupted, Context)[i] = Interrupted[i]
        /\ Append(Interrupted, Context)[Len(activations) + 1] = Context
    BY <1>5, <1>6, AppendProperties
  <1>9. Interrupted' = Append(Interrupted, Context)
    <2>1. ASSUME NEW i \in 1 .. Len(Interrupted')
          PROVE  Interrupted'[i] = Append(Interrupted, Context)[i]
      <3>0. /\ i \in 1 .. Len(activations')
            /\ i \in 1 .. Len(activations) \/ i = Len(activations) + 1
        <4>1. Len(Interrupted') = Len(activations) + 1
          BY <1>3, <1>7
        <4> QED BY <1>1, <1>7, <4>1
      <3>1. Interrupted'[i] = activations'[i].ctx
        BY <1>7, <3>0
      <3>2. CASE i = Len(activations) + 1
        BY <1>3, <1>4, <1>8, <3>1, <3>2
      <3>3. CASE i \in 1 .. Len(activations)
        <4>1. activations'[i] = activations[i]
          BY <1>3, <3>3
        <4>2. activations[i].ctx = Interrupted[i]
          BY <1>6, <3>3
        <4>3. Interrupted[i] = Append(Interrupted, Context)[i]
          BY <1>8, <3>3
        <4> QED BY <3>1, <4>1, <4>2, <4>3
      <3> QED BY <3>0, <3>2, <3>3
    <2> QED BY <1>3, <1>7, <1>8, <2>1, SeqEqual
  <1>10. Context'.psr # 0
    BY DEF Stacking, Context, IInv, EntryInv
  <1> QED BY <1>5, <1>9, <1>10 DEF Nesting!Enter

(* An exception return is a return of the abstract specification. *)
LEMMA ReturnReturns ==
    ASSUME IInv, IInv', Len(activations) > 0, Context' = Top.ctx,
           activations' = SubSeq(activations, 1, Len(activations) - 1)
    PROVE  Nesting!Return
  <1>1. activations \in Seq(Activation) /\ Len(activations) \in Nat
    BY DEF IInv, TypeOK
  <1>2. /\ Len(activations') = Len(activations) - 1
        /\ \A i \in 1 .. Len(activations') : activations'[i] = activations[i]
    BY <1>1, DropLast
  <1>3. /\ Interrupted \in Seq(ContextType)
        /\ Len(Interrupted) = Len(activations)
        /\ \A i \in 1 .. Len(activations) : Interrupted[i] = activations[i].ctx
    BY InterruptedSeq DEF IInv
  <1>4. /\ Interrupted' \in Seq(ContextType)
        /\ Len(Interrupted') = Len(activations')
        /\ \A i \in 1 .. Len(activations') :
             Interrupted'[i] = activations'[i].ctx
    <2>1. TypeOK'
      BY DEF IInv
    <2>2. TypeOK' =>
            (/\ Interrupted \in Seq(ContextType)
             /\ Len(Interrupted) = Len(activations)
             /\ \A i \in 1 .. Len(activations) :
                  Interrupted[i] = activations[i].ctx)'
      BY InterruptedSeq, PTL
    <2> QED BY <2>1, <2>2
  <1>5. /\ SubSeq(Interrupted, 1, Len(Interrupted) - 1) \in Seq(ContextType)
        /\ Len(SubSeq(Interrupted, 1, Len(Interrupted) - 1))
             = Len(Interrupted) - 1
        /\ \A i \in 1 .. Len(SubSeq(Interrupted, 1, Len(Interrupted) - 1)) :
             SubSeq(Interrupted, 1, Len(Interrupted) - 1)[i] = Interrupted[i]
    BY <1>3, DropLast
  <1>6. Interrupted' = SubSeq(Interrupted, 1, Len(Interrupted) - 1)
    <2>1. ASSUME NEW i \in 1 .. Len(Interrupted')
          PROVE  Interrupted'[i] = SubSeq(Interrupted, 1, Len(Interrupted) - 1)[i]
      <3>1. i \in 1 .. Len(activations') /\ i \in 1 .. Len(activations)
        BY <1>1, <1>2, <1>4
      <3> QED BY <1>2, <1>3, <1>4, <1>5, <3>1
    <2>2. Len(Interrupted') = Len(SubSeq(Interrupted, 1, Len(Interrupted) - 1))
      BY <1>2, <1>3, <1>4, <1>5
    <2> QED BY <1>4, <1>5, <2>1, <2>2, SeqEqual
  <1>7. Interrupted # <<>> /\ Interrupted[Len(Interrupted)] = Top.ctx
    BY <1>1, <1>3, EmptySeq DEF Top
  <1> QED BY <1>6, <1>7 DEF Nesting!Return

(* An exception return, taken by BX LR or by POP {PC}. *)
LEMMA ReturnAction ==
    ASSUME IInv, IInv', [Next]_vars, activations # <<>>,
           activations' = SubSeq(activations, 1, Len(activations) - 1)
    PROVE  Nesting!Return
  <1>1. activations \in Seq(Activation)
    BY DEF IInv, TypeOK
  <1>2. Len(activations) \in Nat /\ Len(activations) > 0
    BY <1>1, EmptySeq
  <1>3. Len(activations') = Len(activations) - 1
    BY <1>1, <1>2, DropLast
  <1>4. Context' = Top.ctx
    BY <1>2, <1>3, StepIInv
  <1> QED BY <1>2, <1>4, ReturnReturns

(* Every step of the CPU is a step of the abstract specification. *)
LEMMA StepNesting ==
    ASSUME IInv, IInv', [Next]_vars
    PROVE  [Nesting!Next]_(Nesting!vars)
  <1>1. CASE UNCHANGED vars
    <2>1. Context' = Context /\ Interrupted' = Interrupted
      BY <1>1 DEF vars, registers, Context, CurrentSP, InHandler, Interrupted
    <2> QED BY <2>1 DEF Nesting!vars
  <1>2. CASE Entry
    <2>1. CASE Stacking
      BY <2>1, StackingEnters DEF Nesting!Next
    <2>2. CASE (\E f \in PendingFlags : CheckPendingExceptions(f))
               \/ NothingPending \/ Vectoring
      <3>1. UNCHANGED <<ipsr, activations>>
        BY <2>2 DEF CheckPendingExceptions, NothingPending, Vectoring, registers
      <3> QED BY <3>1, RunSteps DEF Nesting!Next
    <2> QED BY <1>2, <2>1, <2>2 DEF Entry
  <1>3. ASSUME NEW c \in Code,
               \/ \E v \in Values : Plain(c, v)
               \/ \E r \in Code : BranchLink(c, r)
               \/ Svc(c)
               \/ \E s \in Stores : DeviceStore(c, s)
               \/ \E m \in MaskValues : SetPrimask(c, m)
               \/ MsrPsp(c)
               \/ \E s \in BOOLEAN : MsrControl(c, s)
        PROVE  Nesting!Next
    <2>1. UNCHANGED <<ipsr, activations>>
      BY <1>3 DEF Plain, BranchLink, Svc, DeviceStore, DeviceAccess,
         SetPrimask, MsrPsp, MsrControl
    <2> QED BY <2>1, RunSteps DEF Nesting!Next
  <1>4. ASSUME NEW c \in Code, PushLr(c)
        PROVE  Nesting!Next
    <2>1. lr \in Nat
      BY DEF IInv, TypeOK
    <2>2. /\ UNCHANGED ipsr
          /\ activations' = [activations EXCEPT ![Len(activations)].saved = lr]
      BY <1>4 DEF PushLr
    <2> QED BY <2>1, <2>2, RunSteps DEF Nesting!Next
  <1>5. CASE BxLr
    <2>1. CASE lr \in ExcReturns
      <3>1. activations # <<>>
        BY <2>1 DEF IInv, RegisterInv, NoStrayExcReturn
      <3>2. activations' = SubSeq(activations, 1, Len(activations) - 1)
        BY <1>5, <2>1 DEF BxLr, TryExceptionReturn
      <3> QED BY <3>1, <3>2, ReturnAction DEF Nesting!Next
    <2>2. CASE lr \notin ExcReturns
      <3>1. UNCHANGED <<ipsr, activations>>
        BY <1>5, <2>2 DEF BxLr
      <3> QED BY <3>1, RunSteps DEF Nesting!Next
    <2> QED BY <2>1, <2>2
  <1>6. CASE PopPc
    <2>1. CASE mem[msp] \in ExcReturns
      <3>1. activations # <<>>
        BY <1>6 DEF PopPc, InHandler, IInv, RegisterInv, IpsrNamesInnermost
      <3>2. activations' = SubSeq(activations, 1, Len(activations) - 1)
        BY <1>6, <2>1 DEF PopPc, TryExceptionReturn
      <3> QED BY <3>1, <3>2, ReturnAction DEF Nesting!Next
    <2>2. CASE mem[msp] \notin ExcReturns
      <3>1. /\ UNCHANGED ipsr
            /\ activations' = [activations EXCEPT ![Len(activations)].saved = 0]
        BY <1>6, <2>2 DEF PopPc
      <3> QED BY <3>1, RunSteps DEF Nesting!Next
    <2> QED BY <2>1, <2>2
  <1>7. ASSUME NEW e \in Async, Raise(e)
        PROVE  Nesting!Next
    <2>1. UNCHANGED <<ipsr, activations>>
      BY <1>7 DEF Raise, registers
    <2> QED BY <2>1, RunSteps DEF Nesting!Next
  <1> QED BY <1>1, <1>2, <1>3, <1>4, <1>5, <1>6, <1>7
          DEF Next, CpuThread, Instruction

(***************************************************************************)
(* Entry, return and everything between them implement nested contexts,    *)
(* for every program, every vector table and every depth of nesting.       *)
(***************************************************************************)
THEOREM ImplementsNestingCorrect == Spec => ImplementsNesting
  <1>1. Init => Nesting!Init
    <2> SUFFICES ASSUME Init
                 PROVE  Nesting!Init
      OBVIOUS
    <2>1. Context \in ContextType
      BY InitIInv, ContextInType DEF IInv
    <2>2. Context.psr = 0
      BY DEF Init, Context
    <2>3. Interrupted = <<>>
      <3>1. Interrupted \in Seq(ContextType) /\ Len(Interrupted) = 0
        BY InitIInv, InterruptedSeq DEF Init, IInv
      <3> QED BY <3>1, EmptySeq
    <2> QED BY <2>1, <2>2, <2>3 DEF Nesting!Init
  <1>2. IInv /\ IInv' /\ [Next]_vars => [Nesting!Next]_(Nesting!vars)
    BY StepNesting
  <1> QED BY <1>1, <1>2, Invariance, PTL
          DEF Spec, ImplementsNesting, Nesting!Spec

=============================================================================
