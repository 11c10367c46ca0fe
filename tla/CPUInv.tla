------------------------------- MODULE CPUInv --------------------------------
(***************************************************************************)
(* The inductive invariant behind the safety properties of CPU: where the  *)
(* frames of the live activations are on the two stacks, what they hold,   *)
(* and how LR, IPSR and the stack pointers relate to them.                 *)
(***************************************************************************)
EXTENDS CPU

Depth == Len(activations)

(* Words pushed by the handler of activation a. *)
Pushed(a) == IF a.saved = 0 THEN 0 ELSE 1

(* The stack pointer of the handler of activation a. *)
HandlerSP(a) == a.base - Pushed(a)

(* The phase of cpu_thread agrees with the exception being entered. *)
EntryInv ==
    /\ cur \in Exceptions \cup {0}
    /\ irq.ext \in Exceptions \cup {0}
    /\ phase \in {"stacking", "vectoring"} => cur # 0
    /\ phase = "stacking" => Depth < MaxNest
    /\ phase = "vectoring" => Depth > 0
    /\ Depth <= MaxNest

(* The frames lie below one another, from the tops of the stacks down. *)
LayoutInv ==
    /\ \A i \in 1 .. Depth :
         /\ activations[i].base \in PspTop .. MspTop
         /\ activations[i].base > MspTop - (FrameSize + 1) * i
    /\ \A i, j \in 1 .. Depth :
         i < j => activations[j].base + FrameSize <= HandlerSP(activations[i])
    /\ \A i \in 2 .. Depth :
         /\ activations[i].ret = RETURN_HANDLER_MSP
         /\ activations[i].base
              = HandlerSP(activations[i - 1]) - FrameSize
    /\ Depth > 0 =>
         /\ activations[1].ret \in {RETURN_THREAD_MSP, RETURN_THREAD_PSP}
         /\ activations[1].base = MspTop -
              IF UsePsp(activations[1].ret) THEN 0 ELSE FrameSize
    /\ \A i \in 1 .. Depth :
         activations[i].at = IF UsePsp(activations[i].ret)
                             THEN PspTop - FrameSize
                             ELSE activations[i].base

(* Memory m holds the frame of activation a and the word it has pushed. *)
Holds(m, a) ==
    /\ m[a.at]     = a.ctx.gpr
    /\ m[a.at + 1] = a.ctx.lr
    /\ m[a.at + 2] = a.ctx.pc
    /\ m[a.at + 3] = a.ctx.psr
    /\ a.saved # 0 => m[a.base - 1] = a.saved

(* Every frame still holds the context that its entry interrupted. *)
FramesIntact == \A i \in 1 .. Depth : Holds(mem, activations[i])

(* What the interrupted contexts were. *)
ContextInv ==
    \A i \in 1 .. Depth :
        LET a == activations[i] IN
        /\ a.exc # 0
        /\ a.ctx.sp = a.at + FrameSize
        /\ a.ctx.psel = UsePsp(a.ret)
        /\ a.ctx.psr = IF i = 1 THEN 0 ELSE activations[i - 1].exc
        /\ a.saved \in ExcReturns => a.saved = a.ret
        /\ a.ctx.lr \in ExcReturns => i > 1 /\ a.ctx.lr = activations[i - 1].ret
        /\ i > 1 => a.ctx.lr # 0

(* The registers belong to the innermost activation, or to Thread mode. *)
RegisterInv ==
    /\ IpsrNamesInnermost
    /\ NoStrayExcReturn
    /\ Depth > 0 => lr # 0
    /\ msp = IF Depth = 0 THEN MspTop ELSE HandlerSP(Top)
    /\ IF Depth > 0 /\ UsePsp(activations[1].ret)
       THEN psp = PspTop - FrameSize
       ELSE psp \in {0, PspTop}
    /\ Depth = 0 /\ spsel => psp = PspTop

IInv ==
    /\ TypeOK
    /\ EntryInv
    /\ LayoutInv
    /\ FramesIntact
    /\ ContextInv
    /\ RegisterInv
=============================================================================
