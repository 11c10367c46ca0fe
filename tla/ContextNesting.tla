--------------------------- MODULE ContextNesting ----------------------------
(***************************************************************************)
(* What exception entry and return promise to the program, whatever the    *)
(* stacks look like: entries push the interrupted context, returns bring   *)
(* back the one pushed last, and in between the mode does not change.      *)
(***************************************************************************)
EXTENDS Naturals, Sequences

CONSTANT Contexts      \* records with a field psr, 0 in Thread mode

VARIABLES
    context,           \* the context of the code that runs
    interrupted        \* the contexts that wait for a return

vars == <<context, interrupted>>

Init == context \in Contexts /\ context.psr = 0 /\ interrupted = <<>>

(* The handler's context is a new one, in Handler mode. *)
Enter ==
    /\ context' \in Contexts
    /\ context'.psr # 0
    /\ interrupted' = Append(interrupted, context)

Return ==
    /\ interrupted # <<>>
    /\ context' = interrupted[Len(interrupted)]
    /\ interrupted' = SubSeq(interrupted, 1, Len(interrupted) - 1)

(* Instructions change anything but the mode. *)
Run ==
    /\ context' \in Contexts
    /\ context'.psr = context.psr
    /\ UNCHANGED interrupted

Next == Enter \/ Return \/ Run

Spec == Init /\ [][Next]_vars
=============================================================================
