----------------------------- MODULE RunControl -----------------------------
(***************************************************************************)
(* What run control promises the debugger: once a stop is reported, the    *)
(* target stays where it is until the debugger lets it go, by a continue,  *)
(* a step, or by leaving.                                                  *)
(***************************************************************************)
CONSTANT Addr

VARIABLES held, pc

Init == held = FALSE /\ pc \in Addr

Stop == held' = TRUE /\ pc' = pc

Release == held' = FALSE /\ pc' = pc

Run == ~held /\ held' = FALSE /\ pc' \in Addr

Next == Stop \/ Release \/ Run

Spec == Init /\ [][Next]_<<held, pc>>
=============================================================================
