----------------------------- MODULE MCPipeline -----------------------------
(* Instances of Pipeline for TLC. *)
EXTENDS Pipeline

(* The instructions of a core. *)
Set(c) ==
  T!V6 \cup (IF ~SupportsV7(c) THEN {} ELSE T!V7)
             \cup (IF ~SupportsV7E(c) THEN {} ELSE T!V7E)

(* Instructions whose halfwords look alike: branches of both lengths and what *)
(* shares their first bits.                                                   *)
Mixed(c) ==
  {e \in T!Control16 : e[1].type \in {"B", "BKPT"} /\ e[1].imm \in {-2, 0}}
    \cup {e \in T!Control32 : e[1].type = "T32_BL" /\ e[1].imm \in {-2, 2}}
    \cup {e \in T!Control32 : e[1].type = "T32_DMB"}
    \cup IF ~SupportsV7(c) THEN {}
         ELSE {e \in T!Multiply32 : e[1].type = "T32_SDIV" /\ e[1].rn = e[1].rm /\ e[1].rd = 14}

(* One instruction, three in a row, or any halfword before a zero. *)
MCPrograms(c) ==
  {<<e>> : e \in Set(c)} \cup [1..3 -> Mixed(c)]
    \cup {<<<<Data, <<hw, 0>>>>>> : hw \in 0 .. 2^16 - 1}
=============================================================================
