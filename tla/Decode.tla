------------------------------- MODULE Decode -------------------------------
(***************************************************************************)
(* The instruction decoder, cpu/Instruction.cpp, for every core the build  *)
(* can select (cpu/ARM_CortexM_Config.h).  A 16-bit instruction is one     *)
(* halfword, a 32-bit instruction two: the first is bits 31..16 of the     *)
(* word the code takes apart.  The result is a record with the fields the  *)
(* decoder assigns and execution reads; a field it leaves at its default   *)
(* is absent.  A 32-bit immediate is the signed integer of its bits.       *)
(***************************************************************************)
EXTENDS Integers, Sequences, TLC

Bits(w, hi, lo) == (w \div 2^lo) % 2^(hi - lo + 1)
Bit(w, n) == Bits(w, n, n)

(* The 32-bit word with halves hi and lo, as a signed integer. *)
Signed32(hi, lo) == (IF hi >= 2^15 THEN hi - 2^16 ELSE hi) * 2^16 + lo

(* The n-bit word w as a signed integer. *)
SignExtend(w, n) == IF w >= 2^(n - 1) THEN w - 2^n ELSE w

-----------------------------------------------------------------------------
(* Configuration: a core and what its architecture has. *)

AllCores == {"M0", "M0_PLUS", "M3", "M4", "M7", "M33", "M55"}

SupportsV7(core)  == core \notin {"M0", "M0_PLUS"}
SupportsV7E(core) == core \notin {"M0", "M0_PLUS", "M3"}

Unknown == [type |-> "UNKNOWN"]

-----------------------------------------------------------------------------
(* 16-bit instructions. The formats are numbered as in the code. *)

(* Format 1: shift by immediate. *)
ShiftImmediate(hw) ==
  [type |-> <<"LSL_IMM", "LSR_IMM", "ASR_IMM">>[Bits(hw, 12, 11) + 1],
   rd |-> Bits(hw, 2, 0), rm |-> Bits(hw, 5, 3), shift |-> Bits(hw, 10, 6)]

(* Format 2: add and subtract, register or 3-bit immediate. *)
AddSubtract(hw) ==
  LET sub == Bit(hw, 9) = 1
      rd  == Bits(hw, 2, 0)
      rn  == Bits(hw, 5, 3)
      arg == Bits(hw, 8, 6)
  IN  IF Bit(hw, 10) = 1
      THEN [type |-> IF sub THEN "SUB_IMM3" ELSE "ADD_IMM3",
            rd |-> rd, rn |-> rn, imm |-> arg]
      ELSE [type |-> IF sub THEN "SUB_REG" ELSE "ADD_REG",
            rd |-> rd, rn |-> rn, rm |-> arg]

(* Format 3: move, compare, add, subtract an 8-bit immediate. *)
Immediate8(hw) ==
  [type |-> <<"MOV_IMM", "CMP_IMM", "ADD_IMM8", "SUB_IMM8">>[Bits(hw, 12, 11) + 1],
   rd |-> Bits(hw, 10, 8), rn |-> Bits(hw, 10, 8), imm |-> Bits(hw, 7, 0)]

(* Format 4: two-operand ALU operations. *)
AluTable ==
  <<"AND", "EOR", "LSL_REG", "LSR_REG", "ASR_REG", "ADC", "SBC", "ROR",
    "TST", "NEG", "CMP_REG", "CMN", "ORR", "MUL", "BIC", "MVN">>

AluOperation(hw) ==
  [type |-> AluTable[Bits(hw, 9, 6) + 1],
   rd |-> Bits(hw, 2, 0), rn |-> Bits(hw, 2, 0), rm |-> Bits(hw, 5, 3)]

(* Format 5: operations on high registers, BX and, from Cortex-M3 on, BLX. *)
HighRegister(core, hw) ==
  LET op == Bits(hw, 9, 8)
      rd == 8 * Bit(hw, 7) + Bits(hw, 2, 0)
      rm == Bits(hw, 6, 3)
  IN  IF op < 3
      THEN [type |-> <<"ADD_HI", "CMP_HI", "MOV_HI">>[op + 1], rd |-> rd, rm |-> rm]
      ELSE IF Bit(hw, 7) = 0 THEN [type |-> "BX", rm |-> rm]
      ELSE IF SupportsV7(core) THEN [type |-> "BLX", rm |-> rm]
      ELSE Unknown

(* Format 6: load relative to PC. *)
LoadLiteral(hw) ==
  [type |-> "LDR_PC", rd |-> Bits(hw, 10, 8), rn |-> 15, imm |-> 4 * Bits(hw, 7, 0)]

(* Format 7: load and store with a register offset. *)
LoadStoreTable ==
  <<"STR_REG", "STRH_REG", "STRB_REG", "LDRSB_REG",
    "LDR_REG", "LDRH_REG", "LDRB_REG", "LDRSH_REG">>

LoadStoreRegister(hw) ==
  [type |-> LoadStoreTable[Bits(hw, 11, 9) + 1],
   rd |-> Bits(hw, 2, 0), rn |-> Bits(hw, 5, 3), rm |-> Bits(hw, 8, 6)]

(* Formats 8 and 9: load and store with an immediate offset. *)
LoadStoreImmediate(hw) ==
  LET load == Bit(hw, 11) = 1
      size == IF Bit(hw, 15) = 1 THEN "H" ELSE IF Bit(hw, 12) = 1 THEN "B" ELSE ""
      scale == CASE size = "H" -> 2 [] size = "B" -> 1 [] OTHER -> 4
  IN  [type |-> CASE load /\ size = ""   -> "LDR_IMM"
                  [] load /\ size = "B"  -> "LDRB_IMM"
                  [] load /\ size = "H"  -> "LDRH_IMM"
                  [] ~load /\ size = ""  -> "STR_IMM"
                  [] ~load /\ size = "B" -> "STRB_IMM"
                  [] ~load /\ size = "H" -> "STRH_IMM",
       rd |-> Bits(hw, 2, 0), rn |-> Bits(hw, 5, 3), imm |-> scale * Bits(hw, 10, 6)]

(* Formats 10 and 11: relative to SP, and addresses relative to SP or PC. *)
StackRelative(hw) ==
  [type |-> IF Bit(hw, 11) = 1 THEN "LDR_SP" ELSE "STR_SP",
   rd |-> Bits(hw, 10, 8), rn |-> 13, imm |-> 4 * Bits(hw, 7, 0)]

LoadAddress(hw) ==
  [type |-> IF Bit(hw, 11) = 1 THEN "ADD_SP" ELSE "ADD_PC",
   rd |-> Bits(hw, 10, 8), rn |-> IF Bit(hw, 11) = 1 THEN 13 ELSE 15,
   imm |-> 4 * Bits(hw, 7, 0)]

(* Compare and branch, where the core has it. *)
CompareBranch(hw) ==
  [type |-> IF Bit(hw, 11) = 1 THEN "CBNZ" ELSE "CBZ",
   rn |-> Bits(hw, 2, 0), imm |-> 64 * Bit(hw, 9) + 2 * Bits(hw, 7, 3)]

ReverseBytes(hw) ==
  IF Bits(hw, 7, 6) = 2
  THEN Unknown
  ELSE [type |-> <<"REV", "REV16", "", "REVSH">>[Bits(hw, 7, 6) + 1],
        rd |-> Bits(hw, 2, 0), rm |-> Bits(hw, 5, 3)]

PushPop(hw) ==
  LET pop   == Bit(hw, 11) = 1
      extra == IF pop THEN 15 ELSE 14
  IN  [type |-> IF pop THEN "POP" ELSE "PUSH", rn |-> 13,
       list |-> {r \in 0..7 : Bit(hw, r) = 1} \cup IF Bit(hw, 8) = 1 THEN {extra} ELSE {}]

AddSubtractSp(hw) ==
  [type |-> IF Bit(hw, 7) = 1 THEN "SUB_SP_IMM7" ELSE "ADD_SP_IMM7",
   rd |-> 13, rn |-> 13, imm |-> 4 * Bits(hw, 6, 0)]

(* Mutant: bit 10 is not tested, and PUSH with LR is taken for CBZ. *)
IsCompareBranchWide(core, hw) == SupportsV7(core) /\ Bit(hw, 8) = 1

(* Format 12: the miscellaneous instructions 1011xxxxxxxxxxxx. *)
IsCompareBranch(core, hw) ==
  SupportsV7(core) /\ Bit(hw, 10) = 0 /\ Bit(hw, 8) = 1

Miscellaneous16(core, hw) ==
  IF IsCompareBranch(core, hw) THEN CompareBranch(hw)
  ELSE IF Bits(hw, 11, 5) = 51                                       \* 0xB660
    THEN [type |-> "CPS", alu |-> Bit(hw, 4), imm |-> Bits(hw, 2, 0)]
  ELSE IF Bits(hw, 11, 8) = 2
    THEN [type |-> "EXTEND", alu |-> Bits(hw, 7, 6), rd |-> Bits(hw, 2, 0), rm |-> Bits(hw, 5, 3)]
  ELSE IF Bits(hw, 11, 8) = 10 THEN ReverseBytes(hw)
  ELSE IF Bits(hw, 10, 9) = 2 THEN PushPop(hw)
  ELSE AddSubtractSp(hw)

(* IT and the hints, 10111111xxxxxxxx. *)
Hint(core, hw) ==
  IF ~SupportsV7(core) THEN Unknown
  ELSE IF Bits(hw, 3, 0) # 0
    THEN [type |-> "IT", cond |-> Bits(hw, 7, 4), imm |-> Bits(hw, 3, 0)]
  ELSE IF Bits(hw, 7, 4) <= 4
    THEN [type |-> <<"NOP", "YIELD", "WFE", "WFI", "SEV">>[Bits(hw, 7, 4) + 1]]
  ELSE [type |-> "UNDEFINED"]

(* Format 14: conditional branch and SVC. *)
ConditionalBranch(hw) ==
  IF Bits(hw, 11, 8) = 15
  THEN [type |-> "SVC", imm |-> Bits(hw, 7, 0)]
  ELSE [type |-> "B_COND", cond |-> Bits(hw, 11, 8), imm |-> SignExtend(2 * Bits(hw, 7, 0), 9)]

(* The order of the tests is the code's. *)
Decode16(core, hw) ==
  LET top3 == Bits(hw, 15, 13)
      top4 == Bits(hw, 15, 12)
      top5 == Bits(hw, 15, 11)
      top6 == Bits(hw, 15, 10)
      top8 == Bits(hw, 15, 8)
  IN  IF top3 = 0 /\ Bits(hw, 12, 11) # 3 THEN ShiftImmediate(hw)
      ELSE IF top5 = 3 THEN AddSubtract(hw)
      ELSE IF top3 = 1 THEN Immediate8(hw)
      ELSE IF top6 = 16 THEN AluOperation(hw)
      ELSE IF top6 = 17 THEN HighRegister(core, hw)
      ELSE IF top5 = 9 THEN LoadLiteral(hw)
      ELSE IF top4 = 5 THEN LoadStoreRegister(hw)
      ELSE IF top3 = 3 \/ top4 = 8 THEN LoadStoreImmediate(hw)
      ELSE IF top4 = 9 THEN StackRelative(hw)
      ELSE IF top4 = 10 THEN LoadAddress(hw)
      ELSE IF top4 = 11 /\ top8 \notin {190, 191} THEN Miscellaneous16(core, hw)
      ELSE IF top4 = 12
        THEN [type |-> IF Bit(hw, 11) = 1 THEN "LDMIA" ELSE "STMIA", rn |-> Bits(hw, 10, 8),
              list |-> {r \in 0..7 : Bit(hw, r) = 1}]
      ELSE IF top4 = 13 THEN ConditionalBranch(hw)
      ELSE IF top5 = 28
        THEN [type |-> "B", imm |-> SignExtend(2 * Bits(hw, 10, 0), 12)]
      ELSE IF top4 = 15 THEN [type |-> "T32_BL", imm |-> 0]
      ELSE IF top8 = 190 THEN [type |-> "BKPT", imm |-> Bits(hw, 7, 0)]
      ELSE IF top8 = 191 THEN Hint(core, hw)
      ELSE Unknown

-----------------------------------------------------------------------------
(* 32-bit instructions: a and b are the first and the second halfword. *)

Rn(a) == Bits(a, 3, 0)
Rt(b) == Bits(b, 15, 12)
Rd(b) == Bits(b, 11, 8)
Rm(b) == Bits(b, 3, 0)
Imm12(a, b) == 2048 * Bit(a, 10) + 256 * Bits(b, 14, 12) + Bits(b, 7, 0)
Shift5(b)   == 4 * Bits(b, 14, 12) + Bits(b, 7, 6)

(* Modified immediates: bytes repeated, or 1bcdefgh rotated right by 8 to 31, *)
(* which shifts it left without wrapping. *)
ThumbExpandImm(imm12) ==
  LET byte == imm12 % 256
      pair == 256 * byte + byte
      ones == 128 + (imm12 % 128)
      left == 32 - (imm12 \div 128)
  IN  IF imm12 < 256 THEN byte
      ELSE IF imm12 < 512 THEN Signed32(byte, byte)
      ELSE IF imm12 < 768 THEN Signed32(256 * byte, 256 * byte)
      ELSE IF imm12 < 1024 THEN Signed32(pair, pair)
      ELSE IF left >= 16 THEN Signed32(ones * 2^(left - 16), 0)
      ELSE Signed32((ones * 2^left) \div 2^16, (ones * 2^left) % 2^16)

(* Mutant: J1 and J2 are not inverted by the sign. *)
BranchOffset25Plain(a, b) ==
  SignExtend(2^24 * Bit(a, 10) + 2^23 * Bit(b, 13) + 2^22 * Bit(b, 11)
             + 2^12 * Bits(a, 9, 0) + 2 * Bits(b, 10, 0), 25)

(* Branch offsets. The short form lays imm6 over the top bit of imm11. *)
BranchOffset25(a, b) ==
  LET S  == Bit(a, 10)
      I1 == IF Bit(b, 13) = S THEN 1 ELSE 0
      I2 == IF Bit(b, 11) = S THEN 1 ELSE 0
  IN  SignExtend(2^24 * S + 2^23 * I1 + 2^22 * I2 + 2^12 * Bits(a, 9, 0) + 2 * Bits(b, 10, 0), 25)

BranchOffset20(a, b) ==
  LET overlay == IF Bit(a, 0) = 1 /\ Bit(b, 10) = 1 THEN 2^11 ELSE 0
  IN  SignExtend(2^19 * Bit(a, 10) + 2^18 * Bit(b, 11) + 2^17 * Bit(b, 13)
                 + 2^11 * Bits(a, 5, 0) + 2 * Bits(b, 10, 0) - overlay, 20)

(* 01 00xx0xx: load and store multiple. *)
LoadStoreMultiple32(a, b) ==
  LET mode == Bits(a, 8, 7)
      load == Bit(a, 4) = 1
  IN  IF mode \in {0, 3} THEN Unknown
      ELSE [type |-> CASE mode = 1 /\ load  -> "T32_LDMIA"
                       [] mode = 1 /\ ~load -> "T32_STMIA"
                       [] mode = 2 /\ load  -> "T32_LDMDB"
                       [] mode = 2 /\ ~load -> "T32_STMDB",
            rn |-> Rn(a), list |-> {r \in 0..15 : Bit(b, r) = 1}, wb |-> Bit(a, 5) = 1]

(* 01 00xx1xx: load and store dual or exclusive, table branch. *)
LoadStoreDual(a, b) ==
  [type |-> IF Bit(a, 4) = 1 THEN "T32_LDRD" ELSE "T32_STRD",
   rn |-> Rn(a), rd |-> Rt(b), rm |-> Rd(b), imm |-> 4 * Bits(b, 7, 0),
   pre |-> Bit(a, 8) = 1, neg |-> Bit(a, 7) = 0, wb |-> Bit(a, 5) = 1]

ExclusiveWord(a, b) ==
  IF Bit(a, 4) = 1
  THEN [type |-> "T32_LDREX", rn |-> Rn(a), rd |-> Rt(b), imm |-> 4 * Bits(b, 7, 0)]
  ELSE [type |-> "T32_STREX", rn |-> Rn(a), rd |-> Rd(b), rm |-> Rt(b), imm |-> 4 * Bits(b, 7, 0)]

ExclusiveOrTable(a, b) ==
  LET op3 == Bits(b, 7, 4)
  IN  IF Bit(a, 4) = 0 /\ op3 \in {4, 5}
        THEN [type |-> IF op3 = 4 THEN "T32_STREXB" ELSE "T32_STREXH",
              rn |-> Rn(a), rd |-> Rm(b), rm |-> Rt(b)]
      ELSE IF Bit(a, 4) = 1 /\ op3 \in {0, 1}
        THEN [type |-> IF op3 = 0 THEN "T32_TBB" ELSE "T32_TBH", rn |-> Rn(a), rm |-> Rm(b)]
      ELSE IF Bit(a, 4) = 1 /\ op3 \in {4, 5}
        THEN [type |-> IF op3 = 4 THEN "T32_LDREXB" ELSE "T32_LDREXH", rn |-> Rn(a), rd |-> Rt(b)]
      ELSE Unknown

DualExclusiveTable(a, b) ==
  IF Bits(a, 8, 7) \in {2, 3} \/ Bit(a, 5) = 1 THEN LoadStoreDual(a, b)
  ELSE IF Bits(a, 8, 7) = 0 THEN ExclusiveWord(a, b)
  ELSE ExclusiveOrTable(a, b)

(* 01 01xxxxx: data processing with a shifted register. *)
CompareNames == ("AND" :> "TST" @@ "EOR" :> "TEQ" @@ "ADD" :> "CMN" @@ "SUB" :> "CMP")

DataOperation(op, rn) ==
  CASE op = 0  -> "AND"
    [] op = 1  -> "BIC"
    [] op = 2  -> IF rn = 15 THEN "MOV" ELSE "ORR"
    [] op = 3  -> IF rn = 15 THEN "MVN" ELSE "ORN"
    [] op = 4  -> "EOR"
    [] op = 8  -> "ADD"
    [] op = 10 -> "ADC"
    [] op = 11 -> "SBC"
    [] op = 13 -> "SUB"
    [] op = 14 -> "RSB"
    [] OTHER   -> "NONE"

ShiftedRegister(core, a, b) ==
  LET name    == DataOperation(Bits(a, 8, 5), Rn(a))
      compare == name \in DOMAIN CompareNames /\ Rd(b) = 15
      S       == Bit(a, 4) = 1
      pack    == IF Bits(b, 5, 4) = 2 THEN "T32_PKHTB" ELSE "T32_PKHBT"
      With(type) == [type |-> type, rd |-> Rd(b), rm |-> Rm(b), s |-> S,
                     rn |-> IF name \in {"MOV", "MVN"} THEN 0 ELSE Rn(a),
                     stype |-> Bits(b, 5, 4), shift |-> Shift5(b)]
  IN  IF SupportsV7E(core) /\ Bits(a, 8, 5) = 6 THEN With(pack)
      ELSE IF name = "NONE" \/ (compare /\ ~S) THEN Unknown
      ELSE With("T32_" \o (IF compare THEN CompareNames[name] ELSE name) \o "_REG")

(* 01 1xxxxxx: coprocessors. Only the type is kept: none has a handler. *)
Coprocessor(a, b) ==
  LET op1 == Bits(a, 9, 4)
      load == Bit(a, 4) = 1
  IN  [type |->
         IF op1 < 32 THEN (IF ~load THEN "T32_STC"
                           ELSE IF Rn(a) = 15 THEN "T32_LDC_LIT" ELSE "T32_LDC")
         ELSE IF op1 < 48 THEN (IF Bit(b, 4) = 0 THEN "T32_CDP"
                                ELSE IF load THEN "T32_MRC" ELSE "T32_MCR")
         ELSE IF Rd(b) = 15 THEN "T32_SYSTEM_CP" ELSE "UNDEFINED"]

(* 10 x0xxxxx 0: data processing with a modified immediate. *)
ModifiedImmediate(a, b) ==
  LET name    == DataOperation(Bits(a, 8, 5), Rn(a))
      compare == name \in DOMAIN CompareNames /\ Rd(b) = 15
  IN  IF name = "NONE" THEN Unknown
      ELSE [type |-> "T32_" \o (IF compare THEN CompareNames[name] ELSE name) \o "_IMM",
            rd |-> Rd(b), rn |-> IF name \in {"MOV", "MVN"} THEN 0 ELSE Rn(a),
            imm |-> ThumbExpandImm(Imm12(a, b)), s |-> Bit(a, 4) = 1]

(* 10 x1xxxxx 0: plain binary immediates. *)
Saturate(name, limit, a, b) ==
  [type |-> name, rn |-> Rn(a), rd |-> Rd(b),
   imm |-> 2^16 * limit + 256 * Bit(a, 5) + Shift5(b)]

BitField(name, width, a, b) ==
  [type |-> name, rn |-> Rn(a), rd |-> Rd(b),
   imm |-> IF width < 0 THEN width ELSE 256 * Shift5(b) + width]

PlainImmediate(core, a, b) ==
  LET op    == Bits(a, 8, 4)
      low5  == Bits(b, 4, 0)
      With(type, imm) == [type |-> type, rn |-> Rn(a), rd |-> Rd(b), imm |-> imm]
      halves == SupportsV7E(core) /\ Shift5(b) = 0
  IN  CASE op = 0  -> With("T32_ADDW", Imm12(a, b))
        [] op = 4  -> With("T32_MOVW", 4096 * Rn(a) + Imm12(a, b))
        [] op = 10 -> With("T32_SUBW", Imm12(a, b))
        [] op = 12 -> With("T32_MOVT", 4096 * Rn(a) + Imm12(a, b))
        [] op = 16 -> Saturate("T32_SSAT", low5 + 1, a, b)
        [] op = 18 /\ halves -> With("T32_SSAT16", (low5 % 16) + 1)
        [] op = 18 /\ SupportsV7E(core) /\ ~halves -> Saturate("T32_SSAT", low5 + 1, a, b)
        [] op = 20 -> BitField("T32_SBFX", low5 + 1, a, b)
        [] op = 22 -> BitField(IF Rn(a) = 15 THEN "T32_BFC" ELSE "T32_BFI",
                               low5 - Shift5(b) + 1, a, b)
        [] op = 24 -> Saturate("T32_USAT", low5, a, b)
        [] op = 26 /\ halves -> With("T32_USAT16", low5 % 16)
        [] op = 26 /\ SupportsV7E(core) /\ ~halves -> Saturate("T32_USAT", low5, a, b)
        [] op = 28 -> BitField("T32_UBFX", low5 + 1, a, b)
        [] OTHER   -> Unknown

(* 10 xxxxxxx 1: branches and miscellaneous control. *)
BarrierOrClrex(core, a, b) ==
  LET op == Bits(b, 7, 4)
  IN  IF SupportsV7(core) /\ a = 62399 /\ b = 36655 THEN [type |-> "T32_CLREX"]  \* F3BF 8F2F
      ELSE IF op \notin {4, 5, 6} THEN Unknown
      ELSE [type |-> <<"T32_DSB", "T32_DMB", "T32_ISB">>[op - 3], imm |-> Bits(b, 3, 0)]

MiscellaneousControl(core, a, b) ==
  LET op == Bits(a, 10, 4)
  IN  IF SupportsV7(core) /\ Bits(op, 5, 3) # 7
        THEN [type |-> "T32_B_COND", cond |-> Bits(a, 9, 6), imm |-> BranchOffset20(a, b)]
      ELSE IF op \in {56, 57}
        THEN [type |-> "T32_MSR", rn |-> Rn(a), imm |-> Bits(b, 7, 0)]
      ELSE IF SupportsV7(core) /\ op = 58
        THEN [type |-> CASE Bits(b, 7, 4) = 4 -> "T32_SEV"  [] Bits(b, 7, 4) = 5 -> "T32_SEVL"
                         [] Bits(b, 7, 4) = 6 -> "T32_WFE"  [] OTHER -> "T32_NOP"]
      ELSE IF op = 59 THEN BarrierOrClrex(core, a, b)
      ELSE IF op \in {62, 63}
        THEN [type |-> "T32_MRS", rd |-> Rd(b), imm |-> Bits(b, 7, 0)]
      ELSE Unknown

BranchesAndControl(core, a, b) ==
  CASE Bit(b, 14) = 0 /\ Bit(b, 12) = 0 -> MiscellaneousControl(core, a, b)
    [] SupportsV7(core) /\ Bit(b, 14) = 0 /\ Bit(b, 12) = 1
         -> [type |-> "T32_B", imm |-> BranchOffset25(a, b)]
    [] Bit(b, 14) = 1 /\ Bit(b, 12) = 1
         -> [type |-> "T32_BL", imm |-> BranchOffset25(a, b)]
    [] OTHER -> Unknown

(* 11 000xxx0: store a single item. *)
Indexed(type, a, b) ==
  [type |-> type, rn |-> Rn(a), rd |-> Rt(b), imm |-> Bits(b, 7, 0),
   pre |-> Bit(b, 10) = 1, neg |-> Bit(b, 9) = 0, wb |-> Bit(b, 8) = 1]

RegisterOffset(type, a, b) ==
  [type |-> type, rn |-> Rn(a), rd |-> Rt(b), rm |-> Rm(b), shift |-> Bits(b, 5, 4)]

Offset12(type, a, b) ==
  [type |-> type, rn |-> Rn(a), rd |-> Rt(b), imm |-> Bits(b, 11, 0)]

StoreSingle(a, b) ==
  LET op   == Bits(a, 7, 5)
      name == "T32_" \o <<"STRB", "STRH", "STR">>[(op % 4) + 1]
  IN  IF op \in {3, 7} THEN Unknown
      ELSE IF op >= 4 THEN Offset12(name \o "_IMM", a, b)
      ELSE IF Bit(b, 11) = 1 THEN Indexed(name \o "_PRE_POST", a, b)
      ELSE RegisterOffset(name \o "_REG", a, b)

(* 11 00xx001 and 11 00xx011: load byte or halfword, memory hints. A load into *)
(* register 15 is a hint: a preload for bytes, a NOP for halfwords.            *)
IsIndexed(b) ==
  (Bit(b, 11) = 1 /\ Bit(b, 8) = 1) \/ Bits(b, 11, 8) \in {12, 14}

Preload(op, half, suffix) ==
  IF half THEN "T32_NOP" ELSE (IF op < 2 THEN "T32_PLD" ELSE "T32_PLI") \o suffix

LoadNarrow(half, a, b) ==
  LET op      == Bits(a, 8, 7)
      unit    == IF half THEN "H" ELSE "B"
      name    == "T32_LDR" \o (IF op < 2 THEN "" ELSE "S") \o unit
      hint    == Rt(b) = 15
      literal == Rn(a) = 15
      (* with U set, the unsigned literal form is given the signed type *)
      litname == IF op = 0 THEN "T32_LDR" \o unit \o "_LIT" ELSE "T32_LDRS" \o unit \o "_LIT"
      Literal(type) == [type |-> type, rn |-> 15, rd |-> Rt(b), imm |-> Bits(b, 11, 0),
                        neg |-> Bit(a, 7) = 0]
      Kind(type) == [type |-> type]
  IN  IF hint /\ literal THEN Kind(Preload(op, half, "_LIT"))
      ELSE IF literal THEN Literal(litname)
      ELSE IF hint
        THEN IF op \in {1, 3} \/ Bits(b, 11, 8) = 12 THEN Kind(Preload(op, half, "_IMM"))
             ELSE IF Bits(b, 11, 6) = 0 THEN Kind(Preload(op, half, "_REG"))
             ELSE Unknown
      ELSE IF op \in {1, 3} THEN Offset12(name \o "_IMM", a, b)
      ELSE IF IsIndexed(b) THEN Indexed(name \o "_PRE_POST", a, b)
      ELSE IF Bits(b, 11, 6) = 0 THEN RegisterOffset(name \o "_REG", a, b)
      ELSE Unknown

LoadByte(a, b)     == LoadNarrow(FALSE, a, b)
LoadHalfword(a, b) == LoadNarrow(TRUE, a, b)

(* 11 00xx101: load word. *)
LoadWord(a, b) ==
  LET op == Bits(a, 8, 7)
      indexed == op = 0 /\ ((Bit(b, 11) = 1 /\ Bit(b, 8) = 1) \/ Bits(b, 11, 8) = 12)
  IN  IF Rn(a) = 15
        THEN IF op < 2
             THEN [type |-> "T32_LDR_LIT", rn |-> 15, rd |-> Rt(b), imm |-> Bits(b, 11, 0),
                   neg |-> Bit(a, 7) = 0]
             ELSE Unknown
      ELSE IF op = 1 THEN Offset12("T32_LDR_IMM", a, b)
      ELSE IF indexed THEN Indexed("T32_LDR_PRE_POST", a, b)
      ELSE IF Bits(b, 11, 6) = 0 THEN RegisterOffset("T32_LDR_REG", a, b)
      ELSE IF Bits(b, 11, 8) = 14
        THEN [type |-> "T32_LDRT", rn |-> Rn(a), rd |-> Rt(b), imm |-> Bits(b, 7, 0)]
      ELSE Unknown

(* 11 010xxxx: data processing with registers. The test op2 & 0x8 == 0x8 of the *)
(* code is op2 & 1 by the precedence of C++.                                     *)
ShiftNames  == <<"LSL", "LSL", "LSR", "LSR", "ASR", "ASR", "ROR", "ROR">>
ExtendNames == <<"SXTH", "UXTH", "SXTB16", "UXTB16", "SXTB", "UXTB">>
AddExtendNames == <<"SXTAH", "UXTAH", "SXTAB16", "UXTAB16", "SXTAB", "UXTAB">>

ParallelNames == (8 :> "ADD8" @@ 9 :> "ADD16" @@ 10 :> "ASX" @@ 12 :> "SUB8" @@ 13 :> "SUB16" @@ 14 :> "SAX")
ParallelPrefixes == (0 :> "S" @@ 1 :> "Q" @@ 2 :> "SH" @@ 4 :> "U" @@ 5 :> "UQ" @@ 6 :> "UH")

SaturatingAndBits ==
  (<<8, 8>> :> "QADD" @@ <<8, 9>> :> "QDADD" @@ <<8, 10>> :> "QSUB" @@ <<8, 11>> :> "QDSUB" @@
   <<9, 8>> :> "REV" @@ <<9, 9>> :> "REV16" @@ <<9, 10>> :> "RBIT" @@ <<9, 11>> :> "REVSH" @@
   <<10, 8>> :> "SEL" @@ <<11, 8>> :> "CLZ")

Registers3(name, s, a, b) ==
  [type |-> "T32_" \o name, rn |-> Rn(a), rd |-> Rd(b), rm |-> Rm(b), s |-> s]

ShiftOrExtend(core, op1, op2, a, b) ==
  IF op2 = 0
    THEN Registers3(ShiftNames[op1 + 1] \o (IF op1 % 2 = 1 THEN "S_REG" ELSE "_REG"), op1 % 2 = 1, a, b)
  ELSE IF SupportsV7E(core) /\ op1 < 6 /\ op2 % 2 = 1
    THEN Registers3((IF Rn(a) = 15 THEN ExtendNames ELSE AddExtendNames)[op1 + 1], FALSE, a, b)
  ELSE Unknown

ParallelOrBits(core, op1, op2, a, b) ==
  IF ~SupportsV7E(core) THEN Unknown
  ELSE IF op1 \in DOMAIN ParallelNames /\ op2 \in DOMAIN ParallelPrefixes
    THEN Registers3(ParallelPrefixes[op2] \o ParallelNames[op1], FALSE, a, b)
  ELSE IF <<op1, op2>> \in DOMAIN SaturatingAndBits
    THEN Registers3(SaturatingAndBits[<<op1, op2>>], FALSE, a, b)
  ELSE Unknown

DataRegister(core, a, b) ==
  LET op1 == Bits(a, 7, 4)
      op2 == Bits(b, 7, 4)
  IN  IF op1 < 8 THEN ShiftOrExtend(core, op1, op2, a, b) ELSE ParallelOrBits(core, op1, op2, a, b)

(* 11 0110xxx: multiply and accumulate. The DSP forms, which no handler takes, *)
(* keep only their type.                                                        *)
DspMultiplyNames ==
  << <<"SMLABB", "SMULBB">>, <<"SMLAD", "SMUAD">>, <<"SMLAWB", "SMULWB">>, <<"SMLSD", "SMUSD">>,
     <<"SMMLA", "SMMUL">>, <<"SMMLS", "SMMLS">>, <<"USAD8", "USADA8">> >>

MultiplyAccumulate(core, a, b) ==
  LET op1 == Bits(a, 6, 4)
      op2 == Bits(b, 5, 4)
      Product(name) == [type |-> "T32_" \o name, rn |-> Rn(a), rd |-> Rd(b), rm |-> Rm(b)]
      Accumulate(name) == [type |-> "T32_" \o name, rn |-> Rn(a), rd |-> Rd(b), rm |-> Rm(b), rs |-> Rt(b)]
  IN  CASE op1 = 0 /\ op2 = 0 /\ Rt(b) # 15 -> Accumulate("MLA")
        [] op1 = 0 /\ op2 = 0 /\ Rt(b) = 15 -> Product("MUL")
        [] op1 = 0 /\ op2 = 1 -> Accumulate("MLS")
        [] op1 > 0 /\ op2 = 0 /\ SupportsV7E(core)
             -> [type |-> "T32_" \o DspMultiplyNames[op1][IF Rt(b) = 15 THEN 2 ELSE 1]]
        [] OTHER -> Unknown

(* 11 0111xxx: long multiply and divide. SMULL is tested for 1111, not 0000. *)
LongMultiplyDivide(core, a, b) ==
  LET op1 == Bits(a, 6, 4)
      op2 == Bits(b, 7, 4)
      Long(name) == [type |-> "T32_" \o name, rd |-> Rt(b), rs |-> Rd(b), rn |-> Rn(a), rm |-> Rm(b)]
      Quotient(name) == [type |-> "T32_" \o name, rd |-> Rd(b), rn |-> Rn(a), rm |-> Rm(b)]
      dsp == SupportsV7E(core)
  IN  CASE op1 = 0 /\ op2 = 15 -> Long("SMULL")
        [] op1 = 1 /\ op2 = 15 -> Quotient("SDIV")
        [] op1 = 2 /\ op2 = 0  -> Long("UMULL")
        [] op1 = 3 /\ op2 = 15 -> Quotient("UDIV")
        [] op1 = 4 /\ op2 = 0  -> Long("SMLAL")
        [] op1 = 4 /\ op2 \in 8..11 /\ dsp -> Long("SMLALBB")
        [] op1 = 4 /\ op2 \in {12, 13} /\ dsp -> Long("SMLALD")
        [] op1 = 5 /\ op2 \in {12, 13} /\ dsp -> Long("SMLSLD")
        [] op1 = 6 /\ op2 = 0  -> Long("UMLAL")
        [] op1 = 6 /\ op2 = 6 /\ dsp -> Long("UMAAL")
        [] OTHER -> Unknown

(* 11: single data items, data processing with registers, multiply. Its *)
(* coprocessor space is never decoded (HAS_COPROCESSOR_SUPPORT is unset). *)
SingleRegisterMultiply(core, a, b) ==
  LET op2 == Bits(a, 10, 4)
      load == op2 % 8
  IN  IF op2 \in 0..14 /\ op2 % 2 = 0 THEN StoreSingle(a, b)
      ELSE IF op2 < 32 /\ load = 1 THEN LoadByte(a, b)
      ELSE IF op2 < 32 /\ load = 3 THEN LoadHalfword(a, b)
      ELSE IF op2 < 32 /\ load = 5 THEN LoadWord(a, b)
      ELSE IF op2 \in 32..47 THEN DataRegister(core, a, b)
      ELSE IF op2 \in 48..55 THEN MultiplyAccumulate(core, a, b)
      ELSE IF op2 \in 56..63 THEN LongMultiplyDivide(core, a, b)
      ELSE Unknown

-----------------------------------------------------------------------------
Decode32(core, a, b) ==
  LET op1 == Bits(a, 12, 11)
      op2 == Bits(a, 10, 4)
      op  == Bit(b, 15)
  IN  IF SupportsV7(core) /\ op1 = 1
        THEN IF Bits(op2, 6, 5) = 0
             THEN IF Bit(op2, 2) = 0 THEN LoadStoreMultiple32(a, b) ELSE DualExclusiveTable(a, b)
             ELSE IF Bits(op2, 6, 5) = 1 THEN ShiftedRegister(core, a, b)
             ELSE Coprocessor(a, b)
      ELSE IF op1 = 2 /\ op = 1 THEN BranchesAndControl(core, a, b)
      ELSE IF SupportsV7(core) /\ op1 = 2
        THEN IF Bit(op2, 5) = 0 THEN ModifiedImmediate(a, b) ELSE PlainImmediate(core, a, b)
      ELSE IF SupportsV7(core) /\ op1 = 3 THEN SingleRegisterMultiply(core, a, b)
      ELSE Unknown

(* Mutant: 11100 is taken for a first halfword too. *)
Is32BitLow(hw) == Bits(hw, 15, 11) \in {28, 29, 30, 31}

(* CPU::fetch_instruction takes a second halfword exactly for these. *)
Is32Bit(hw) == Bits(hw, 15, 11) \in {29, 30, 31}
=============================================================================
