-------------------------------- MODULE Thumb --------------------------------
(***************************************************************************)
(* A reference assembler: instructions paired with their encodings, as the *)
(* bit patterns in the comments of cpu/Instruction.cpp give them.  It is   *)
(* written from the fields to the bits, the decoder from the bits to the   *)
(* fields.  Register numbers and immediates are samples that reach both    *)
(* ends of every field.                                                    *)
(*                                                                         *)
(* A line is a set of pairs <<instruction, halfwords>>; instructions are   *)
(* records with the fields of Decode.                                      *)
(***************************************************************************)
EXTENDS Integers, Sequences, FiniteSets

Low  == {0, 3, 7}           \* registers of a 3-bit field
Regs  == {1, 8, 14}          \* registers of a 4-bit field
Imm3 == {0, 1, 7}
Imm5 == {0, 1, 16, 31}
Imm8 == {0, 1, 127, 128, 255}
Lists == {{0}, {7}, {0, 3, 4}}
Conditions == 0 .. 13

(* One bit per member, and the position of a name in a table, from 0. *)
Mask(S) == LET f[T \in SUBSET S] == IF T = {} THEN 0
                                    ELSE LET r == CHOOSE r \in T : TRUE
                                         IN  2^r + f[T \ {r}]
           IN  f[S]
Place(table, name) == (CHOOSE i \in DOMAIN table : table[i] = name) - 1
Names(table) == {table[i] : i \in DOMAIN table}

-----------------------------------------------------------------------------
(* ARMv6-M, 16 bits *)

AluNames == <<"AND", "EOR", "LSL_REG", "LSR_REG", "ASR_REG", "ADC", "SBC", "ROR", "TST", "NEG",
              "CMP_REG", "CMN", "ORR", "MUL", "BIC", "MVN">>
ShiftOps == <<"LSL_IMM", "LSR_IMM", "ASR_IMM">>
Imm8Ops  == <<"MOV_IMM", "CMP_IMM", "ADD_IMM8", "SUB_IMM8">>
HighOps  == <<"ADD_HI", "CMP_HI", "MOV_HI">>
RegisterTransfers == <<"STR_REG", "STRH_REG", "STRB_REG", "LDRSB_REG", "LDR_REG", "LDRH_REG", "LDRB_REG", "LDRSH_REG">>
(* [type, leading five bits, bytes of one item] *)
OffsetTransfers == {<<"STR_IMM", 12, 4>>, <<"LDR_IMM", 13, 4>>, <<"STRB_IMM", 14, 1>>,
                    <<"LDRB_IMM", 15, 1>>, <<"STRH_IMM", 16, 2>>, <<"LDRH_IMM", 17, 2>>}

DataProcessing16 == UNION {
  {<<[type |-> t, rd |-> d, rm |-> m, shift |-> s], <<2048 * Place(ShiftOps, t) + 64 * s + 8 * m + d>>>> :
     t \in Names(ShiftOps), d \in Low, m \in Low, s \in Imm5},
  {<<[type |-> "ADD_REG", rd |-> d, rn |-> n, rm |-> m], <<6144 + 64 * m + 8 * n + d>>>> : d \in Low, n \in Low, m \in Low},
  {<<[type |-> "SUB_REG", rd |-> d, rn |-> n, rm |-> m], <<6656 + 64 * m + 8 * n + d>>>> : d \in Low, n \in Low, m \in Low},
  {<<[type |-> "ADD_IMM3", rd |-> d, rn |-> n, imm |-> i], <<7168 + 64 * i + 8 * n + d>>>> : d \in Low, n \in Low, i \in Imm3},
  {<<[type |-> "SUB_IMM3", rd |-> d, rn |-> n, imm |-> i], <<7680 + 64 * i + 8 * n + d>>>> : d \in Low, n \in Low, i \in Imm3},
  {<<[type |-> t, rd |-> d, rn |-> d, imm |-> i], <<8192 + 2048 * Place(Imm8Ops, t) + 256 * d + i>>>> :
     t \in Names(Imm8Ops), d \in Low, i \in Imm8},
  {<<[type |-> t, rd |-> d, rn |-> d, rm |-> m], <<16384 + 64 * Place(AluNames, t) + 8 * m + d>>>> :
     t \in Names(AluNames), d \in Low, m \in Low},
  {<<[type |-> t, rd |-> d, rm |-> m],
     <<17408 + 256 * Place(HighOps, t) + 128 * (d \div 8) + 8 * m + (d % 8)>>>> :
     t \in Names(HighOps), d \in Regs, m \in Regs},
  {<<[type |-> "ADD_PC", rd |-> d, rn |-> 15, imm |-> 4 * i], <<40960 + 256 * d + i>>>> : d \in Low, i \in Imm8},
  {<<[type |-> "ADD_SP", rd |-> d, rn |-> 13, imm |-> 4 * i], <<43008 + 256 * d + i>>>> : d \in Low, i \in Imm8},
  {<<[type |-> "ADD_SP_IMM7", rd |-> 13, rn |-> 13, imm |-> 4 * i], <<45056 + i>>>> : i \in {0, 1, 127}},
  {<<[type |-> "SUB_SP_IMM7", rd |-> 13, rn |-> 13, imm |-> 4 * i], <<45184 + i>>>> : i \in {0, 1, 127}},
  {<<[type |-> "EXTEND", alu |-> o, rd |-> d, rm |-> m], <<45568 + 64 * o + 8 * m + d>>>> : o \in 0..3, d \in Low, m \in Low},
  {<<[type |-> t[1], rd |-> d, rm |-> m], <<47616 + 64 * t[2] + 8 * m + d>>>> :
     t \in {<<"REV", 0>>, <<"REV16", 1>>, <<"REVSH", 3>>}, d \in Low, m \in Low}}

Memory16 == UNION {
  {<<[type |-> "LDR_PC", rd |-> d, rn |-> 15, imm |-> 4 * i], <<18432 + 256 * d + i>>>> : d \in Low, i \in Imm8},
  {<<[type |-> t, rd |-> d, rn |-> n, rm |-> m],
     <<20480 + 512 * Place(RegisterTransfers, t) + 64 * m + 8 * n + d>>>> :
     t \in Names(RegisterTransfers), d \in Low, n \in Low, m \in Low},
  {<<[type |-> t[1], rd |-> d, rn |-> n, imm |-> t[3] * i], <<2048 * t[2] + 64 * i + 8 * n + d>>>> :
     t \in OffsetTransfers, d \in Low, n \in Low, i \in Imm5},
  {<<[type |-> "STR_SP", rd |-> d, rn |-> 13, imm |-> 4 * i], <<36864 + 256 * d + i>>>> : d \in Low, i \in Imm8},
  {<<[type |-> "LDR_SP", rd |-> d, rn |-> 13, imm |-> 4 * i], <<38912 + 256 * d + i>>>> : d \in Low, i \in Imm8},
  {<<[type |-> "PUSH", rn |-> 13, list |-> l \cup x], <<46080 + 256 * Cardinality(x) + Mask(l)>>>> : l \in Lists, x \in {{}, {14}}},
  {<<[type |-> "POP", rn |-> 13, list |-> l \cup x], <<48128 + 256 * Cardinality(x) + Mask(l)>>>> : l \in Lists, x \in {{}, {15}}},
  {<<[type |-> "STMIA", rn |-> n, list |-> l], <<49152 + 256 * n + Mask(l)>>>> : n \in Low, l \in Lists},
  {<<[type |-> "LDMIA", rn |-> n, list |-> l], <<51200 + 256 * n + Mask(l)>>>> : n \in Low, l \in Lists}}

Control16 == UNION {
  {<<[type |-> "BX", rm |-> m], <<18176 + 8 * m>>>> : m \in Regs},
  {<<[type |-> "B_COND", cond |-> c, imm |-> 2 * i], <<53248 + 256 * c + (i % 256)>>>> : c \in Conditions, i \in {-128, -1, 0, 127}},
  {<<[type |-> "B", imm |-> 2 * i], <<57344 + (i % 2048)>>>> : i \in {-1024, -1, 0, 1023}},
  {<<[type |-> "SVC", imm |-> i], <<57088 + i>>>> : i \in Imm8},
  {<<[type |-> "BKPT", imm |-> i], <<48640 + i>>>> : i \in Imm8},
  {<<[type |-> "CPS", alu |-> o, imm |-> i], <<46688 + 16 * o + i>>>> : o \in 0..1, i \in 1..3}}

(* Added by ARMv7-M *)
Control16V7 == UNION {
  {<<[type |-> "BLX", rm |-> m], <<18304 + 8 * m>>>> : m \in Regs},
  {<<[type |-> "CBZ", rn |-> n, imm |-> 2 * i], <<45312 + 512 * (i \div 32) + 8 * (i % 32) + n>>>> : n \in Low, i \in {0, 1, 31, 32, 63}},
  {<<[type |-> "CBNZ", rn |-> n, imm |-> 2 * i], <<47360 + 512 * (i \div 32) + 8 * (i % 32) + n>>>> : n \in Low, i \in {0, 1, 31, 32, 63}},
  {<<[type |-> "IT", cond |-> c, imm |-> k], <<48896 + 16 * c + k>>>> : c \in Conditions, k \in 1..15},
  {<<[type |-> t[1]], <<48896 + 16 * t[2]>>>> : t \in {<<"NOP", 0>>, <<"YIELD", 1>>, <<"WFE", 2>>, <<"WFI", 3>>, <<"SEV", 4>>}}}

-----------------------------------------------------------------------------
(* 32 bits: two halfwords *)

(* A branch offset in halfwords, i, as S:J1:J2:imm10:imm11. *)
Branch25(i, link) ==
  LET u == i % 2^24
      S == u \div 2^23
      J(n) == IF (u \div 2^n) % 2 = S THEN 1 ELSE 0
  IN  <<61440 + 1024 * S + ((u \div 2^11) % 1024),
        36864 + 16384 * link + 8192 * J(22) + 2048 * J(21) + (u % 2048)>>
FarOffsets == {-(2^23), -(2^22), -(2^21), -1025, -1, 0, 1, 1024, 2^21, 2^22, 2^23 - 1}

Control32 == UNION {
  {<<[type |-> "T32_BL", imm |-> 2 * i], Branch25(i, 1)>> : i \in FarOffsets},
  {<<[type |-> "T32_MSR", rn |-> n, imm |-> y], <<62336 + n, 34816 + y>>>> : n \in Regs, y \in {0, 5, 8, 9, 16, 20}},
  {<<[type |-> "T32_MRS", rd |-> d, imm |-> y], <<62447, 32768 + 256 * d + y>>>> : d \in Regs, y \in {0, 5, 8, 9, 16, 20}},
  {<<[type |-> t[1], imm |-> 15], <<62399, 36623 + 16 * t[2]>>>> : t \in {<<"T32_DSB", 4>>, <<"T32_DMB", 5>>, <<"T32_ISB", 6>>}}}

(* A conditional branch is S:J2:J1:imm6:imm11; the offsets are those whose imm6 *)
(* repeats the sign and imm11's top bit, where the code reads it as documented.  *)
Control32V7 == UNION {
  {<<[type |-> "T32_B", imm |-> 2 * i], Branch25(i, 0)>> : i \in FarOffsets},
  {<<[type |-> "T32_B_COND", cond |-> c, imm |-> 2 * i],
     LET u == i % 2^20
         B(n) == (u \div 2^n) % 2
     IN  <<61440 + 1024 * B(19) + 64 * c + ((u \div 2^11) % 64), 32768 + 8192 * B(17) + 2048 * B(18) + (u % 2^11)>> >> :
     c \in Conditions, i \in {-1024, -1, 0, 1, 2047}},
  {<<[type |-> "T32_TBB", rn |-> n, rm |-> m], <<59600 + n, 61440 + m>>>> : n \in Regs, m \in Regs},
  {<<[type |-> "T32_TBH", rn |-> n, rm |-> m], <<59600 + n, 61456 + m>>>> : n \in Regs, m \in Regs},
  {<<[type |-> "T32_CLREX"], <<62399, 36655>>>>, <<[type |-> "T32_NOP"], <<62383, 32768>>>>}}

(* Modified immediates by definition: imm12 as <<imm12, value>>. The rotated form *)
(* is the byte 1bcdefgh turned right in a word of 32 bits.                        *)
Word(bits) ==
  LET Half(from) == Mask({b - from : b \in bits \cap from .. from + 15})
      high == Half(16)
  IN  (IF high >= 2^15 THEN high - 2^16 ELSE high) * 2^16 + Half(0)

BitsOf(byte) == {b \in 0..7 : (byte \div 2^b) % 2 = 1}
Turned(byte, n) == Word({(b - n) % 32 : b \in BitsOf(byte) \cup {7}})
Repeated(byte, lanes) == Word({b + 8 * l : b \in BitsOf(byte), l \in lanes})

Constants ==
  {<<256 * t[1] + byte, Repeated(byte, t[2])>> :
     t \in {<<0, {0}>>, <<1, {0, 2}>>, <<2, {1, 3}>>, <<3, 0..3>>}, byte \in {1, 127, 128, 255}}
  \cup {<<128 * n + (byte % 128), Turned(byte, n)>> : n \in 8..31, byte \in {128, 129, 213, 255}}

(* A 12-bit immediate as i:imm3:imm8 over the two halfwords. *)
First(i)  == 1024 * (i \div 2048)
Second(i) == 4096 * ((i \div 256) % 8) + (i % 256)

(* [name, opcode] of the data processing operations; MOV and MVN have no Rn, *)
(* the comparisons no Rd. *)
DyadicOps  == {<<"AND", 0>>, <<"BIC", 1>>, <<"ORR", 2>>, <<"ORN", 3>>, <<"EOR", 4>>,
               <<"ADD", 8>>, <<"ADC", 10>>, <<"SBC", 11>>, <<"SUB", 13>>, <<"RSB", 14>>}
UnaryOps   == {<<"MOV", 2>>, <<"MVN", 3>>}
CompareOps == {<<"TST", 0>>, <<"TEQ", 4>>, <<"CMN", 8>>, <<"CMP", 13>>}

(* [operation, Rn, Rd, S, encoded Rn] *)
Operations ==
  {<<o, n, d, s, n>> : o \in DyadicOps, n \in Regs, d \in Regs, s \in 0..1}
    \cup {<<o, 0, d, s, 15>> : o \in UnaryOps, d \in Regs, s \in 0..1}
    \cup {<<o, n, 15, 1, n>> : o \in CompareOps, n \in Regs}

SomeConstants == {c \in Constants : c[1] % 256 = 127} \cup {<<2048 + 128, Turned(128, 17)>>}

DataProcessing32 == UNION {
  {<<[type |-> "T32_" \o p[1][1] \o "_IMM", rd |-> p[3], rn |-> p[2], imm |-> c[2], s |-> p[4] = 1],
     <<61440 + First(c[1]) + 32 * p[1][2] + 16 * p[4] + p[5], Second(c[1]) + 256 * p[3]>> >> :
     p \in Operations, c \in SomeConstants},
  {<<[type |-> "T32_MOV_IMM", rd |-> 1, rn |-> 0, imm |-> c[2], s |-> FALSE],
     <<61519 + First(c[1]), Second(c[1]) + 256>> >> : c \in Constants},
  {<<[type |-> "T32_" \o p[1][1] \o "_REG", rd |-> p[3], rn |-> p[2], rm |-> m, s |-> p[4] = 1, stype |-> t, shift |-> i],
     <<59904 + 32 * p[1][2] + 16 * p[4] + p[5], 4096 * (i \div 4) + 256 * p[3] + 64 * (i % 4) + 16 * t + m>> >> :
     p \in Operations, m \in {0, 11}, t \in 0..3, i \in {0, 1, 31}},
  {<<[type |-> t[1], rd |-> d, rn |-> n, imm |-> i], <<61440 + First(i) + 16 * t[2] + n, Second(i) + 256 * d>> >> :
     t \in {<<"T32_ADDW", 32>>, <<"T32_SUBW", 42>>}, d \in Regs, n \in Regs, i \in {0, 255, 256, 2048, 4095}},
  {<<[type |-> t[1], rd |-> d, rn |-> i \div 4096, imm |-> i],
     <<61440 + First(i % 4096) + 16 * t[2] + i \div 4096, Second(i % 4096) + 256 * d>> >> :
     t \in {<<"T32_MOVW", 36>>, <<"T32_MOVT", 44>>}, d \in Regs, i \in {0, 255, 2048, 4096, 65535}},
  {<<[type |-> "T32_" \o t[1] \o u, rd |-> d, rn |-> n, rm |-> m, s |-> u = "S_REG"],
     <<64000 + 32 * t[2] + 16 * (IF u = "S_REG" THEN 1 ELSE 0) + n, 61440 + 256 * d + m>> >> :
     t \in {<<"LSL", 0>>, <<"LSR", 1>>, <<"ASR", 2>>, <<"ROR", 3>>}, u \in {"_REG", "S_REG"}, d \in Regs, n \in Regs, m \in Regs}}

(* Bit fields [lsb, width] and saturations [limit, shift]. *)
BitFields == {<<0, 1>>, <<0, 32>>, <<5, 8>>, <<31, 1>>}
Shift(s)  == 4096 * (s \div 4) + 64 * (s % 4)

BitFieldOps == UNION {
  {<<[type |-> t[1], rn |-> n, rd |-> d, imm |-> 256 * f[1] + f[2]],
     <<t[2] + n, Shift(f[1]) + 256 * d + f[2] - 1>> >> :
     t \in {<<"T32_SBFX", 62272>>, <<"T32_UBFX", 62400>>} , n \in Regs, d \in Regs, f \in BitFields},
  {<<[type |-> IF n = 15 THEN "T32_BFC" ELSE "T32_BFI", rn |-> n, rd |-> d, imm |-> 256 * f[1] + f[2]],
     <<62304 + n, Shift(f[1]) + 256 * d + f[1] + f[2] - 1>> >> : n \in Regs \cup {15}, d \in Regs, f \in BitFields},
  {<<[type |-> "T32_SSAT", rn |-> n, rd |-> d, imm |-> 2^16 * l + s], <<62208 + n, Shift(s) + 256 * d + l - 1>> >> :
     n \in Regs, d \in Regs, l \in {1, 8, 32}, s \in {0, 4, 31}},
  {<<[type |-> "T32_USAT", rn |-> n, rd |-> d, imm |-> 2^16 * l + s], <<62336 + n, Shift(s) + 256 * d + l>> >> :
     n \in Regs, d \in Regs, l \in {0, 8, 31}, s \in {0, 4, 31}}}

(* [type, first halfword with the offset form's bit 7 clear]. *)
SingleTransfers == {<<"T32_STRB", 63488>>, <<"T32_STRH", 63520>>, <<"T32_STR", 63552>>, <<"T32_LDRB", 63504>>,
                    <<"T32_LDRH", 63536>>, <<"T32_LDR", 63568>>, <<"T32_LDRSB", 63760>>, <<"T32_LDRSH", 63792>>}
(* [P, U, W] of the indexed forms: offset down, then post- and pre-indexed. *)
Indexing == {<<1, 0, 1>>, <<1, 1, 1>>, <<0, 0, 1>>, <<0, 1, 1>>}

Flag(b) == b = 1

Memory32 == UNION {
  {<<[type |-> t[1] \o "_IMM", rn |-> n, rd |-> d, imm |-> i], <<t[2] + 128 + n, 4096 * d + i>> >> :
     t \in SingleTransfers, n \in Regs, d \in Regs, i \in {0, 4095}},
  {<<[type |-> t[1] \o "_PRE_POST", rn |-> n, rd |-> d, imm |-> i, pre |-> Flag(x[1]), neg |-> ~Flag(x[2]), wb |-> Flag(x[3])],
     <<t[2] + n, 4096 * d + 2048 + 1024 * x[1] + 512 * x[2] + 256 * x[3] + i>> >> :
     t \in SingleTransfers, n \in Regs, d \in Regs, x \in Indexing, i \in {0, 255}},
  {<<[type |-> t[1] \o "_REG", rn |-> n, rd |-> d, rm |-> m, shift |-> i], <<t[2] + n, 4096 * d + 16 * i + m>> >> :
     t \in SingleTransfers, n \in Regs, d \in Regs, m \in Regs, i \in 0..3},
  {<<[type |-> "T32_LDR_LIT", rn |-> 15, rd |-> d, imm |-> i, neg |-> u = 0], <<63583 + 128 * u, 4096 * d + i>> >> :
     d \in Regs, i \in {0, 4095}, u \in 0..1},
  {<<[type |-> t[1], rn |-> n, list |-> l, wb |-> Flag(w)], <<t[2] + 32 * w + n, Mask(l)>> >> :
     t \in {<<"T32_STMIA", 59520>>, <<"T32_LDMIA", 59536>>, <<"T32_STMDB", 59648>>, <<"T32_LDMDB", 59664>>},
     n \in Regs, w \in 0..1, l \in {{0, 2}, {4, 12, 14}}},
  {<<[type |-> t[1], rn |-> n, rd |-> d, rm |-> 12, imm |-> 4 * i, pre |-> TRUE, neg |-> u = 0, wb |-> Flag(w)],
     <<59712 + t[2] + 128 * u + 32 * w + n, 4096 * d + 256 * 12 + i>> >> :
     t \in {<<"T32_STRD", 0>>, <<"T32_LDRD", 16>>}, n \in Regs, d \in Regs, i \in {0, 255}, u \in 0..1, w \in 0..1}}

Exclusive32 == UNION {
  {<<[type |-> "T32_LDREX", rn |-> n, rd |-> t, imm |-> 4 * i], <<59472 + n, 4096 * t + 3840 + i>> >> : n \in Regs, t \in Regs, i \in {0, 255}},
  {<<[type |-> "T32_STREX", rn |-> n, rd |-> d, rm |-> t, imm |-> 4 * i], <<59456 + n, 4096 * t + 256 * d + i>> >> :
     n \in Regs, d \in Regs, t \in Regs, i \in {0, 255}},
  {<<[type |-> u[1], rn |-> n, rd |-> t], <<59600 + n, 4096 * t + 3855 + 16 * u[2]>> >> :
     u \in {<<"T32_LDREXB", 4>>, <<"T32_LDREXH", 5>>}, n \in Regs, t \in Regs},
  {<<[type |-> u[1], rn |-> n, rd |-> d, rm |-> t], <<59584 + n, 4096 * t + 3840 + 16 * u[2] + d>> >> :
     u \in {<<"T32_STREXB", 4>>, <<"T32_STREXH", 5>>}, n \in Regs, d \in Regs, t \in Regs}}

Multiply32 == UNION {
  {<<[type |-> "T32_MUL", rn |-> n, rd |-> d, rm |-> m], <<64256 + n, 61440 + 256 * d + m>> >> : n \in Regs, d \in Regs, m \in Regs},
  {<<[type |-> t[1], rn |-> n, rd |-> d, rm |-> m, rs |-> a], <<64256 + n, 4096 * a + 256 * d + 16 * t[2] + m>> >> :
     t \in {<<"T32_MLA", 0>>, <<"T32_MLS", 1>>}, n \in Regs, d \in Regs, m \in Regs, a \in Regs},
  {<<[type |-> t[1], rn |-> n, rd |-> d, rm |-> m], <<t[2] + n, 61680 + 256 * d + m>> >> :
     t \in {<<"T32_SDIV", 64400>>, <<"T32_UDIV", 64432>>}, n \in Regs, d \in Regs, m \in Regs},
  {<<[type |-> t[1], rd |-> l, rs |-> h, rn |-> n, rm |-> m], <<t[2] + n, 4096 * l + 256 * h + m>> >> :
     t \in {<<"T32_UMULL", 64416>>, <<"T32_SMLAL", 64448>>, <<"T32_UMLAL", 64480>>}, l \in Regs, h \in Regs, n \in Regs, m \in Regs}}

-----------------------------------------------------------------------------
(* ARMv7E-M: lanes added and subtracted in parallel. *)
Lanes == {<<"ADD8", 0>>, <<"ADD16", 1>>, <<"ASX", 2>>, <<"SUB8", 4>>, <<"SUB16", 5>>, <<"SAX", 6>>}
LaneForms == {<<"S", 0>>, <<"Q", 1>>, <<"SH", 2>>, <<"U", 4>>, <<"UQ", 5>>, <<"UH", 6>>}

Parallel32 ==
  {<<[type |-> "T32_" \o f[1] \o o[1], rn |-> n, rd |-> d, rm |-> m, s |-> FALSE],
     <<64128 + 16 * o[2] + n, 61440 + 256 * d + 16 * f[2] + m>> >> :
     f \in LaneForms, o \in Lanes, n \in Regs, d \in Regs, m \in Regs}

BitOps32 ==
  {<<[type |-> t[1], rn |-> m, rd |-> d, rm |-> m, s |-> FALSE], <<64128 + 16 * t[2] + m, 61440 + 256 * d + 16 * t[3] + m>> >> :
     t \in {<<"T32_REV", 1, 8>>, <<"T32_REV16", 1, 9>>, <<"T32_RBIT", 1, 10>>, <<"T32_REVSH", 1, 11>>, <<"T32_CLZ", 3, 8>>},
     d \in Regs, m \in Regs}

-----------------------------------------------------------------------------
(* What each architecture adds. *)
V6  == DataProcessing16 \cup Memory16 \cup Control16 \cup Control32
V7  == Control16V7 \cup Control32V7 \cup DataProcessing32 \cup BitFieldOps \cup Memory32 \cup Exclusive32 \cup Multiply32
V7E == Parallel32 \cup BitOps32
=============================================================================
