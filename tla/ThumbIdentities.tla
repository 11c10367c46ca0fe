--------------------------- MODULE ThumbIdentities ---------------------------
(***************************************************************************)
(* More programs for Execute: computations of one value in two ways, which *)
(* leave it in R2 and in R3, and uses of the exclusive monitor.            *)
(***************************************************************************)
EXTENDS ThumbPrograms

W == WordBits
Extend(k, d, m)        == Of("EXTEND", [alu |-> k, rd |-> d, rm |-> m])
ShiftBy(type, d, m, k) == Of(type \o "_IMM", [rd |-> d, rm |-> m, shift |-> k])
Narrowly(type, d, m)   == DM(IF type = "ROR" THEN "ROR" ELSE type \o "_REG", d, m)
Widely(type, d, n, m)  == Of("T32_" \o type \o "S_REG", [rd |-> d, rn |-> n, rm |-> m, s |-> TRUE])
Field(type, d, n, lsb, width) == DNI("T32_" \o type, d, n, 256 * lsb + width)
Unary(type, d, m)      == DNM(type, d, m, m)
When(c, ins)           == <<If("IT", c, 8), ins>>
CarryTo(d)             == <<Mov(d, 0), DM("ADC", d, d)>>      \* R_d := C

(* x - y, of what was loaded to R2 and R4 and of what was stored *)
Difference == <<DNM("SUB_REG", 2, 2, 4), DNM("SUB_REG", 3, 0, 1)>>

-----------------------------------------------------------------------------
(* A bit field goes out and comes back into its hole; bit fields are two shifts. *)
FieldCode(v, lsb, width) ==
  CASE v = "put" -> <<Copy(3, 0), Copy(2, 0), Field("UBFX", 4, 0, lsb, width), Field("BFC", 2, 15, lsb, width),
                      Field("BFI", 2, 4, lsb, width)>>
    [] v = "signed" -> <<Field("SBFX", 2, 0, lsb, width), Mov(4, W - width - lsb), Copy(3, 0), Narrowly("LSL", 3, 4),
                         Mov(4, W - width), Narrowly("ASR", 3, 4)>>
    [] v = "unsigned" -> <<Field("UBFX", 2, 0, lsb, width), Mov(4, W - width - lsb), Widely("LSL", 3, 4, 0),
                           Mov(4, W - width), Widely("LSR", 3, 4, 3)>>

(* Shifts by a constant are products, quotients and bit fields. *)
ShiftTypes == <<"LSL", "LSR", "ASR", "ROR">>
Arithmetic(type, k) ==
  CASE type = 1 -> <<Mov(4, 2^k), DNM("T32_MUL", 3, 0, 4)>>
    [] type = 2 -> <<Mov(4, 2^k), DNM("T32_UDIV", 3, 0, 4)>>
    [] type = 3 -> <<Field("SBFX", 3, 0, k, W - k)>>
    [] type = 4 -> <<Field("UBFX", 3, 0, k, W - k), Field("BFI", 3, 0, W - k, k)>>
ShiftCode(v, type, k) ==
  CASE v = "operand"   -> <<Shifted("MOV", 2, 0, 0, FALSE, type - 1, k)>> \o Arithmetic(type, k)
    [] v = "immediate" -> <<ShiftBy(ShiftTypes[type], 2, 0, k)>> \o Arithmetic(type, k)

(* The last bit out of a shift. *)
LastOut(type, k) ==
  CASE type = 1 -> IF k > W THEN <<Mov(3, 0)>> ELSE <<Field("UBFX", 3, 0, W - k, 1)>>
    [] type = 2 -> IF k > W THEN <<Mov(3, 0)>> ELSE <<Field("UBFX", 3, 0, k - 1, 1)>>
    [] type = 3 -> <<Field("UBFX", 3, 0, Min({k, W}) - 1, 1)>>
    [] type = 4 -> <<Field("UBFX", 3, 0, (k - 1) % W, 1)>>
OutCode(v, type, k) ==
  <<Mov(4, k)>>
    \o (CASE v = "out" -> <<Copy(5, 0), Narrowly(ShiftTypes[type], 5, 4)>>
          [] v = "out32" -> <<Widely(ShiftTypes[type], 5, 4, 0)>>
          [] v = "outimm" -> <<ShiftBy(ShiftTypes[type], 5, 0, k)>>)
    \o CarryTo(2) \o LastOut(type, k)

(* A shift by y is y shifts by one. *)
LoopCode(v, type) ==
  (IF v = "loop" THEN <<Copy(2, 0), Narrowly(ShiftTypes[type], 2, 1)>> ELSE <<Widely(ShiftTypes[type], 2, 1, 0)>>)
    \o <<Copy(3, 0), Of("CBZ", [rn |-> 1, imm |-> 6]), Shifted("MOV", 3, 0, 3, FALSE, type - 1, 1),
         DI("SUB_IMM8", 1, 1), Jump("B", -12)>>

(* SSAT and USAT are two comparisons; the shift comes first. *)
Cut(high, low) ==
  <<Mov(4, high), DM("CMP_REG", 3, 4)>> \o When(12, Copy(3, 4))
    \o <<Mov(4, low), DM("CMP_REG", 3, 4)>> \o When(11, Copy(3, 4))
SaturateCode(v, n, k) ==
  <<DNI("T32_" \o v, 2, 0, 2^16 * n + k), Shifted("MOV", 3, 0, 0, FALSE, 0, k)>>
    \o (IF v = "SSAT" THEN Cut(2^(n - 1) - 1, Low(-(2^(n - 1)))) ELSE Cut(2^n - 1, 0))

LogicCode ==
  [or    |-> <<Copy(2, 0), DM("ORR", 2, 1), Copy(4, 0), DM("AND", 4, 1), DNM("ADD_REG", 2, 2, 4), DNM("ADD_REG", 3, 0, 1)>>,
   eor   |-> <<Copy(2, 0), DM("EOR", 2, 1), Reg("ORR", 3, 0, 1, FALSE), Reg("AND", 4, 0, 1, FALSE), DNM("SUB_REG", 3, 3, 4)>>,
   bic   |-> <<Copy(2, 0), DM("BIC", 2, 1), Reg("AND", 4, 0, 1, TRUE), DNM("SUB_REG", 3, 0, 4)>>,
   mvn   |-> <<DM("MVN", 2, 0), DM("NEG", 3, 0), DI("SUB_IMM8", 3, 1)>>,
   mvn32 |-> <<Reg("MVN", 2, 0, 0, FALSE), Imm("EOR", 3, 0, 2^W - 1, FALSE)>>,
   orn   |-> <<Reg("ORN", 2, 0, 1, FALSE), Reg("MVN", 4, 0, 1, FALSE), Reg("ORR", 3, 4, 0, FALSE)>>,
   bic32 |-> <<Reg("BIC", 2, 0, 1, FALSE), Reg("ORN", 3, 1, 0, FALSE), Reg("MVN", 3, 0, 3, FALSE)>>,
   eor32 |-> <<Reg("EOR", 2, 0, 1, FALSE), Reg("EOR", 2, 2, 1, FALSE), Copy(3, 0)>>,
   masks |-> <<Imm("AND", 2, 0, 85, FALSE), Imm("BIC", 4, 0, 85, FALSE), Reg("ORR", 2, 2, 4, FALSE),
               Imm("ORR", 4, 0, 85, FALSE), Imm("ORN", 3, 0, 85, FALSE), Reg("AND", 3, 3, 4, FALSE)>>,
   tst   |-> <<Mov(2, 0), Mov(3, 0), DM("TST", 0, 1)>> \o When(0, Mov(2, 1))
               \o <<Reg("AND", 4, 0, 1, FALSE), DI("CMP_IMM", 4, 0)>> \o When(0, Mov(3, 1)),
   tst32 |-> <<Mov(2, 0), Mov(3, 0), Reg("TST", 15, 0, 1, TRUE)>> \o When(4, Mov(2, 1))
               \o <<Reg("AND", 4, 0, 1, FALSE), Imm("TST", 15, 4, 2^(W - 1), TRUE)>> \o When(1, Mov(3, 1)),
   teq   |-> <<Mov(2, 0), Mov(3, 0), Reg("TEQ", 15, 0, 1, TRUE)>> \o When(1, Mov(2, 1))
               \o <<DM("CMP_REG", 0, 1)>> \o When(1, Mov(3, 1)),
   cmp   |-> <<Mov(2, 0), Mov(3, 0), Imm("CMP", 15, 0, 85, TRUE)>> \o When(8, Mov(2, 1))
               \o <<Imm("CMN", 15, 0, 2^W - 85, TRUE)>> \o When(8, Mov(3, 1))]

SumCode ==
  [reverse |-> <<Imm("RSB", 2, 0, 7, FALSE), Imm("MVN", 4, 0, 7, FALSE), DNM("ADD_REG", 3, 0, 4), DM("MVN", 3, 3)>>,
   sums    |-> <<Imm("ADD", 2, 0, 9, FALSE), DNI("T32_SUBW", 2, 2, 7), DNI("ADD_IMM3", 2, 2, 1),
                 DNI("T32_ADDW", 3, 0, 5), DNI("SUB_IMM3", 3, 3, 3), DI("ADD_IMM8", 3, 1)>>,
   carried |-> <<Imm("SUB", 4, 0, 0, TRUE), Imm("ADC", 2, 0, 6, FALSE), Imm("SBC", 3, 0, 2^W - 7, FALSE)>>,
   stack   |-> <<DNI("ADD_SP", 2, 13, 8), Copy(3, 13), DI("ADD_IMM8", 3, 8)>>,
   high    |-> <<Copy(9, 0), Of("ADD_HI", [rd |-> 9, rm |-> 1]), Copy(2, 9), DNM("ADD_REG", 3, 0, 1)>>,
   rotate  |-> <<Copy(2, 0), DM("NEG", 4, 1), DM("ROR", 2, 1), DM("ROR", 2, 4), Copy(3, 0)>>,
   halves  |-> <<DNI("T32_MOVW", 2, 0, 9), DNI("T32_MOVT", 2, 0, 6), Mov(3, 6 * 2^HalfBits + 9)>>]

BytesCode ==
  [sxth   |-> <<Extend(0, 2, 0), Unary("T32_SXTH", 4, 0), DNM("SUB_REG", 2, 2, 4), Mov(3, 0)>>,
   sxth32 |-> <<Unary("T32_SXTH", 2, 0), Field("SBFX", 3, 0, 0, HalfBits)>>,
   sxtb   |-> <<Extend(1, 2, 0), Field("SBFX", 3, 0, 0, ByteBits)>>,
   uxth   |-> <<Extend(2, 2, 0), Field("UBFX", 3, 0, 0, HalfBits)>>,
   uxtb   |-> <<Extend(3, 2, 0), Field("UBFX", 3, 0, 0, ByteBits)>>,
   sxtb32 |-> <<Unary("T32_SXTB", 2, 0), Field("SBFX", 3, 0, 0, ByteBits)>>,
   uxth32 |-> <<Unary("T32_UXTH", 2, 0), Field("UBFX", 3, 0, 0, HalfBits)>>,
   uxtb32 |-> <<Unary("T32_UXTB", 2, 0), Field("UBFX", 3, 0, 0, ByteBits)>>,
   rev    |-> <<Unary("REV", 2, 0), Mov(3, 0)>>
                \o FlattenSeq([i \in 1..4 |-> <<Field("UBFX", 4, 0, (i - 1) * ByteBits, ByteBits),
                                               Field("BFI", 3, 4, (4 - i) * ByteBits, ByteBits)>>]),
   rev16  |-> <<Unary("REV", 2, 0), Unary("REV16", 2, 2), Mov(4, HalfBits), Copy(3, 0), DM("ROR", 3, 4)>>,
   revsh  |-> <<Unary("REVSH", 2, 0), Unary("REVSH", 2, 2), Extend(0, 3, 0)>>]

MemoryCode ==
  [pc       |-> <<DNI("ADD_PC", 2, 15, 124), DNI("LDR_IMM", 2, 2, 0), DNI("LDR_PC", 3, 15, 120)>>,
   literal  |-> <<DNI("T32_LDR_LIT", 2, 15, 124) @@ [neg |-> FALSE], DNI("LDR_PC", 3, 15, 120)>>,
   dual     |-> <<DNI("T32_STRD", 0, 8, 4) @@ [rm |-> 1, pre |-> TRUE, neg |-> TRUE, wb |-> TRUE],
                  DNI("T32_LDRD", 2, 8, 0) @@ [rm |-> 4, pre |-> TRUE, neg |-> FALSE, wb |-> FALSE]>> \o Difference,
   dualpost |-> <<DNI("T32_STRD", 0, 8, 4) @@ [rm |-> 1, pre |-> FALSE, neg |-> FALSE, wb |-> FALSE], Mov(9, Base8),
                  DNI("T32_LDR_IMM", 2, 9, 0), DNI("T32_LDR_IMM", 4, 9, 4)>> \o Difference,
   many     |-> <<Many("STMIA", 6, {0, 1}), DI("SUB_IMM8", 6, 8), Many("LDMIA", 6, {2, 4})>> \o Difference,
   many32   |-> <<Many("T32_STMIA", 8, {0, 1}), Many("T32_LDMDB", 8, {2, 9}), Copy(4, 9)>> \o Difference,
   table    |-> <<Mov(4, 96), Mov(6, 0), DNI("T32_STRB_IMM", 6, 4, 0), Mov(6, 2), DNI("T32_STRB_IMM", 6, 4, 1),
                  Field("UBFX", 3, 1, 0, 1), DNM("T32_TBB", 0, 4, 3),
                  DI("MOV_IMM", 2, 0), Jump("B", 0), DI("MOV_IMM", 2, 1)>>,
   table16  |-> <<Mov(4, 96), Mov(6, 0), DNI("T32_STRH_IMM", 6, 4, 0), Mov(6, 2), DNI("T32_STRH_IMM", 6, 4, 2),
                  Field("UBFX", 3, 1, 0, 1), DNM("T32_TBH", 0, 4, 3),
                  DI("MOV_IMM", 2, 0), Jump("B", 0), DI("MOV_IMM", 2, 1)>>,
   hint     |-> <<Jump("NOP", 0), Copy(2, 0), Jump("T32_NOP", 0), Copy(3, 0)>>]

AgreeCode == LogicCode @@ SumCode @@ BytesCode @@ MemoryCode

Fields == {<<0, 1>>, <<1, W - 2>>, <<3, 2>>, <<W - 1, 1>>, <<0, W - 1>>}
AgreeNames ==
  {<<"agree", v, 0, 0>> : v \in DOMAIN AgreeCode}
    \cup {<<"field", v, f[1], f[2]>> : v \in {"put", "signed", "unsigned"}, f \in Fields}
    \cup {<<"shift", "operand", t, k>> : t \in 1..4, k \in {1, HalfBits, W - 1}}
    \cup {<<"shift", "immediate", t, k>> : t \in 1..3, k \in {1, HalfBits, W - 1}}
    \cup {<<"out", v, t, k>> : v \in {"out", "out32"}, t \in 1..4, k \in {1, W - 1, W, W + 1}}
    \cup {<<"out", "outimm", t, k>> : t \in 1..3, k \in {1, W - 1}}
    \cup {<<"loop", v, t, 0>> : v \in {"loop", "loop32"}, t \in 1..4}
    \cup {<<"saturate", v, n, k>> : v \in {"SSAT", "USAT"}, n \in {1, HalfBits, W - 1}, k \in {0, 1}}

-----------------------------------------------------------------------------
(* Cores with DSP extensions; their register forms of T32 operations do nothing. *)

(* R3 lane by lane, for the operations that keep to a lane. *)
LaneSteps(prefix, pattern, i) ==
  LET n    == LaneBits(pattern)
      take == IF prefix \in {"S", "Q", "SH"} THEN "SBFX" ELSE "UBFX"
      op   == IF Subtracts(pattern, i) THEN "SUB_REG" ELSE "ADD_REG"
      cut  == CASE prefix = "Q"  -> <<DNI("T32_SSAT", 4, 4, 2^16 * n)>>
                [] prefix = "UQ" -> <<DNI("T32_USAT", 4, 4, 2^16 * n)>>
                [] prefix = "SH" -> <<ShiftBy("ASR", 4, 4, 1)>>
                [] prefix = "UH" -> <<ShiftBy("LSR", 4, 4, 1)>>
                [] OTHER         -> <<>>
  IN  <<Field(take, 4, 0, i * n, n), Field(take, 5, 1, i * n, n), DNM(op, 4, 4, 5)>> \o cut
        \o <<Field("BFI", 3, 4, i * n, n)>>
LaneCode(prefix, pattern) ==
  <<DNM("T32_" \o prefix \o pattern, 2, 0, 1)>>
    \o FlattenSeq([i \in 1 .. W \div LaneBits(pattern) |-> LaneSteps(prefix, pattern, i - 1)])

Undo(there, back) == <<DNM(there, 2, 0, 1), DNM(back, 2, 2, 1), Copy(3, 0)>>

DspCode ==
  [asx  |-> Undo("T32_SASX", "T32_SSAX"), uasx |-> Undo("T32_UASX", "T32_USAX"), usax |-> Undo("T32_USAX", "T32_UASX"),
   lost |-> <<Reg("ADD", 2, 0, 1, TRUE), Copy(3, 2)>>,
   rev  |-> <<Unary("T32_REV", 2, 0), Unary("REV", 3, 0)>>,
   rev16 |-> <<Unary("T32_REV16", 2, 0), Unary("T32_REV", 2, 2), Mov(4, HalfBits), Copy(3, 0), DM("ROR", 3, 4)>>,
   revsh |-> <<Unary("T32_REVSH", 2, 0), Unary("T32_REVSH", 2, 2), Extend(0, 3, 0)>>,
   rbit |-> <<Unary("T32_RBIT", 2, 0), Mov(3, 0)>>
              \o FlattenSeq([i \in 1..W |-> <<ShiftBy("LSR", 0, 0, 1), DM("ADC", 3, 3)>>]),
   clz  |-> <<Unary("T32_CLZ", 2, 0), Mov(3, W), Of("CBZ", [rn |-> 0, imm |-> 4]), ShiftBy("LSR", 0, 0, 1),
              DI("SUB_IMM8", 3, 1), Jump("B", -10)>>]

(* An unsigned difference loses its borrow before it is halved or cut. *)
LaneNames ==
  {<<"lane", p, n, 0>> : p \in {"S", "Q", "SH", "U"}, n \in {"ADD8", "ADD16", "SUB8", "SUB16"}}
    \cup {<<"lane", p, n, 0>> : p \in {"UQ", "UH"}, n \in {"ADD8", "ADD16"}}
DspNames == LaneNames \cup {<<"dsp", v, 0, 0>> : v \in DOMAIN DspCode}

(***************************************************************************)
(* Instructions that must compute the same value do: logic and arithmetic, *)
(* bit fields and shifts, the bit a shift puts out and the loop that       *)
(* shifts by one, saturation and comparison, lanes and words, the three    *)
(* ways to memory.                                                         *)
(***************************************************************************)
AlternativesAgree ==
  (Done /\ Group \in {"agree", "field", "shift", "out", "loop", "saturate", "dsp", "lane"}) => r[2] = r[3]

-----------------------------------------------------------------------------
(* The exclusive monitor: R2 is the answer of the store of R0 at R8. *)

ExclusiveLoad(size, d, n) == DNI("T32_LDREX" \o size, d, n, 0)
ExclusiveStore(size, d, m, n) == Of("T32_STREX" \o size, [rd |-> d, rn |-> n, imm |-> 0, rm |-> m])
Other(size) == IF size = "B" THEN "H" ELSE "B"

ExclusiveCode(v, size) ==
  LET load  == ExclusiveLoad(size, 4, 8)
      store == ExclusiveStore(size, 2, 0, 8)
      apart == DNI("T32_ADDW", 9, 8, 4)
  IN  CASE v = "held"     -> <<load, store>>
        [] v = "twice"    -> <<load, ExclusiveStore(size, 5, 0, 8), store>>
        [] v = "unloaded" -> <<store>>
        [] v = "cleared"  -> <<load, Of("T32_CLREX", [imm |-> 0]), store>>
        [] v = "apart"    -> <<apart, ExclusiveLoad(size, 4, 9), store>>
        [] v = "moved"    -> <<load, apart, ExclusiveLoad(size, 5, 9), store>>
        [] v = "sized"    -> <<ExclusiveLoad(Other(size), 4, 8), store>>
        [] v = "spent"    -> <<load, apart, ExclusiveStore(size, 5, 1, 9), store>>
        [] v = "add"      -> <<load, DNM("ADD_REG", 4, 4, 0), ExclusiveStore(size, 2, 4, 8), Of("CBNZ", [rn |-> 2, imm |-> -14])>>

ExclusiveSizes == {"", "B", "H"}
ExclusiveNames ==
  {<<"exclusive", v, size, 0>> :
     v \in {"held", "twice", "unloaded", "cleared", "apart", "moved", "sized", "spent", "add"}, size \in ExclusiveSizes}

(***************************************************************************)
(* A store-exclusive stores, and answers 0, exactly if the last exclusive  *)
(* access was a load of the same place and size and no CLREX followed it;  *)
(* the loop that retries a load and store adds once.                       *)
(***************************************************************************)
StoresAreExclusive ==
  (Done /\ Group = "exclusive") =>
    LET n == Length32(Third)
        byte(m, i) == IF i < n THEN m[Base8 + i] * 2^(ByteBits * i) ELSE 0
        word(m) == byte(m, 0) + byte(m, 1) + byte(m, 2) + byte(m, 3)
        cut == 2^(ByteBits * n)
    IN  /\ (r[2] = 0) = (Variant \in {"held", "add"})
        /\ Variant \in {"held", "twice"} => word(mem) = x % cut
        /\ Variant = "add" => word(mem) = (word(InitialMem) + x) % cut
        /\ Variant \notin {"held", "twice", "add"} => mem = InitialMem

(* A program of this group is the one it is named for, and the types it is put *)
(* together from are those of the dispatch.                                    *)
ASSUME ExclusivesAssumption ==
  /\ \A p \in Programs :
       p.name[1] = "exclusive"
         => p.name \in ExclusiveNames /\ p = Laid(p.name, "M3", ExclusiveCode(p.name[2], p.name[3]))
  /\ "T32_LDREX" \o "" = "T32_LDREX" /\ "T32_LDREX" \o "B" = "T32_LDREXB" /\ "T32_LDREX" \o "H" = "T32_LDREXH"
  /\ "T32_STREX" \o "" = "T32_STREX" /\ "T32_STREX" \o "B" = "T32_STREXB" /\ "T32_STREX" \o "H" = "T32_STREXH"
  /\ Operation32["T32_ADDW"] = "ADD"
=============================================================================
