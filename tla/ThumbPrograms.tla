---------------------------- MODULE ThumbPrograms ----------------------------
(***************************************************************************)
(* Programs for Execute and what they must compute, stated over integers   *)
(* and never over flags.  A program's name is <<group, variant, a, b>>; it *)
(* starts with x in R0 and y in R1, and R2 .. R12 hold InitialRegister.    *)
(***************************************************************************)
EXTENDS Execute, SequencesExt

(* Instructions *)

Narrow ==
  DataProcessingTypes \cup LoadStoreTypes
    \cup {"B_COND", "B", "BX", "BLX", "CBZ", "CBNZ", "IT", "NOP", "EXTEND", "REV", "REV16", "REVSH",
          "STMIA", "LDMIA", "PUSH", "POP"}

Of(type, fields)     ==
  [k \in DOMAIN fields \cup {"type", "wide"} |->
     CASE k = "type" -> type [] k = "wide" -> type \notin Narrow [] OTHER -> fields[k]]
DM(type, d, m)       == Of(type, [rd |-> d, rn |-> d, rm |-> m])
DI(type, d, i)       == Of(type, [rd |-> d, rn |-> d, imm |-> i])
DNM(type, d, n, m)   == Of(type, [rd |-> d, rn |-> n, rm |-> m])
DNI(type, d, n, i)   == Of(type, [rd |-> d, rn |-> n, imm |-> i])
Shifted(op, d, n, m, s, type, k) ==
  Of("T32_" \o op \o "_REG", [rd |-> d, rn |-> n, rm |-> m, s |-> s, stype |-> type, shift |-> k])
Reg(op, d, n, m, s)  == Shifted(op, d, n, m, s, 0, 0)
Imm(op, d, n, i, s)  == Of("T32_" \o op \o "_IMM", [rd |-> d, rn |-> n, imm |-> i, s |-> s])
Mov(d, i)            == Imm("MOV", d, 0, i, FALSE)
Copy(d, m)           == Of("MOV_HI", [rd |-> d, rm |-> m])
Many(type, n, list)  == Of(type, [rn |-> n, list |-> list])
Jump(type, i)        == Of(type, [imm |-> i])
If(type, c, i)       == Of(type, [cond |-> c, imm |-> i])

Bytes(ins)   == IF ins.wide THEN 4 ELSE 2
(* Where each instruction starts; the last entry is the length of the code. *)
Offsets(code) ==
  LET f[i \in 1 .. Len(code) + 1] == IF i = 1 THEN 0 ELSE f[i - 1] + Bytes(code[i - 1])
  IN  f
Length(code) == Offsets(code)[Len(code) + 1]
(* A program with its instructions at their addresses, from 0. *)
Laid(name, core, code) ==
  LET at == Offsets(code)
  IN  [name |-> name, core |-> core, end |-> Length(code),
       code |-> [a \in {at[i] : i \in DOMAIN code} |-> code[CHOOSE i \in DOMAIN code : at[i] = a]]]

x == start[1]
y == start[2]
Group   == program.name[1]
Variant == program.name[2]
Third   == program.name[3]
Fourth  == program.name[4]

(***************************************************************************)
(* Every program ends, however it loops, calls itself or retries: no       *)
(* instruction leads out of the code or back to itself for ever.           *)
(***************************************************************************)
Terminates == <>Done

-----------------------------------------------------------------------------
(* Comparisons: the condition decides whether R2 is 1 or 0. *)

Compare ==
  [CMP_REG |-> DM("CMP_REG", 0, 1), CMP_HI |-> Of("CMP_HI", [rd |-> 0, rm |-> 1]),
   CMP_W |-> Reg("CMP", 15, 0, 1, TRUE), SUB_REG |-> DNM("SUB_REG", 3, 0, 1), SUB_W |-> Reg("SUB", 3, 0, 1, TRUE),
   RSB_W |-> Reg("RSB", 3, 1, 0, TRUE), CMN |-> DM("CMN", 0, 1), CMN_W |-> Reg("CMN", 15, 0, 1, TRUE),
   ADD_REG |-> DNM("ADD_REG", 3, 0, 1), ADD_W |-> Reg("ADD", 3, 0, 1, TRUE)]
SumsCompare == {"CMN", "CMN_W", "ADD_REG", "ADD_W"}

(* [how the condition is used] *)
DecideCode(v, c, use) ==
  CASE use = 0 -> <<Mov(2, 1), Compare[v], If("B_COND", c, 0), DI("MOV_IMM", 2, 0)>>
    [] use = 1 -> <<Mov(2, 1), Compare[v], If("T32_B_COND", c, 2), DI("MOV_IMM", 2, 0)>>
    [] use = 2 -> <<Mov(2, 0), Compare[v], If("IT", c, 8), Mov(2, 1)>>

DecideNames == {<<"decide", v, c, 0>> : v \in DOMAIN Compare, c \in 0..13}
                 \cup {<<"decide", "CMP_REG", c, use>> : c \in 0..13, use \in 1..2}

(* What the condition says of x compared with y, or of their sum with 0. *)
Order(c, sum) ==
  LET d    == IF sum THEN Signed(x) + Signed(y) ELSE Signed(x) - Signed(y)
      same == IF sum THEN Low(x + y) = 0 ELSE x = y
      high == IF sum THEN x + y >= 2^WordBits ELSE x >= y
      over == SignExtend(Low(d), WordBits) # d
      even == <<same, high, (d < 0) # over, over, high /\ ~same, d >= 0, d > 0>>[c \div 2 + 1]
  IN  IF c % 2 = 0 THEN even ELSE ~even

(***************************************************************************)
(* A comparison followed by a conditional branch or an IT block takes the  *)
(* decision that the two integers call for, signed and unsigned, for every *)
(* condition and every instruction that compares.                          *)
(***************************************************************************)
ComparesDecide ==
  (Done /\ Group = "decide") => r[2] = IF Order(Third, Variant \in SumsCompare) THEN 1 ELSE 0

-----------------------------------------------------------------------------
(* Arithmetic on two words: X = y:x, and Y = x:y or y:y. *)

Long(type)  == Of(type, [rd |-> 2, rs |-> 3, rn |-> 0, rm |-> 1])
Accumulate(type, d, n, m, a) == Of(type, [rd |-> d, rn |-> n, rm |-> m, rs |-> a])

WideCode ==
  [ADD |-> <<Reg("ADD", 2, 0, 1, TRUE), Reg("ADC", 3, 1, 0, TRUE)>>,
   ADD_16 |-> <<DNM("ADD_REG", 2, 0, 1), Copy(3, 1), DM("ADC", 3, 0)>>,
   SUB |-> <<Reg("SUB", 2, 0, 1, TRUE), Reg("SBC", 3, 1, 1, TRUE)>>,
   SUB_16 |-> <<DNM("SUB_REG", 2, 0, 1), Copy(3, 1), DM("SBC", 3, 1)>>,
   NEG |-> <<DM("NEG", 2, 0), Mov(3, 0), Reg("SBC", 3, 3, 1, TRUE)>>,
   UDIV |-> <<DNM("T32_UDIV", 2, 0, 1), Accumulate("T32_MLS", 3, 2, 1, 0)>>,
   SDIV |-> <<DNM("T32_SDIV", 2, 0, 1), Accumulate("T32_MLS", 3, 2, 1, 0)>>,
   UMULL |-> <<Long("T32_UMULL")>>, SMULL |-> <<Long("T32_SMULL")>>,
   UMLAL |-> <<Long("T32_UMLAL")>>, SMLAL |-> <<Long("T32_SMLAL")>>,
   MUL |-> <<DNM("T32_MUL", 2, 0, 1), DM("MUL", 0, 1), Reg("SUB", 3, 2, 0, TRUE)>>,
   MLA |-> <<Accumulate("T32_MLA", 2, 0, 1, 12), Mov(3, 0)>>]

WideNames == {<<"wide", v, 0, 0>> : v \in DOMAIN WideCode}

Square == 2^(2 * WordBits)
Pair(high, low) == high * 2^WordBits + low
Signed2(n) == SignExtend(n % Square, 2 * WordBits)
InitialPair == Pair(InitialRegister(3), InitialRegister(2))

(* P is a result with these flags: n its exact value, carry that of its unsigned form. *)
Yields(P, n, carry, exact) == P = n % Square /\ flags.c = carry /\ flags.v = (Signed2(n) # exact)

(* The 16-bit SBC takes y = 2^WordBits - 1 and a borrow for no subtrahend at all. *)
LostBorrow == y = 2^WordBits - 1 /\ x < y

(***************************************************************************)
(* Arithmetic wider than a register is exact: carry and borrow pass from   *)
(* the low word to the high one, and the flags are those of the whole; a   *)
(* quotient and its remainder give the dividend back; a product has both   *)
(* its halves.                                                             *)
(***************************************************************************)
WideArithmetic ==
  (Done /\ Group = "wide") =>
    LET P  == Pair(r[3], r[2])
        X  == Pair(y, x)
        sx == Signed(x)
        sy == Signed(y)
        Is(v) == Variant = v
    IN  /\ Is("ADD") \/ Is("ADD_16") =>
             Yields(P, X + Pair(x, y), X + Pair(x, y) >= Square, Signed2(X) + Signed2(Pair(x, y)))
        /\ Is("SUB") \/ (Is("SUB_16") /\ ~LostBorrow) =>
             Yields(P, X - Pair(y, y), X >= Pair(y, y), Signed2(X) - Signed2(Pair(y, y)))
        /\ Is("SUB_16") => P = (X - Pair(y, y)) % Square
        /\ Is("NEG") => Yields(P, -X, X = 0, -Signed2(X))
        /\ Is("UDIV") => IF y = 0 THEN r[2] = 0 ELSE x = r[2] * y + r[3] /\ r[3] < y
        /\ Is("SDIV") =>
             IF y = 0 THEN r[2] = 0
             ELSE /\ sx = Signed(r[2]) * sy + Signed(r[3])
                  /\ Signed(r[3]) \in {m * (IF sx < 0 THEN -1 ELSE 1) : m \in 0 .. Max({sy, -sy}) - 1}
        /\ Is("UMULL") => P = x * y
        /\ Is("SMULL") => Signed2(P) = sx * sy
        /\ Is("UMLAL") => P = (InitialPair + x * y) % Square
        /\ Is("SMLAL") => Signed2(P) = InitialPair + sx * sy
        /\ Is("MUL") => flags.z /\ r[2] = x * y % 2^WordBits
        /\ Is("MLA") => r[2] = (InitialRegister(12) + x * y) % 2^WordBits

-----------------------------------------------------------------------------
(* Subroutines: R2 becomes x * y. A program branches over the subroutine and *)
(* calls it.                                                                 *)

Call(body) == <<Jump("B", Length(body) - 2)>> \o body \o <<Jump("T32_BL", -Length(body) - 4)>>
CallRegister(body) ==
  <<Jump("B", Length(body) - 2)>> \o body \o <<Mov(3, 3), Of("BLX", [rm |-> 3])>>

(* y times: R4 := R4 + x. *)
Loop == <<Mov(4, 0), Of("CBZ", [rn |-> 1, imm |-> 4]), DNM("ADD_REG", 4, 4, 0), DI("SUB_IMM8", 1, 1),
          Jump("B", -10), Copy(2, 4)>>

Push == Many("PUSH", 13, {4, 5, 14})
Return == Of("BX", [rm |-> 14])
Post(type, d, n, i) == Of(type, [rd |-> d, rn |-> n, imm |-> i, pre |-> FALSE, neg |-> FALSE, wb |-> TRUE])

CallCode ==
  [pop |-> Call(<<Push>> \o Loop \o <<Many("POP", 13, {4, 5, 15})>>),
   bx |-> Call(<<Push>> \o Loop \o <<Many("T32_LDMIA", 13, {4, 5, 14}), Return>>),
   ldm |-> Call(<<Many("T32_STMDB", 13, {4, 5, 14})>> \o Loop \o <<Many("T32_LDMIA", 13, {4, 5, 15})>>),
   ldmdb |-> Call(<<Many("T32_STMDB", 13, {4, 5, 14})>> \o Loop \o <<Many("T32_LDMDB", 13, {4, 5, 15})>>),
   ldr |-> Call(<<Push>> \o Loop \o <<Many("POP", 13, {4, 5}), Post("T32_LDR_PRE_POST", 15, 13, 4)>>),
   frame |-> CallRegister(<<DI("SUB_SP_IMM7", 13, 12), DNI("STR_SP", 4, 13, 0), DNI("T32_STR_IMM", 14, 13, 8)>> \o Loop
               \o <<DNI("LDR_SP", 4, 13, 0), DNI("T32_LDR_IMM", 14, 13, 8), DI("ADD_SP_IMM7", 13, 12), Return>>),
   recursive |-> Call(<<Of("CBNZ", [rn |-> 1, imm |-> 4]), Mov(2, 0), Return,
                        Many("PUSH", 13, {4, 14}), DI("SUB_IMM8", 1, 1), Jump("T32_BL", -16),
                        DNM("ADD_REG", 2, 2, 0), Many("POP", 13, {4, 15})>>)]

CallNames == {<<"call", v, 0, 0>> : v \in DOMAIN CallCode}

(***************************************************************************)
(* Calls nest and return: with every pair of prologue and epilogue, a      *)
(* subroutine, recursive or not, comes back behind its call with SP and    *)
(* the registers it saved as they were, memory below its stack untouched,  *)
(* and never leaves the code.                                              *)
(***************************************************************************)
CallsReturn ==
  Group = "call" =>
  /\ Fetched \/ Done
  /\ Done =>
       /\ r[2] = Low(x * y) /\ r[SP] = StackTop
       /\ \A i \in 4..12 : r[i] = InitialRegister(i)
       /\ \A a \in Ram : a < StackTop - 32 => mem[a] = InitialMem[a]

-----------------------------------------------------------------------------
(* IT blocks: the condition holds or not for x compared with y; R4 .. R7 are *)
(* set by the instructions of the block and those behind it.                 *)

ItCode(c, mask) == <<DM("CMP_REG", 0, 1), If("IT", c, mask), Mov(4, 1), Mov(5, 1), Mov(6, 1), Mov(7, 1)>>

ItNames == {<<"it", "CMP", c, mask>> : c \in 0..13, mask \in DOMAIN ItLength}

(* ITSTATE as the architecture keeps it: the condition's last bit and the mask *)
(* move up with every instruction, until the mask is empty.                    *)
ItSlot(c, mask, i) ==
  LET state == (((c % 2) * 16 + mask) * 2^i) % 32
  IN  [inside |-> state % 16 # 0, cond |-> (c \div 2) * 2 + state \div 16]

(***************************************************************************)
(* An instruction in an IT block is executed exactly if its own condition, *)
(* the architecture's, holds; those behind the block always are.           *)
(***************************************************************************)
BlocksFollowItState ==
  (Done /\ Group = "it") =>
    \A i \in 0..3 :
      LET slot == ItSlot(Third, Fourth, i)
      IN  r[4 + i] = IF slot.inside /\ ~Order(slot.cond, FALSE) THEN InitialRegister(4 + i) ELSE 1

-----------------------------------------------------------------------------
(* Loads and stores of each size: R0 is stored and loaded back into R2, by an *)
(* addressing mode on one of the two sides.                                   *)

Stem(size) == CASE size \in {"B", "SB"} -> "STRB" [] size \in {"H", "SH"} -> "STRH" [] OTHER -> "STR"
Length32(size) == CASE size \in {"B", "SB"} -> 1 [] size \in {"H", "SH"} -> 2 [] OTHER -> 4
PrePostWith(type, d, pre, neg) ==
  Of(type \o "_PRE_POST", [rd |-> d, rn |-> 8, imm |-> 4, pre |-> pre, neg |-> neg, wb |-> TRUE])
Doubled(type, d, n, m) == Of(type \o "_REG", [rd |-> d, rn |-> n, rm |-> m, shift |-> 1])
Absolute(type, d, a) == DNI(type \o "_IMM", d, 7, a - InitialRegister(7))
Base8 == InitialRegister(8)

(* [code, address, value of R8 behind it] *)
Mode(size, k) ==
  LET st == Stem(size)
      ld == "LDR" \o size
      n  == Length32(size)
      pre == k \in {5, 6, 9, 10}
      neg == k \in {6, 8, 10, 12}
      moved == Base8 + IF neg THEN -4 ELSE 4
      at == IF pre THEN moved ELSE Base8
  IN  CASE k = 1 -> <<<<DNI(st \o "_IMM", 0, 6, n), DNI(ld \o "_IMM", 2, 6, n)>>, InitialRegister(6) + n, Base8>>
        [] k = 2 -> <<<<DNM(st \o "_REG", 0, 3, 3), DNM(ld \o "_REG", 2, 3, 3)>>, 2 * InitialRegister(3), Base8>>
        [] k = 3 -> <<<<DNI("T32_" \o st \o "_IMM", 0, 8, 5), DNI("T32_" \o ld \o "_IMM", 2, 8, 5)>>, Base8 + 5, Base8>>
        [] k = 4 -> <<<<Doubled("T32_" \o st, 0, 3, 3), Doubled("T32_" \o ld, 2, 3, 3)>>, 3 * InitialRegister(3), Base8>>
        [] k \in 5..8  -> <<<<PrePostWith("T32_" \o st, 0, pre, neg), Absolute("T32_" \o ld, 2, at)>>, at, moved>>
        [] k \in 9..12 -> <<<<Absolute("T32_" \o st, 0, at), PrePostWith("T32_" \o ld, 2, pre, neg)>>, at, moved>>

ModeNames ==
  {<<"transfer", m[1], m[2], 0>> : m \in ({"", "B", "H"} \X (1..12)) \cup ({"SB", "SH"} \X (2..8))}

Changed == {a \in Ram : mem[a] # InitialMem[a]}

(***************************************************************************)
(* What is stored is loaded back, cut and extended to its size, through    *)
(* every addressing mode; nothing beside it is written, and the base       *)
(* register ends where the mode says.                                      *)
(***************************************************************************)
TransfersRoundTrip ==
  (Done /\ Group = "transfer") =>
    LET mode == Mode(Variant, Third)
        n    == Length32(Variant)
        cut  == x % 2^(ByteBits * n)
    IN  /\ r[2] = IF Variant \in {"SB", "SH"} THEN Low(SignExtend(cut, ByteBits * n)) ELSE cut
        /\ Changed \subseteq mode[2] .. mode[2] + n - 1
        /\ r[8] = mode[3]

-----------------------------------------------------------------------------
(* The programs of this module *)

ProgramNames == DecideNames \cup WideNames \cup CallNames \cup ItNames \cup ModeNames
ProgramCode(n) ==
  CASE n[1] = "decide"   -> DecideCode(n[2], n[3], n[4])
    [] n[1] = "wide"     -> WideCode[n[2]]
    [] n[1] = "call"     -> CallCode[n[2]]
    [] n[1] = "it"       -> ItCode(n[3], n[4])
    [] n[1] = "transfer" -> Mode(n[2], n[3])[1]

(* A program of these groups is the one it is named for; each lies in the address *)
(* space and starts with words in its registers.                                  *)
ASSUME NamesAssumption ==
  \A p \in Programs :
    /\ p.name[1] \in {"decide", "wide", "call", "it", "transfer"}
         => p.name \in ProgramNames /\ p = Laid(p.name, "M3", ProgramCode(p.name))
    /\ p.end \in Word
    /\ Starts(p.name) \subseteq Word \X Word \X BOOLEAN

(* What the proofs need to know of the names of types, which are put together: the *)
(* dispatch is unambiguous, and an operation is found again in its types.          *)
ASSUME TypesAssumption ==
  /\ \A h \in CoreHandlers("M3") : \A t \in h[2] : Handler("M3", t) = h[1]
  /\ \A o \in Operations32 : \A form \in {"_IMM", "_REG"} :
       "T32_" \o o \o form \notin Narrow /\ Operation32["T32_" \o o \o form] = o

(* The same of loads and stores, and that memory is where they go. *)
ASSUME TransfersAssumption ==
  LET signed == {"LDRSB", "LDRSH"}
  IN  /\ "LDR" \o "" = "LDR" /\ "LDR" \o "B" = "LDRB" /\ "LDR" \o "H" = "LDRH"
      /\ "LDR" \o "SB" = "LDRSB" /\ "LDR" \o "SH" = "LDRSH"
      /\ \A n \in TransferNames : \A form \in {"_IMM", "_REG"} :
           n \notin signed \/ form = "_REG" => n \o form \in LoadStoreTypes /\ Transfer[n \o form] = n
      /\ \A n \in TransferNames : \A form \in {"_IMM", "_REG", "_PRE_POST"} :
           LET t == "T32_" \o n \o form
           IN  n \notin signed \/ form # "_PRE_POST" =>
                 /\ t # "T32_LDR_LIT" /\ Transfer[t] = n
                 /\ \A other \in {"_REG", "_PRE_POST"} : t \in Suffixed(TransferNames, other) <=> other = form

(* The same of the transfers by which subroutines save and return; their stack is *)
(* in memory, and the recursion is no deeper than that.                           *)
ASSUME CallsAssumption ==
  /\ Transfer["STR_SP"] = "STR" /\ Transfer["LDR_SP"] = "LDR"
  /\ \A form \in {"_IMM", "_PRE_POST"} : \A n \in {"LDR", "STR"} :
       "T32_" \o n \o form = CASE n = "LDR" /\ form = "_IMM" -> "T32_LDR_IMM"
                                 [] n = "STR" /\ form = "_IMM" -> "T32_STR_IMM"
                                 [] n = "LDR" /\ form = "_PRE_POST" -> "T32_LDR_PRE_POST"
                                 [] n = "STR" /\ form = "_PRE_POST" -> "T32_STR_PRE_POST"
  /\ StackTop - 32 .. StackTop - 1 \subseteq Ram
  /\ \A s \in Starts(<<"call", "recursive", 0, 0>>) : 8 * s[2] <= 32

ASSUME RamAssumption ==
  /\ Ram \subseteq Word
  /\ \A name \in ModeNames :
       LET first == Mode(name[2], name[3])[2]
       IN  first .. first + Length32(name[2]) - 1 \subseteq Ram
=============================================================================
