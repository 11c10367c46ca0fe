------------------------------- MODULE Execute -------------------------------
(***************************************************************************)
(* Execution of a program: the gate of the IT block and the member         *)
(* functions of cpu/Execute.cpp, one action each, on the registers, the    *)
(* flags, the exclusive monitor and memory (which is flat here: MemoryBus  *)
(* implements it).  Instructions are the records Decode gives; wide is     *)
(* is_32bit.  The word length is a parameter of Alu.                       *)
(*                                                                         *)
(* Exceptions, the special registers and EXC_RETURN values are in CPU.     *)
(***************************************************************************)
EXTENDS Alu

CONSTANTS
    Programs,       \* programs with their name, core, code by address, and end
    Starts(_),      \* name -> the values that R0, R1 and C may start with
    Ram,            \* the addresses of memory a program uses
    StackTop

ASSUME ExecuteAssumption == StackTop \in Word /\ \A p \in Programs : p.core \in AllCores

VARIABLES
    program,
    r,          \* R0 .. R15
    flags,      \* N, Z, C, V and Q
    it,         \* m_it_*
    monitor,    \* m_exclusive_*
    mem,
    start       \* what the program was started with: R0, R1 and C

vars == <<program, r, flags, it, monitor, mem, start>>

SP == 13
LR == 14
PC == 15

NoIt == [cond |-> 0, mask |-> 0, len |-> 0, index |-> 0, holds |-> FALSE]
Open == [on |-> FALSE, address |-> 0, size |-> 0]

(* Each register and byte starts with a value of its own, as far as that goes. *)
InitialRegister(i) == 17 * i
ASSUME InitialAssumption == \A i \in 2 .. 12 : InitialRegister(i) \in Word    \* eight bits at least
InitialMem == [a \in Ram |-> (a + a \div 3) % 2^ByteBits]

Init ==
  /\ program \in Programs
  /\ start \in Starts(program.name)
  /\ r = [i \in 0..15 |-> CASE i = 0 -> start[1] [] i = 1 -> start[2] [] i = SP -> StackTop
                            [] i = PC -> 0 [] OTHER -> InitialRegister(i)]
  /\ flags = [n |-> FALSE, z |-> FALSE, c |-> start[3], v |-> ~start[3], q |-> FALSE]
  /\ mem = InitialMem
  /\ it = NoIt /\ monitor = Open

-----------------------------------------------------------------------------
(* The IT block *)

InItBlock == it.index < it.len

(* Mutant: the letters of the block are read from bit 2 on. *)
CurrentItThenLate == it.index = 0 \/ Bit(it.mask, 3 - it.index) = it.cond % 2

CurrentItThen == it.index = 0 \/ Bit(it.mask, 4 - it.index) = it.cond % 2

(* The instructions of a block, by its mask; 5 and 9 .. 11 are not in the table. *)
ItLength ==
  [mask \in {1, 2, 3, 4, 6, 7, 8, 12, 13, 14, 15} |->
     CASE mask = 8 -> 1 [] mask \in {4, 12} -> 2 [] mask \in {2, 6, 14} -> 3 [] OTHER -> 4]

Advanced == IF it.index + 1 < it.len THEN [it EXCEPT !.index = @ + 1] ELSE NoIt

-----------------------------------------------------------------------------
(* The frame of every handler *)

Ins == program.code[r[PC]]

HandlerOf == [c \in {p.core : p \in Programs} |->
                [t \in UNION {h[2] : h \in CoreHandlers(c)} |-> Handler(c, t)]]

Fetched == r[PC] \in DOMAIN program.code
Done == r[PC] = program.end

Gated == InItBlock /\ Ins.type # "IT"
Skipped == Gated /\ CurrentItThen # it.holds
Runs(handler) == Fetched /\ ~Skipped /\ HandlerOf[program.core][Ins.type] = handler

(* Mutant: every instruction is a halfword. *)
NextPcShort == Low(r[PC] + 2)

NextPc == Low(r[PC] + IF Ins.wide THEN 4 ELSE 2)

(* The handler does not report a new PC: cpu_thread moves it on. *)
Finish(registers) ==
  /\ r' = [registers EXCEPT ![PC] = NextPc]
  /\ it' = IF Gated THEN Advanced ELSE it

(* It does, having closed the IT block. *)
Leave(registers, target) ==
  /\ r' = [registers EXCEPT ![PC] = target]
  /\ it' = NoIt

Write(i, x) == [r EXCEPT ![i] = x]

(* Mutant: the Thumb bit is left in an address. *)
EvenNot(x) == x

Even(x) == x - (x % 2)
Aligned(x) == x - (x % 4)
Has(field) == field \in DOMAIN Ins

(* update_flags *)
Flagged(out) ==
  [flags EXCEPT !.n = Negative(out.result), !.z = out.result = 0, !.c = out.c, !.v = out.v]

CarryIn == IF flags.c THEN 1 ELSE 0

Skip ==
  /\ Fetched /\ Skipped
  /\ Finish(r)
  /\ UNCHANGED <<program, flags, monitor, mem, start>>

-----------------------------------------------------------------------------
(* Branches *)

ExecuteBranch ==
  /\ Runs("execute_branch")
  /\ LET link == Low(NextPc + 1)
         returns == CASE Ins.type = "BLX"    -> Write(LR, link)
                      [] Ins.type = "T32_BL" -> Write(LR, link)
                      [] OTHER             -> r
     IN  IF Ins.type \in {"B_COND", "T32_B_COND"} /\ ~CheckCondition(Ins.cond, flags) THEN Finish(r)
         ELSE Leave(returns, IF Ins.type \in {"BX", "BLX"} THEN Even(r[Ins.rm]) ELSE Low(r[PC] + 4 + Ins.imm))
  /\ UNCHANGED <<program, flags, monitor, mem, start>>

ExecuteCbzCbnz ==
  /\ Runs("execute_cbz_cbnz")
  /\ IF (r[Ins.rn] = 0) = (Ins.type = "CBZ") THEN Leave(r, Low(r[PC] + 4 + Ins.imm)) ELSE Finish(r)
  /\ UNCHANGED <<program, flags, monitor, mem, start>>

ExecuteIt ==
  /\ Runs("execute_it")
  /\ LET length == IF Ins.imm \in DOMAIN ItLength THEN ItLength[Ins.imm] ELSE 0
     IN  it' = [cond |-> Ins.cond, mask |-> Ins.imm, len |-> length, index |-> 0,
                holds |-> CheckCondition(Ins.cond, flags)]
  /\ r' = [r EXCEPT ![PC] = NextPc]
  /\ UNCHANGED <<program, flags, monitor, mem, start>>

-----------------------------------------------------------------------------
(* Data processing *)

Operand1 == IF Has("rn") THEN r[Ins.rn] ELSE r[Ins.rd]
Operand2 == IF Has("imm") THEN Ins.imm ELSE r[Ins.rm]
Amount   == Operand2 % 256

(* Format 1. By an amount of 0 a word is shifted by 32, which C++ leaves undefined. *)
ShiftOutcomes ==
  LET x == r[Ins.rm]
      n == Ins.shift
  IN  CASE Ins.type = "LSL_IMM" -> {ShiftLeft(x, n, FALSE)}
        [] Ins.type = "LSR_IMM" /\ n # 0 -> {ShiftRight(x, n, FALSE)}
        [] Ins.type = "ASR_IMM" /\ n # 0 -> {ShiftRightSigned(x, n, FALSE)}
        [] Ins.type = "LSR_IMM" /\ n = 0 -> {Result(y, Negative(x), FALSE) : y \in {0, x}}
        [] Ins.type = "ASR_IMM" /\ n = 0 ->
             {Result(y, Negative(x), FALSE) : y \in {x, ShiftRightSigned(x, WordBits, FALSE).result}}

(* Format 4 *)
AluOutcome ==
  LET a == Operand1
      b == Operand2
      Is(types) == Ins.type \in types
  IN  CASE Is({"AND", "TST"}) -> Plain(And(a, b))
        [] Is({"EOR"})        -> Plain(Xor(a, b))
        [] Is({"ORR"})        -> Plain(Or(a, b))
        [] Is({"BIC"})        -> Plain(And(a, Not(b)))
        [] Is({"MVN"})        -> Plain(Not(b))
        [] Is({"LSL_REG"})    -> ShiftLeft(a, Amount, FALSE)
        [] Is({"LSR_REG"})    -> ShiftRight(a, Amount, FALSE)
        [] Is({"ASR_REG"})    -> ShiftRightSigned(a, Amount, FALSE)
        [] Is({"ROR"})        -> Rotate(a, Amount, FALSE)
        [] Is({"ADC"})        -> AddCarry(a, b, CarryIn)
        [] Is({"SBC"})        -> SubtractCarry16(a, b, CarryIn)
        [] Is({"NEG"})        -> Subtract(0, b)
        [] Is({"CMP_REG"})    -> Subtract(a, b)
        [] Is({"CMN"})        -> Add(a, b)
        [] Is({"MUL"})        -> Plain(Low(a * b))

(* What a 16-bit operation can yield. *)
Outcomes16 ==
  LET a == Operand1
      b == Operand2
      Is(types) == Ins.type \in types
  IN  CASE Is({"LSL_IMM", "LSR_IMM", "ASR_IMM"}) -> ShiftOutcomes
        [] Is({"MOV_IMM", "MOV_HI"}) -> {Plain(b)}
        [] Is({"ADD_IMM8", "ADD_IMM3", "ADD_REG", "ADD_HI", "ADD_SP", "ADD_SP_IMM7"}) -> {Add(a, b)}
        [] Is({"SUB_IMM8", "SUB_IMM3", "SUB_REG", "SUB_SP_IMM7", "CMP_IMM", "CMP_HI"}) -> {Subtract(a, b)}
        [] Is({"ADD_PC"})     -> {Add(Aligned(Low(r[PC] + 4)), b)}
        [] OTHER -> {AluOutcome}

Silent16   == {"ADD_HI", "MOV_HI", "ADD_PC", "ADD_SP", "ADD_SP_IMM7", "SUB_SP_IMM7"}
Compares16 == {"CMP_IMM", "CMP_REG", "CMP_HI", "CMN", "TST"}

ExecuteDataProcessing ==
  /\ Runs("execute_data_processing")
  /\ \E out \in Outcomes16 :
       /\ Finish(IF Ins.type \in Compares16 THEN r ELSE Write(Ins.rd, out.result))
       /\ flags' = IF Ins.type \in Silent16 THEN flags ELSE Flagged(out)
  /\ UNCHANGED <<program, monitor, mem, start>>

(* A T32 operation by its name without the form of its second operand. *)
Operation32 ==
  [t \in Suffixed(Operations32, "_IMM") \cup Suffixed(Operations32, "_REG") |->
     CHOOSE o \in Operations32 : t \in Suffixed({o}, "_IMM") \cup Suffixed({o}, "_REG")]
  @@ [t \in {"T32_ADDW", "T32_SUBW", "T32_MOVW", "T32_MOVT"} |->
        CASE t = "T32_ADDW" -> "ADD" [] t = "T32_SUBW" -> "SUB" [] t = "T32_MOVW" -> "MOV" [] t = "T32_MOVT" -> "MOVT"]

(* PC is read as the instruction's address and 4. *)
Adjusted(i) == IF i = PC THEN Low(r[PC] + 4) ELSE r[i]

(* An immediate, or a register that is shifted first. *)
Operand32 ==
  IF Has("imm") THEN Low(Ins.imm) ELSE ApplyShift(Adjusted(Ins.rm), Ins.stype, Ins.shift)

Outcome32 ==
  LET a == Adjusted(Ins.rn)
      b == Operand32
      o == Operation32[Ins.type]
  IN  CASE o = "MOV" -> Plain(b)
        [] o = "MVN" -> Plain(Not(b))
        [] o = "MOVT" -> Plain(Half(r[Ins.rd]) + Low(b * 2^HalfBits))
        [] o \in {"ADD", "CMN"} -> Add(a, b)
        [] o \in {"SUB", "CMP"} -> Subtract(a, b)
        [] o = "RSB" -> Subtract(b, a)
        [] o = "ADC" -> AddCarry(a, b, CarryIn)
        [] o = "SBC" -> SubtractCarry32(a, b, CarryIn)
        [] o \in {"AND", "TST"} -> Plain(And(a, b))
        [] o \in {"EOR", "TEQ"} -> Plain(Xor(a, b))
        [] o = "ORR" -> Plain(Or(a, b))
        [] o = "BIC" -> Plain(And(a, Not(b)))
        [] o = "ORN" -> Plain(Or(a, Not(b)))

ExecuteT32DataProcessing ==
  /\ Runs("execute_t32_data_processing")
  /\ LET compares == Operation32[Ins.type] \in {"TST", "TEQ", "CMP", "CMN"}
     IN  /\ Finish(IF compares THEN r ELSE Write(Ins.rd, Outcome32.result))
         /\ flags' = IF compares \/ (Has("s") /\ Ins.s) THEN Flagged(Outcome32) ELSE flags
  /\ UNCHANGED <<program, monitor, mem, start>>

(* The amount is in rn; V is left alone. *)
ExecuteT32ShiftRegister ==
  /\ Runs("execute_t32_shift_register")
  /\ LET n == r[Ins.rn] % 256
         Is(op) == Ins.type \in {"T32_" \o op \o "_REG", "T32_" \o op \o "S_REG"}
         out == CASE Is("LSL") -> ShiftLeft(r[Ins.rm], n, flags.c)
                  [] Is("LSR") -> ShiftRight(r[Ins.rm], n, flags.c)
                  [] Is("ASR") -> ShiftRightSigned(r[Ins.rm], n, flags.c)
                  [] Is("ROR") -> Rotate(r[Ins.rm], n, flags.c)
     IN  /\ Finish(Write(Ins.rd, out.result))
         /\ flags' = IF Ins.s THEN Flagged([out EXCEPT !.v = flags.v]) ELSE flags
  /\ UNCHANGED <<program, monitor, mem, start>>

(* A handler that writes one register and nothing else. *)
Computes(handler, x) ==
  /\ Runs(handler)
  /\ Finish(Write(Ins.rd, x))
  /\ UNCHANGED <<program, flags, monitor, mem, start>>

(* The 16-bit forms read rm, the others rn. *)
ExecuteExtend ==
  LET name == IF Ins.type = "EXTEND" THEN <<"T32_SXTH", "T32_SXTB", "T32_UXTH", "T32_UXTB">>[Ins.alu + 1] ELSE Ins.type
      x == IF Ins.type = "EXTEND" THEN r[Ins.rm] ELSE r[Ins.rn]
  IN  Computes("execute_extend", CASE name = "T32_SXTH" -> Extended(x, HalfBits)
                                   [] name = "T32_SXTB" -> Extended(x, ByteBits)
                                   [] name = "T32_UXTH" -> Half(x)
                                   [] name = "T32_UXTB" -> ByteOf(x, 0))

ExecuteRev             == Computes("execute_rev", Rearranged(Ins.type, r[Ins.rm]))
ExecuteBitManipulation == Computes("execute_bit_manipulation", Rearranged(Ins.type, r[Ins.rm]))
ExecuteBitfield        == Computes("execute_bitfield", FieldOf(Ins.type, Ins.imm, r[Ins.rn], r[Ins.rd]))
ExecuteMul             == Computes("execute_mul", Low(r[Ins.rn] * r[Ins.rm]))
ExecuteMla             == Computes("execute_mla", Low(r[Ins.rs] + r[Ins.rn] * r[Ins.rm]))
ExecuteMls             == Computes("execute_mls", Low(r[Ins.rs] - r[Ins.rn] * r[Ins.rm]))

(* The most negative value divided by -1 traps in the simulator's own division. *)
ExecuteDivide ==
  /\ Computes("execute_divide", Divide(Ins.type, r[Ins.rn], r[Ins.rm]))
  /\ Ins.type = "T32_SDIV" => ~(r[Ins.rn] = 2^(WordBits - 1) /\ r[Ins.rm] = 2^WordBits - 1)

ExecuteLongMultiply ==
  /\ Runs("execute_long_multiply")
  /\ LET x == LongMultiply(Ins.type, r[Ins.rn], r[Ins.rm], r[Ins.rs], r[Ins.rd])
     IN  Finish([r EXCEPT ![Ins.rd] = Low(x), ![Ins.rs] = x \div 2^WordBits])
  /\ UNCHANGED <<program, flags, monitor, mem, start>>

(* Q is set and never cleared. *)
Saturates(handler, out) ==
  /\ Runs(handler)
  /\ Finish(Write(Ins.rd, out.result))
  /\ flags' = [flags EXCEPT !.q = @ \/ out.q]
  /\ UNCHANGED <<program, monitor, mem, start>>

ExecuteSaturate == Saturates("execute_saturate", SaturateTo(Ins.type, Ins.imm, r[Ins.rn]))

(* Types that are not of its own reach it too, and it does nothing for them. *)
ExecuteParallelAddSub ==
  \/ Fetched /\ Ins.type \in ParallelTypes
     /\ Saturates("execute_parallel_addsub", ParallelAddSub(Ins.type, r[Ins.rn], r[Ins.rm]))
  \/ Fetched /\ Ins.type \notin ParallelTypes
     /\ Saturates("execute_parallel_addsub", [result |-> r[Ins.rd], q |-> FALSE])

-----------------------------------------------------------------------------
(* Loads and stores *)

Load(a, n) ==
  LET byte(i) == IF i < n THEN mem[Low(a + i)] * 2^(ByteBits * i) ELSE 0
  IN  byte(0) + byte(1) + byte(2) + byte(3)
Store(m, a, x, n) == [y \in Ram |-> IF Low(y - a) < n THEN ByteOf(x, Low(y - a)) ELSE m[y]]

TransferNames == {"LDR", "LDRB", "LDRH", "LDRSB", "LDRSH", "STR", "STRB", "STRH"}
Transfer ==
  [t \in LoadStoreTypes \cup LoadStore32Types |->
     CHOOSE n \in TransferNames : \E p \in {"", "T32_"}, s \in {"_IMM", "_REG", "_SP", "_PC", "_PRE_POST", "_LIT", "T"} : t = p \o n \o s]

Loads == Transfer[Ins.type] \in {"LDR", "LDRB", "LDRH", "LDRSB", "LDRSH"}
Size  == CASE Transfer[Ins.type] \in {"LDRB", "LDRSB", "STRB"} -> 1
           [] Transfer[Ins.type] \in {"LDRH", "LDRSH", "STRH"} -> 2
           [] OTHER -> 4
Loaded(a) == IF Transfer[Ins.type] \in {"LDRSB", "LDRSH"} THEN Extended(Load(a, Size), ByteBits * Size) ELSE Load(a, Size)

Offset == IF Has("neg") /\ Ins.neg THEN -Ins.imm ELSE Ins.imm

ExecuteLoadStore ==
  /\ Runs("execute_load_store")
  /\ LET a == IF Ins.rn = PC THEN Aligned(Low(r[PC] + 4)) + Ins.imm ELSE Low(r[Ins.rn] + Operand2)
     IN  /\ Finish(IF Loads THEN Write(Ins.rd, Loaded(a)) ELSE r)
         /\ mem' = IF Loads THEN mem ELSE Store(mem, a, r[Ins.rd], Size)
  /\ UNCHANGED <<program, flags, monitor, start>>

PrePost == Ins.type \in Suffixed(TransferNames, "_PRE_POST")

Address32 ==
  CASE Ins.type = "T32_LDR_LIT" -> Low(Aligned(Low(r[PC] + 4)) + Offset)
    [] Ins.type \in Suffixed(TransferNames, "_REG") -> Low(r[Ins.rn] + r[Ins.rm] * 2^Ins.shift)
    [] PrePost /\ ~Ins.pre -> r[Ins.rn]
    [] OTHER -> Low(r[Ins.rn] + Offset)

(* Mutant: write-back reads the base after the access but forgets the post-index offset. *)
WriteBackPre(registers) ==
  IF PrePost /\ Ins.wb THEN [registers EXCEPT ![Ins.rn] = Address32] ELSE registers

(* The base is written after the register that was loaded. *)
WriteBack(registers) ==
  IF PrePost /\ Ins.wb
  THEN [registers EXCEPT ![Ins.rn] = IF Ins.pre THEN Address32 ELSE Low(@ + Offset)]
  ELSE registers

(* A load of PC goes on from there, with the IT block left as it is. *)
ExecuteT32LoadStore ==
  /\ Runs("execute_t32_load_store")
  /\ LET a == Address32
         data == IF Ins.rd = PC THEN Even(Loaded(a)) ELSE Loaded(a)
         after == WriteBack(IF Loads THEN Write(Ins.rd, data) ELSE r)
     IN  /\ IF Ins.rd = PC THEN r' = after /\ it' = IF Gated THEN Advanced ELSE it
                           ELSE Finish(after)
         /\ mem' = IF Loads THEN mem ELSE Store(mem, a, r[Ins.rd], Size)
  /\ UNCHANGED <<program, flags, monitor, start>>

(* LDRD and STRD: there is no write-back after a post-indexed access. *)
ExecuteT32DualLoadStore ==
  /\ Runs("execute_t32_dual_load_store")
  /\ LET base == IF Ins.rn = PC THEN Low(Aligned(r[PC]) + 4) ELSE r[Ins.rn]
         a == IF Ins.pre THEN Low(base + Offset) ELSE base
         both == IF Ins.type = "T32_LDRD" THEN [r EXCEPT ![Ins.rd] = Load(a, 4), ![Ins.rm] = Load(Low(a + 4), 4)] ELSE r
     IN  /\ Finish(IF Ins.pre /\ Ins.wb THEN [both EXCEPT ![Ins.rn] = a] ELSE both)
         /\ mem' = IF Ins.type = "T32_LDRD" THEN mem
                   ELSE Store(Store(mem, a, r[Ins.rd], 4), Low(a + 4), r[Ins.rm], 4)
  /\ UNCHANGED <<program, flags, monitor, start>>

-----------------------------------------------------------------------------
(* Several registers: the lower register is at the lower address. *)

Slot(list, base, i) == Low(base + 4 * Cardinality({j \in list : j < i}))
Beyond(list, base)  == Low(base + 4 * Cardinality(list))
LoadAll(list, base) == [i \in 0..15 |-> IF i \in list THEN Load(Slot(list, base, i), 4) ELSE r[i]]
StoreAll(list, base) ==
  [y \in Ram |-> LET hit == {i \in list : Low(y - Slot(list, base, i)) < 4}
                 IN  IF hit = {} THEN mem[y]
                     ELSE LET i == CHOOSE i \in hit : TRUE IN ByteOf(r[i], Low(y - Slot(list, base, i)))]

(* Mutant: POP of PC leaves before SP is updated. *)
PopKeepsSp(list) ==
  LET regs == LoadAll(list, r[SP])
  IN  IF PC \in list THEN Leave(regs, Even(regs[PC])) ELSE Finish([regs EXCEPT ![SP] = Beyond(list, r[SP])])

Pop(list) ==
  LET regs == [LoadAll(list, r[SP]) EXCEPT ![SP] = Beyond(list, r[SP])]
  IN  IF PC \in list THEN Leave(regs, Even(regs[PC])) ELSE Finish(regs)

(* STMIA, like LDMIA, writes no base that is in its list. *)
ExecuteLoadStoreMultiple ==
  /\ Runs("execute_load_store_multiple")
  /\ LET list == Ins.list
         base == r[Ins.rn]
         below == Low(base - 4 * Cardinality(list))
         Based(regs) == IF Ins.rn \in list THEN regs ELSE [regs EXCEPT ![Ins.rn] = Beyond(list, base)]
     IN  \/ Ins.type = "POP"   /\ Pop(list) /\ mem' = mem
         \/ Ins.type = "PUSH"  /\ Finish(Write(SP, below)) /\ mem' = StoreAll(list, below)
         \/ Ins.type = "LDMIA" /\ Finish(Based(LoadAll(list, base))) /\ mem' = mem
         \/ Ins.type = "STMIA" /\ Finish(Based(r)) /\ mem' = StoreAll(list, base)
  /\ UNCHANGED <<program, flags, monitor, start>>

(* The base is always written, after the registers. A return through LDMDB SP counts up. *)
ExecuteT32MultipleLoadStore ==
  /\ Runs("execute_t32_multiple_load_store")
  /\ LET list == Ins.list
         down == Ins.type \in {"T32_LDMDB", "T32_STMDB"} /\ ~(Ins.type = "T32_LDMDB" /\ Ins.rn = SP /\ PC \in list)
         first == IF down THEN Low(r[Ins.rn] - 4 * Cardinality(list)) ELSE r[Ins.rn]
         loads == Ins.type \in {"T32_LDMIA", "T32_LDMDB"}
         after == [IF loads THEN LoadAll(list, first) ELSE r EXCEPT ![Ins.rn] = IF down THEN first ELSE Beyond(list, first)]
     IN  /\ IF loads /\ PC \in list THEN Leave(after, Even(after[PC])) ELSE Finish(after)
         /\ mem' = IF loads THEN mem ELSE StoreAll(list, first)
  /\ UNCHANGED <<program, flags, monitor, start>>

ExecuteTableBranch ==
  /\ Runs("execute_table_branch")
  /\ LET entry == IF Ins.type = "T32_TBB" THEN Load(Low(r[Ins.rn] + r[Ins.rm]), 1)
                                         ELSE Load(Low(r[Ins.rn] + 2 * r[Ins.rm]), 2)
     IN  Leave(r, Low(r[PC] + 4 + 2 * entry))
  /\ UNCHANGED <<program, flags, monitor, mem, start>>

-----------------------------------------------------------------------------
(* Exclusive access *)

ExclusiveSize == CASE Ins.type \in {"T32_LDREXB", "T32_STREXB"} -> 1
                   [] Ins.type \in {"T32_LDREXH", "T32_STREXH"} -> 2
                   [] OTHER -> 4
ExclusiveAddress == Low(r[Ins.rn] + IF ExclusiveSize = 4 THEN Ins.imm ELSE 0)

ExecuteExclusiveLoad ==
  /\ Runs("execute_exclusive_load")
  /\ Finish(Write(Ins.rd, Load(ExclusiveAddress, ExclusiveSize)))
  /\ monitor' = [on |-> TRUE, address |-> ExclusiveAddress, size |-> ExclusiveSize]
  /\ UNCHANGED <<program, flags, mem, start>>

(* Mutant: the size of the access is not compared. *)
MonitorHoldsAnySize == monitor.on /\ monitor.address = ExclusiveAddress

MonitorHolds == monitor = [on |-> TRUE, address |-> ExclusiveAddress, size |-> ExclusiveSize]

ExecuteExclusiveStore ==
  /\ Runs("execute_exclusive_store")
  /\ Finish(Write(Ins.rd, IF MonitorHolds THEN 0 ELSE 1))
  /\ mem' = IF MonitorHolds THEN Store(mem, ExclusiveAddress, r[Ins.rm], ExclusiveSize) ELSE mem
  /\ monitor' = Open
  /\ UNCHANGED <<program, flags, start>>

ExecuteClrex ==
  /\ Runs("execute_clrex")
  /\ Finish(r)
  /\ monitor' = Open
  /\ UNCHANGED <<program, flags, mem, start>>

(* Hints only wait. *)
ExecuteHint ==
  /\ Runs("execute_extended_hint") \/ Runs("no operation")
  /\ Finish(r)
  /\ UNCHANGED <<program, flags, monitor, mem, start>>

-----------------------------------------------------------------------------
Next ==
  \/ Skip
  \/ ExecuteBranch \/ ExecuteCbzCbnz \/ ExecuteIt \/ ExecuteTableBranch
  \/ ExecuteDataProcessing \/ ExecuteT32DataProcessing \/ ExecuteT32ShiftRegister
  \/ ExecuteExtend \/ ExecuteRev \/ ExecuteBitManipulation \/ ExecuteBitfield
  \/ ExecuteMul \/ ExecuteMla \/ ExecuteMls \/ ExecuteDivide \/ ExecuteLongMultiply
  \/ ExecuteSaturate \/ ExecuteParallelAddSub
  \/ ExecuteLoadStore \/ ExecuteT32LoadStore \/ ExecuteT32DualLoadStore
  \/ ExecuteLoadStoreMultiple \/ ExecuteT32MultipleLoadStore
  \/ ExecuteExclusiveLoad \/ ExecuteExclusiveStore \/ ExecuteClrex
  \/ ExecuteHint

Spec == Init /\ [][Next]_vars /\ WF_vars(Next)

(* Registers and memory hold values of their width; PC is even and never leaves the code. *)
TypeOK ==
  /\ r \in [0..15 -> Word] /\ r[PC] % 2 = 0 /\ (Fetched \/ Done)
  /\ mem \in [Ram -> 0 .. 2^ByteBits - 1]
  /\ flags \in [n : BOOLEAN, z : BOOLEAN, c : BOOLEAN, v : BOOLEAN, q : BOOLEAN]
  /\ it.len \in 0..4 /\ it.index \in 0..3 /\ (InItBlock \/ it.index = 0)
  /\ monitor.size \in {0, 1, 2, 4} /\ monitor.on = (monitor.size # 0)
=============================================================================
