---------------------------- MODULE PipelineProofs ----------------------------
(***************************************************************************)
(* Proofs about Pipeline, for every program and every set of cores: what a *)
(* core takes for an instruction, every later one decodes alike; and every *)
(* instruction is fetched from where it starts, whatever ran before it.    *)
(***************************************************************************)
EXTENDS Pipeline, WellFoundedInduction, TLAPS

(* What core c has, core d has too. *)
UpTo(c, d) ==
  /\ SupportsV7(c) => SupportsV7(d)
  /\ SupportsV7E(c) => SupportsV7E(d)

(* Where core c sees an instruction, core d sees the same. *)
Agree(x, y) == x = Unknown \/ x = y

-----------------------------------------------------------------------------
(* 16-bit instructions *)

LEMMA HighRegisterAgrees ==
  ASSUME NEW c, NEW d, UpTo(c, d), NEW hw
  PROVE  Agree(HighRegister(c, hw), HighRegister(d, hw))
  BY DEF UpTo, Agree, HighRegister

LEMMA HintAgrees ==
  ASSUME NEW c, NEW d, UpTo(c, d), NEW hw
  PROVE  Agree(Hint(c, hw), Hint(d, hw))
  BY DEF UpTo, Agree, Hint

LEMMA MiscellaneousAgrees ==
  ASSUME NEW c, NEW d, NEW hw, Bits(hw, 15, 12) = 11, ~CompareBranchSpace(hw)
  PROVE  Miscellaneous16(c, hw) = Miscellaneous16(d, hw)
  BY DEF CompareBranchSpace, IsCompareBranch, Miscellaneous16

LEMMA Decode16Agrees ==
  ASSUME NEW c, NEW d, UpTo(c, d), NEW hw, ~CompareBranchSpace(hw)
  PROVE  Agree(Decode16(c, hw), Decode16(d, hw))
  BY HighRegisterAgrees, HintAgrees, MiscellaneousAgrees DEF Agree, Decode16

-----------------------------------------------------------------------------
(* 32-bit instructions *)

LEMMA ShiftedRegisterAgrees ==
  ASSUME NEW c, NEW d, UpTo(c, d), NEW a, NEW b
  PROVE  Agree(ShiftedRegister(c, a, b), ShiftedRegister(d, a, b))
<1>1. Bits(a, 8, 5) = 6 => DataOperation(Bits(a, 8, 5), Rn(a)) = "NONE"
  BY DEF DataOperation
<1> QED BY <1>1 DEF UpTo, Agree, ShiftedRegister

LEMMA PlainImmediateAgrees ==
  ASSUME NEW c, NEW d, UpTo(c, d), NEW a, NEW b
  PROVE  Agree(PlainImmediate(c, a, b), PlainImmediate(d, a, b))
  BY DEF UpTo, Agree, PlainImmediate

(* CLREX is no barrier to a core without it. *)
LEMMA BarrierAgrees ==
  ASSUME NEW c, NEW d, UpTo(c, d), NEW a, NEW b
  PROVE  Agree(BarrierOrClrex(c, a, b), BarrierOrClrex(d, a, b))
<1>1. b = 36655 => Bits(b, 7, 4) = 2
  BY DEF Bits
<1>2. 2 \notin {4, 5, 6}
  OBVIOUS
<1> QED BY <1>1, <1>2 DEF UpTo, Agree, BarrierOrClrex

(* No conditional branch has the code of MSR, MRS or a barrier. *)
LEMMA MiscellaneousControlAgrees ==
  ASSUME NEW c, NEW d, UpTo(c, d), NEW a, NEW b
  PROVE  Agree(MiscellaneousControl(c, a, b), MiscellaneousControl(d, a, b))
<1>1. \A op \in {56, 57, 58, 59, 62, 63} : Bits(op, 5, 3) = 7
  BY DEF Bits
<1>2. 58 \notin {56, 57} /\ 59 \notin {56, 57} /\ 59 # 58 /\ 62 \notin {56, 57} /\ 63 \notin {56, 57}
      /\ 62 # 58 /\ 63 # 58 /\ 62 # 59 /\ 63 # 59
  OBVIOUS
<1> QED BY <1>1, <1>2, BarrierAgrees DEF UpTo, Agree, MiscellaneousControl

LEMMA BranchesAgree ==
  ASSUME NEW c, NEW d, UpTo(c, d), NEW a, NEW b
  PROVE  Agree(BranchesAndControl(c, a, b), BranchesAndControl(d, a, b))
  BY MiscellaneousControlAgrees DEF UpTo, Agree, BranchesAndControl

LEMMA DataRegisterAgrees ==
  ASSUME NEW c, NEW d, UpTo(c, d), NEW a, NEW b
  PROVE  Agree(DataRegister(c, a, b), DataRegister(d, a, b))
  BY DEF UpTo, Agree, DataRegister, ShiftOrExtend, ParallelOrBits

LEMMA MultiplyAgrees ==
  ASSUME NEW c, NEW d, UpTo(c, d), NEW a, NEW b
  PROVE  /\ Agree(MultiplyAccumulate(c, a, b), MultiplyAccumulate(d, a, b))
         /\ Agree(LongMultiplyDivide(c, a, b), LongMultiplyDivide(d, a, b))
<1>1. Agree(MultiplyAccumulate(c, a, b), MultiplyAccumulate(d, a, b))
  BY DEF UpTo, Agree, MultiplyAccumulate
<1>2. Agree(LongMultiplyDivide(c, a, b), LongMultiplyDivide(d, a, b))
  BY DEF UpTo, Agree, LongMultiplyDivide
<1> QED BY <1>1, <1>2

LEMMA SingleAgrees ==
  ASSUME NEW c, NEW d, UpTo(c, d), NEW a, NEW b
  PROVE  Agree(SingleRegisterMultiply(c, a, b), SingleRegisterMultiply(d, a, b))
  BY DataRegisterAgrees, MultiplyAgrees DEF Agree, SingleRegisterMultiply

LEMMA Decode32Agrees ==
  ASSUME NEW c, NEW d, UpTo(c, d), NEW a, NEW b
  PROVE  Agree(Decode32(c, a, b), Decode32(d, a, b))
  BY ShiftedRegisterAgrees, PlainImmediateAgrees, BranchesAgree, SingleAgrees
     DEF UpTo, Agree, Decode32

-----------------------------------------------------------------------------
(* What decode makes of any halfword has a handler, or is one of the types that *)
(* no core has a handler for.                                                   *)

(* The core has a handler for the type, or none has. *)
Handled(c, type) == \E h \in CoreHandlers(c) : type \in h[2]
Known(c, type) == Handled(c, type) \/ type \in Ignored

LEMMA HandledBy ==
  ASSUME NEW c, NEW name, NEW types, <<name, types>> \in CoreHandlers(c), NEW t \in types
  PROVE  Handled(c, t)
<1>1. <<name, types>>[2] = types
  OBVIOUS
<1> QED BY <1>1 DEF Handled

LEMMA BranchesHandled ==
  ASSUME NEW c
  PROVE  /\ \A t \in BranchTypes : Handled(c, t)
         /\ SupportsV7(c) => Handled(c, "BLX")
<1> DEFINE types == BranchTypes \cup IF SupportsV7(c) THEN {"BLX"} ELSE {}
<1>1. <<"execute_branch", types>> \in CoreHandlers(c)
  BY Zenon DEF CoreHandlers
<1>2. (\A t \in BranchTypes : t \in types) /\ (SupportsV7(c) => "BLX" \in types)
  OBVIOUS
<1> HIDE DEF types
<1> QED BY <1>1, <1>2, HandledBy

LEMMA V6Handled ==
  ASSUME NEW c
  PROVE  /\ \A t \in DataProcessingTypes \cup LoadStoreTypes \cup BranchTypes : Handled(c, t)
         /\ \A t \in {"EXTEND", "REV", "REV16", "REVSH", "CPS", "STMIA", "LDMIA", "PUSH", "POP", "BKPT", "SVC",
                      "T32_DSB", "T32_DMB", "T32_ISB", "T32_MSR", "T32_MRS"} : Handled(c, t)
<1>1. \A h \in V6Handlers : \A t \in h[2] : Handled(c, t)
  BY DEF Handled, CoreHandlers
<1>2. \A t \in BranchTypes : Handled(c, t)
  BY BranchesHandled
<1>3. \A t \in DataProcessingTypes \cup LoadStoreTypes : Handled(c, t)
  <2>1. /\ <<"execute_data_processing", DataProcessingTypes>> \in V6Handlers
        /\ <<"execute_load_store", LoadStoreTypes>> \in V6Handlers
    BY DEF V6Handlers
  <2> QED BY <1>1, <2>1
<1>4. \A t \in {"EXTEND", "REV", "REV16", "REVSH", "CPS", "STMIA", "LDMIA", "PUSH", "POP", "BKPT", "SVC",
                "T32_DSB", "T32_DMB", "T32_ISB", "T32_MSR", "T32_MRS"} : Handled(c, t)
  BY <1>1 DEF V6Handlers
<1> QED BY <1>2, <1>3, <1>4

LEMMA V7Handled ==
  ASSUME NEW c, SupportsV7(c)
  PROVE  /\ \A t \in {"BLX", "CBZ", "CBNZ", "IT", "NOP", "WFI", "WFE", "SEV", "YIELD", "T32_TBB", "T32_TBH", "T32_NOP",
                      "T32_CLREX", "T32_LDRD", "T32_STRD", "T32_LDMIA", "T32_LDMDB", "T32_STMIA", "T32_STMDB",
                      "T32_LDREX", "T32_LDREXB", "T32_LDREXH", "T32_STREX", "T32_STREXB", "T32_STREXH"} : Handled(c, t)
         /\ \A t \in {"T32_UDIV", "T32_SDIV", "T32_MUL", "T32_MLA", "T32_MLS", "T32_UMULL", "T32_SMULL", "T32_UMLAL",
                      "T32_SMLAL", "T32_BFI", "T32_BFC", "T32_UBFX", "T32_SBFX", "T32_SXTH", "T32_SXTB", "T32_UXTH",
                      "T32_UXTB", "T32_SSAT", "T32_USAT", "T32_CLZ", "T32_RBIT", "T32_REV", "T32_REV16", "T32_REVSH"} :
              Handled(c, t)
         /\ \A t \in LoadStore32Types \cup ImmediateTypes \cup RegisterTypes : Handled(c, t)
         /\ \A n \in {"LSL", "LSR", "ASR", "ROR"} : \A form \in {"_REG", "S_REG"} : Handled(c, "T32_" \o n \o form)
         /\ SupportsV7E(c) => \A t \in ParallelTypes : Handled(c, t)
<1>1. \A h \in V7Handlers : \A t \in h[2] : Handled(c, t)
  BY DEF Handled, CoreHandlers
<1>2. \A t \in {"BLX", "CBZ", "CBNZ", "IT", "NOP", "WFI", "WFE", "SEV", "YIELD", "T32_TBB", "T32_TBH", "T32_NOP",
                "T32_CLREX", "T32_LDRD", "T32_STRD", "T32_LDMIA", "T32_LDMDB", "T32_STMIA", "T32_STMDB",
                "T32_LDREX", "T32_LDREXB", "T32_LDREXH", "T32_STREX", "T32_STREXB", "T32_STREXH"} : Handled(c, t)
  <2>1. Handled(c, "BLX")
    BY BranchesHandled
  <2> QED BY <1>1, <2>1 DEF V7Handlers
<1>3. \A t \in {"T32_UDIV", "T32_SDIV", "T32_MUL", "T32_MLA", "T32_MLS", "T32_UMULL", "T32_SMULL", "T32_UMLAL",
                "T32_SMLAL", "T32_BFI", "T32_BFC", "T32_UBFX", "T32_SBFX", "T32_SXTH", "T32_SXTB", "T32_UXTH",
                "T32_UXTB", "T32_SSAT", "T32_USAT", "T32_CLZ", "T32_RBIT", "T32_REV", "T32_REV16", "T32_REVSH"} :
        Handled(c, t)
  BY <1>1 DEF V7Handlers
<1>4. \A t \in LoadStore32Types : Handled(c, t)
  <2>1. <<"execute_t32_load_store", LoadStore32Types>> \in V7Handlers
    BY DEF V7Handlers
  <2> QED BY <1>1, <2>1
<1>5. \A t \in ImmediateTypes \cup RegisterTypes : Handled(c, t)
  <2>1. CASE SupportsV7E(c)
    <3>1. /\ <<"execute_t32_data_processing", ImmediateTypes>> \in CoreHandlers(c)
          /\ <<"execute_parallel_addsub", RegisterTypes \cup ParallelTypes>> \in CoreHandlers(c)
      BY <2>1, Zenon DEF CoreHandlers
    <3> QED BY <3>1, HandledBy
  <2>2. CASE ~SupportsV7E(c)
    <3>1. <<"execute_t32_data_processing", ImmediateTypes \cup RegisterTypes>> \in CoreHandlers(c)
      BY <2>2, Zenon DEF CoreHandlers
    <3> QED BY <3>1, HandledBy
  <2> QED BY <2>1, <2>2
<1>6. ASSUME NEW n \in {"LSL", "LSR", "ASR", "ROR"}, NEW form \in {"_REG", "S_REG"}
      PROVE  Handled(c, "T32_" \o n \o form)
  <2> DEFINE S == Suffixed({"LSL", "LSR", "ASR", "ROR"}, "_REG") \cup Suffixed({"LSL", "LSR", "ASR", "ROR"}, "S_REG")
  <2>1. <<"execute_t32_shift_register", S>> \in V7Handlers
    BY DEF V7Handlers
  <2>2. "T32_" \o n \o form \in S
    BY DEF Suffixed
  <2> HIDE DEF S
  <2> QED BY <1>1, <2>1, <2>2
<1>7. ASSUME SupportsV7E(c) PROVE \A t \in ParallelTypes : Handled(c, t)
  <2>1. <<"execute_parallel_addsub", RegisterTypes \cup ParallelTypes>> \in CoreHandlers(c)
    BY <1>7, Zenon DEF CoreHandlers
  <2> QED BY <2>1, HandledBy
<1> QED BY <1>2, <1>3, <1>4, <1>5, <1>6, <1>7

LEMMA BitsAre ==
  ASSUME NEW w \in Nat
  PROVE  /\ \A n \in {0, 4, 5, 6, 7, 8, 9, 10, 11, 12, 14, 15} : Bit(w, n) \in 0 .. 1
         /\ Bits(w, 12, 11) \in 0 .. 3 /\ Bits(w, 9, 6) \in 0 .. 15 /\ Bits(w, 9, 8) \in 0 .. 3
         /\ Bits(w, 11, 9) \in 0 .. 7 /\ Bits(w, 7, 6) \in 0 .. 3 /\ Bits(w, 7, 4) \in 0 .. 15
<1>1. \A n \in {0, 4, 5, 6, 7, 8, 9, 10, 11, 12, 14, 15} : Bit(w, n) \in 0 .. 1
  BY DEF Bit, Bits
<1> QED BY <1>1 DEF Bits

-----------------------------------------------------------------------------
(* 16-bit instructions *)

LEMMA TablesHandled ==
  ASSUME NEW c, NEW hw \in Nat
  PROVE  /\ Handled(c, AluOperation(hw).type)
         /\ Handled(c, LoadStoreRegister(hw).type)
<1>1. AluTable[Bits(hw, 9, 6) + 1] \in DataProcessingTypes
  <2>1. Bits(hw, 9, 6) + 1 \in DOMAIN AluTable
    BY BitsAre DEF AluTable
  <2> QED BY <2>1, Zenon DEF DataProcessingTypes
<1>2. LoadStoreTable[Bits(hw, 11, 9) + 1] \in LoadStoreTypes
  <2>1. Bits(hw, 11, 9) + 1 \in DOMAIN LoadStoreTable
    BY BitsAre DEF LoadStoreTable
  <2> QED BY <2>1, Zenon DEF LoadStoreTypes
<1>3. AluOperation(hw).type \in DataProcessingTypes
  BY <1>1 DEF AluOperation
<1>4. LoadStoreRegister(hw).type \in LoadStoreTypes
  BY <1>2 DEF LoadStoreRegister
<1> QED BY <1>3, <1>4, V6Handled

LEMMA DataProcessing16Handled ==
  ASSUME NEW c, NEW hw \in Nat
  PROVE  /\ Bits(hw, 12, 11) # 3 => Handled(c, ShiftImmediate(hw).type)
         /\ Handled(c, AddSubtract(hw).type)
         /\ Handled(c, Immediate8(hw).type)
         /\ Handled(c, LoadAddress(hw).type)
         /\ Handled(c, AddSubtractSp(hw).type)
<1>1. Bits(hw, 12, 11) # 3 => ShiftImmediate(hw).type \in {"LSL_IMM", "LSR_IMM", "ASR_IMM"}
  BY BitsAre DEF ShiftImmediate
<1>2. AddSubtract(hw).type \in {"SUB_IMM3", "ADD_IMM3", "SUB_REG", "ADD_REG"}
  BY DEF AddSubtract
<1>3. Immediate8(hw).type \in {"MOV_IMM", "CMP_IMM", "ADD_IMM8", "SUB_IMM8"}
  BY BitsAre DEF Immediate8
<1>4. LoadAddress(hw).type \in {"ADD_SP", "ADD_PC"} /\ AddSubtractSp(hw).type \in {"SUB_SP_IMM7", "ADD_SP_IMM7"}
  BY DEF LoadAddress, AddSubtractSp
<1>5. {"LSL_IMM", "LSR_IMM", "ASR_IMM", "SUB_IMM3", "ADD_IMM3", "SUB_REG", "ADD_REG", "MOV_IMM", "CMP_IMM", "ADD_IMM8",
       "SUB_IMM8", "ADD_SP", "ADD_PC", "SUB_SP_IMM7", "ADD_SP_IMM7"} \subseteq DataProcessingTypes
  BY DEF DataProcessingTypes
<1>6. \A t \in DataProcessingTypes : Handled(c, t)
  BY V6Handled
<1> QED BY <1>1, <1>2, <1>3, <1>4, <1>5, <1>6

LEMMA LoadStore16Handled ==
  ASSUME NEW c, NEW hw \in Nat
  PROVE  /\ Handled(c, LoadLiteral(hw).type)
         /\ Handled(c, LoadStoreImmediate(hw).type)
         /\ Handled(c, StackRelative(hw).type)
<1>1. LoadStoreImmediate(hw).type \in {"LDR_IMM", "LDRB_IMM", "LDRH_IMM", "STR_IMM", "STRB_IMM", "STRH_IMM"}
  <2>1. \A load \in BOOLEAN : \A size \in {"H", "B", ""} :
          (CASE load /\ size = ""   -> "LDR_IMM"
             [] load /\ size = "B"  -> "LDRB_IMM"
             [] load /\ size = "H"  -> "LDRH_IMM"
             [] ~load /\ size = ""  -> "STR_IMM"
             [] ~load /\ size = "B" -> "STRB_IMM"
             [] ~load /\ size = "H" -> "STRH_IMM") \in
             {"LDR_IMM", "LDRB_IMM", "LDRH_IMM", "STR_IMM", "STRB_IMM", "STRH_IMM"}
    BY Zenon
  <2> QED BY <2>1, Zenon DEF LoadStoreImmediate
<1>2. LoadLiteral(hw).type = "LDR_PC" /\ StackRelative(hw).type \in {"LDR_SP", "STR_SP"}
  BY DEF LoadLiteral, StackRelative
<1>3. {"LDR_IMM", "LDRB_IMM", "LDRH_IMM", "STR_IMM", "STRB_IMM", "STRH_IMM", "LDR_PC", "LDR_SP", "STR_SP"} \subseteq LoadStoreTypes
  BY DEF LoadStoreTypes
<1>4. \A t \in LoadStoreTypes : Handled(c, t)
  BY V6Handled
<1> QED BY <1>1, <1>2, <1>3, <1>4

LEMMA Branches16Handled ==
  ASSUME NEW c, NEW hw \in Nat
  PROVE  /\ Known(c, HighRegister(c, hw).type)
         /\ Handled(c, ConditionalBranch(hw).type)
         /\ Known(c, Hint(c, hw).type)
         /\ Known(c, Unknown.type)
<1>1. {"UNKNOWN", "UNDEFINED"} \subseteq Ignored
  BY DEF Ignored
<1>2. Known(c, Unknown.type)
  BY <1>1 DEF Known, Unknown
<1>3. Known(c, HighRegister(c, hw).type)
  <2>1. \/ HighRegister(c, hw) = Unknown
        \/ HighRegister(c, hw).type \in {"ADD_HI", "CMP_HI", "MOV_HI", "BX"}
        \/ HighRegister(c, hw).type = "BLX" /\ SupportsV7(c)
    BY BitsAre DEF HighRegister
  <2>2. {"ADD_HI", "CMP_HI", "MOV_HI"} \subseteq DataProcessingTypes /\ "BX" \in BranchTypes
    BY DEF DataProcessingTypes, BranchTypes
  <2> QED BY <1>2, <2>1, <2>2, V6Handled, BranchesHandled DEF Known
<1>4. Handled(c, ConditionalBranch(hw).type)
  <2>1. ConditionalBranch(hw).type \in {"SVC", "B_COND"}
    BY DEF ConditionalBranch
  <2>2. "B_COND" \in BranchTypes
    BY DEF BranchTypes
  <2> QED BY <2>1, <2>2, V6Handled
<1>5. Known(c, Hint(c, hw).type)
  <2>1. \/ Hint(c, hw) = Unknown \/ Hint(c, hw).type = "UNDEFINED"
        \/ Hint(c, hw).type \in {"IT", "NOP", "YIELD", "WFE", "WFI", "SEV"} /\ SupportsV7(c)
    BY BitsAre DEF Hint
  <2> QED BY <1>1, <1>2, <2>1, V7Handled DEF Known
<1> QED BY <1>2, <1>3, <1>4, <1>5

LEMMA Miscellaneous16Handled ==
  ASSUME NEW c, NEW hw \in Nat
  PROVE  Known(c, Miscellaneous16(c, hw).type)
<1>1. SupportsV7(c) => Handled(c, CompareBranch(hw).type)
  <2>1. CompareBranch(hw).type \in {"CBNZ", "CBZ"}
    BY DEF CompareBranch
  <2> QED BY <2>1, V7Handled
<1>2. Known(c, ReverseBytes(hw).type)
  <2>1. ReverseBytes(hw) = Unknown \/ ReverseBytes(hw).type \in {"REV", "REV16", "REVSH"}
    <3>1. Bits(hw, 7, 6) \in {0, 1, 2, 3}
      BY BitsAre
    <3> DEFINE names == <<"REV", "REV16", "", "REVSH">>
    <3>2. names[1] = "REV" /\ names[2] = "REV16" /\ names[4] = "REVSH"
      BY Zenon
    <3> HIDE DEF names
    <3>3. Bits(hw, 7, 6) # 2 => names[Bits(hw, 7, 6) + 1] \in {"REV", "REV16", "REVSH"}
      BY <3>1, <3>2
    <3> QED BY <3>3, Zenon DEF ReverseBytes, names
  <2> QED BY <2>1, Branches16Handled, V6Handled DEF Known
<1>3. PushPop(hw).type \in {"POP", "PUSH"}
  BY DEF PushPop
<1>4. Handled(c, AddSubtractSp(hw).type)
  BY DataProcessing16Handled
<1>5. \A t \in {"POP", "PUSH", "CPS", "EXTEND"} : Handled(c, t)
  BY V6Handled
<1> HIDE DEF Known
<1>6. \/ Miscellaneous16(c, hw) = CompareBranch(hw) /\ SupportsV7(c)
      \/ Miscellaneous16(c, hw).type \in {"CPS", "EXTEND"}
      \/ Miscellaneous16(c, hw) \in {ReverseBytes(hw), PushPop(hw), AddSubtractSp(hw)}
  BY DEF Miscellaneous16, IsCompareBranch
<1> QED BY <1>1, <1>2, <1>3, <1>4, <1>5, <1>6 DEF Known

LEMMA Decode16Known ==
  ASSUME NEW c, NEW hw \in Nat
  PROVE  Known(c, Decode16(c, hw).type)
<1>1. \A t \in {"LDMIA", "STMIA", "BKPT", "B", "T32_BL"} : Handled(c, t)
  BY V6Handled DEF BranchTypes
<1>2. \/ Decode16(c, hw) = ShiftImmediate(hw) /\ Bits(hw, 12, 11) # 3
      \/ Decode16(c, hw) \in {AddSubtract(hw), Immediate8(hw), AluOperation(hw), HighRegister(c, hw), LoadLiteral(hw),
                              LoadStoreRegister(hw), LoadStoreImmediate(hw), StackRelative(hw), LoadAddress(hw),
                              Miscellaneous16(c, hw), ConditionalBranch(hw), Hint(c, hw), Unknown}
      \/ Decode16(c, hw).type \in {"LDMIA", "STMIA", "BKPT", "B", "T32_BL"}
  BY DEF Decode16
<1>3. Known(c, Miscellaneous16(c, hw).type)
  BY Miscellaneous16Handled
<1> QED BY <1>1, <1>2, <1>3, TablesHandled, DataProcessing16Handled, LoadStore16Handled, Branches16Handled DEF Known

-----------------------------------------------------------------------------
(* 32-bit instructions *)

LEMMA LoadStoreMultipleHandled ==
  ASSUME NEW c, SupportsV7(c), NEW a \in Nat, NEW b \in Nat
  PROVE  /\ Known(c, LoadStoreMultiple32(a, b).type)
         /\ Known(c, DualExclusiveTable(a, b).type)
<1>1. \/ LoadStoreMultiple32(a, b) = Unknown
      \/ LoadStoreMultiple32(a, b).type \in {"T32_LDMIA", "T32_STMIA", "T32_LDMDB", "T32_STMDB"}
  <2>1. Bits(a, 8, 7) \in 0 .. 3
    BY DEF Bits
  <2> QED BY <2>1 DEF LoadStoreMultiple32
<1>2. LoadStoreDual(a, b).type \in {"T32_LDRD", "T32_STRD"}
  BY DEF LoadStoreDual
<1>3. ExclusiveWord(a, b).type \in {"T32_LDREX", "T32_STREX"}
  BY DEF ExclusiveWord
<1>4. \/ ExclusiveOrTable(a, b) = Unknown
      \/ ExclusiveOrTable(a, b).type \in {"T32_STREXB", "T32_STREXH", "T32_TBB", "T32_TBH", "T32_LDREXB", "T32_LDREXH"}
  BY DEF ExclusiveOrTable
<1>5. DualExclusiveTable(a, b) \in {LoadStoreDual(a, b), ExclusiveWord(a, b), ExclusiveOrTable(a, b)}
  BY DEF DualExclusiveTable
<1>6. Known(c, Unknown.type)
  BY Branches16Handled
<1>7. \A t \in {"T32_LDMIA", "T32_STMIA", "T32_LDMDB", "T32_STMDB", "T32_LDRD", "T32_STRD", "T32_LDREX", "T32_STREX",
                "T32_STREXB", "T32_STREXH", "T32_TBB", "T32_TBH", "T32_LDREXB", "T32_LDREXH"} : Known(c, t)
  BY V7Handled DEF Known
<1> QED BY <1>1, <1>2, <1>3, <1>4, <1>5, <1>6, <1>7

(* The operation of a data processing instruction has an immediate and a register form. *)
LEMMA DataOperationIs ==
  ASSUME NEW op, NEW rn
  PROVE  LET name == DataOperation(op, rn)
         IN  name = "NONE" \/ (name \in Operations32 /\ (name \in DOMAIN CompareNames => CompareNames[name] \in Operations32))
<1>1. DataOperation(op, rn) \in {"AND", "BIC", "MOV", "ORR", "MVN", "ORN", "EOR", "ADD", "ADC", "SBC", "SUB", "RSB", "NONE"}
  BY DEF DataOperation
<1>2. \A name \in {"AND", "BIC", "MOV", "ORR", "MVN", "ORN", "EOR", "ADD", "ADC", "SBC", "SUB", "RSB"} : name \in Operations32
  BY DEF Operations32
<1>3. \A name \in DOMAIN CompareNames : CompareNames[name] \in Operations32
  BY SpellingAssumption, Zenon
<1> QED BY <1>1, <1>2, <1>3

LEMMA DataProcessing32Handled ==
  ASSUME NEW c, SupportsV7(c), NEW a \in Nat, NEW b \in Nat
  PROVE  /\ Known(c, ShiftedRegister(c, a, b).type)
         /\ Known(c, ModifiedImmediate(a, b).type)
<1> DEFINE name == DataOperation(Bits(a, 8, 5), Rn(a))
           compare == name \in DOMAIN CompareNames /\ Rd(b) = 15
           op == IF compare THEN CompareNames[name] ELSE name
<1>1. name = "NONE" \/ op \in Operations32
  BY DataOperationIs
<1>2. /\ "T32_PKHTB" \in Ignored /\ "T32_PKHBT" \in Ignored
      /\ Known(c, Unknown.type)
  BY Branches16Handled DEF Ignored
<1>3. op \in Operations32 => "T32_" \o op \o "_REG" \in RegisterTypes /\ "T32_" \o op \o "_IMM" \in ImmediateTypes
  BY Zenon DEF RegisterTypes, ImmediateTypes, Suffixed
<1>4. \A t \in ImmediateTypes \cup RegisterTypes : Handled(c, t)
  BY V7Handled
<1>5. \/ ShiftedRegister(c, a, b) = Unknown
      \/ ShiftedRegister(c, a, b).type \in {"T32_PKHTB", "T32_PKHBT"}
      \/ ShiftedRegister(c, a, b).type = "T32_" \o op \o "_REG" /\ name # "NONE"
  BY DEF ShiftedRegister
<1>6. \/ ModifiedImmediate(a, b) = Unknown
      \/ ModifiedImmediate(a, b).type = "T32_" \o op \o "_IMM" /\ name # "NONE"
  BY DEF ModifiedImmediate
<1> HIDE DEF op, name, compare
<1> QED BY <1>1, <1>2, <1>3, <1>4, <1>5, <1>6 DEF Known

LEMMA CoprocessorIgnored ==
  ASSUME NEW a, NEW b
  PROVE  Coprocessor(a, b).type \in Ignored
<1>1. Coprocessor(a, b).type \in {"T32_STC", "T32_LDC_LIT", "T32_LDC", "T32_CDP", "T32_MRC", "T32_MCR",
                                  "T32_SYSTEM_CP", "UNDEFINED"}
  BY DEF Coprocessor
<1> QED BY <1>1 DEF Ignored

LEMMA PlainImmediateHandled ==
  ASSUME NEW c, SupportsV7(c), NEW a \in Nat, NEW b \in Nat
  PROVE  Known(c, PlainImmediate(c, a, b).type)
<1>1. \/ PlainImmediate(c, a, b) = Unknown
      \/ PlainImmediate(c, a, b).type \in {"T32_ADDW", "T32_MOVW", "T32_SUBW", "T32_MOVT"}
      \/ PlainImmediate(c, a, b).type \in {"T32_SSAT", "T32_SBFX", "T32_BFC", "T32_BFI", "T32_USAT", "T32_UBFX"}
      \/ PlainImmediate(c, a, b).type \in {"T32_SSAT16", "T32_USAT16"}
  <2> DEFINE With(type, imm) == [type |-> type, rn |-> Rn(a), rd |-> Rd(b), imm |-> imm]
             low5 == Bits(b, 4, 0)
             plain == {With("T32_ADDW", Imm12(a, b)), With("T32_MOVW", 4096 * Rn(a) + Imm12(a, b)),
                       With("T32_SUBW", Imm12(a, b)), With("T32_MOVT", 4096 * Rn(a) + Imm12(a, b))}
             bitFields == {BitField("T32_SBFX", low5 + 1, a, b), BitField("T32_UBFX", low5 + 1, a, b),
                           BitField(IF Rn(a) = 15 THEN "T32_BFC" ELSE "T32_BFI", low5 - Shift5(b) + 1, a, b)}
             saturated == {Saturate("T32_SSAT", low5 + 1, a, b), Saturate("T32_USAT", low5, a, b)}
             halves == {With("T32_SSAT16", (low5 % 16) + 1), With("T32_USAT16", low5 % 16)}
  <2>1. PlainImmediate(c, a, b) \in plain \cup bitFields \cup saturated \cup halves \cup {Unknown}
    BY SMTT(30) DEF PlainImmediate
  <2>2. /\ \A f \in plain : f.type \in {"T32_ADDW", "T32_MOVW", "T32_SUBW", "T32_MOVT"}
        /\ \A f \in bitFields : f.type \in {"T32_SBFX", "T32_UBFX", "T32_BFC", "T32_BFI"}
        /\ \A f \in saturated : f.type \in {"T32_SSAT", "T32_USAT"}
        /\ \A f \in halves : f.type \in {"T32_SSAT16", "T32_USAT16"}
    BY DEF Saturate, BitField
  <2> HIDE DEF plain, bitFields, saturated, halves
  <2> QED BY <2>1, <2>2
<1>2. /\ {"T32_ADDW", "T32_MOVW", "T32_SUBW", "T32_MOVT"} \subseteq ImmediateTypes
      /\ {"T32_SSAT16", "T32_USAT16"} \subseteq Ignored
  BY DEF ImmediateTypes, Ignored
<1> QED BY <1>1, <1>2, V7Handled, Branches16Handled DEF Known

LEMMA BranchesAndControlHandled ==
  ASSUME NEW c, NEW a \in Nat, NEW b \in Nat
  PROVE  Known(c, BranchesAndControl(c, a, b).type)
<1>1. \/ BarrierOrClrex(c, a, b) = Unknown
      \/ BarrierOrClrex(c, a, b).type = "T32_CLREX" /\ SupportsV7(c)
      \/ BarrierOrClrex(c, a, b).type \in {"T32_DSB", "T32_DMB", "T32_ISB"}
  BY DEF BarrierOrClrex
<1>2. \/ MiscellaneousControl(c, a, b) = Unknown
      \/ MiscellaneousControl(c, a, b) = BarrierOrClrex(c, a, b)
      \/ MiscellaneousControl(c, a, b).type \in {"T32_B_COND", "T32_MSR", "T32_MRS"}
      \/ MiscellaneousControl(c, a, b).type \in {"T32_SEV", "T32_SEVL", "T32_WFE"}
      \/ MiscellaneousControl(c, a, b).type = "T32_NOP" /\ SupportsV7(c)
  BY DEF MiscellaneousControl
<1>3. \/ BranchesAndControl(c, a, b) \in {Unknown, MiscellaneousControl(c, a, b)}
      \/ BranchesAndControl(c, a, b).type \in {"T32_B", "T32_BL"}
  BY DEF BranchesAndControl
<1>4. {"T32_SEV", "T32_SEVL", "T32_WFE"} \subseteq Ignored /\ {"T32_B", "T32_BL", "T32_B_COND"} \subseteq BranchTypes
  BY DEF Ignored, BranchTypes
<1>5. Known(c, Unknown.type)
  BY Branches16Handled
<1>6. \A t \in {"T32_DSB", "T32_DMB", "T32_ISB", "T32_B_COND", "T32_MSR", "T32_MRS", "T32_SEV", "T32_SEVL", "T32_WFE",
                "T32_B", "T32_BL"} : Known(c, t)
  BY <1>4, V6Handled DEF Known
<1>7. SupportsV7(c) => Known(c, "T32_CLREX") /\ Known(c, "T32_NOP")
  BY V7Handled DEF Known
<1> QED BY <1>1, <1>2, <1>3, <1>5, <1>6, <1>7

LEMMA JoinedIgnored ==
  /\ \A n \in {"T32_PLD", "T32_PLI"} : \A form \in {"_IMM", "_REG", "_LIT"} : n \o form \in Ignored
  /\ \A n \in {"T32_LDR", "T32_LDRS"} : \A unit \in {"B", "H"} : n \o unit \o "_LIT" \in Ignored
  /\ \A n \in {"LDRSB", "LDRSH"} : "T32_" \o n \o "_PRE_POST" \in Ignored
<1>1. Preloads \subseteq Ignored /\ LiteralLoads \subseteq Ignored /\ Unhandled \subseteq Ignored
  BY DEF Ignored
<1>2. \A P, F : \A n \in P : \A f \in F : n \o f \in Joined(P, F)
  BY DEF Joined
<1>3. /\ \A n \in {"T32_PLD", "T32_PLI"} : \A form \in {"_IMM", "_REG", "_LIT"} : n \o form \in Preloads
      /\ \A n \in {"T32_LDR", "T32_LDRS"} : \A unit \in {"B", "H"} : n \o unit \o "_LIT" \in LiteralLoads
  BY <1>2, Zenon DEF Preloads, LiteralLoads
<1>4. \A n \in {"LDRSB", "LDRSH"} : "T32_" \o n \o "_PRE_POST" \in Unhandled
  BY Zenon DEF Unhandled, Suffixed
<1> QED BY <1>1, <1>2, <1>3, <1>4, Zenon

LEMMA SingleTypes ==
  ASSUME NEW c, SupportsV7(c)
  PROVE  /\ \A n \in {"STRB", "STRH", "STR", "LDR", "LDRB", "LDRH"} : \A form \in {"_IMM", "_REG", "_PRE_POST"} :
              Known(c, "T32_" \o n \o form)
         /\ \A n \in {"LDRSB", "LDRSH"} : \A form \in {"_IMM", "_REG", "_PRE_POST"} : Known(c, "T32_" \o n \o form)
         /\ Known(c, "T32_LDR_LIT") /\ Known(c, "T32_LDRT")
<1>1. \A t \in LoadStore32Types : Known(c, t)
  BY V7Handled DEF Known
<1>2. \A n \in {"STRB", "STRH", "STR", "LDR", "LDRB", "LDRH"} : \A form \in {"_IMM", "_REG", "_PRE_POST"} :
        "T32_" \o n \o form \in LoadStore32Types
  BY DEF LoadStore32Types, Suffixed
<1>3. \A n \in {"LDRSB", "LDRSH"} :
        /\ \A form \in {"_IMM", "_REG"} : "T32_" \o n \o form \in LoadStore32Types
        /\ "T32_" \o n \o "_PRE_POST" \in Ignored
  BY JoinedIgnored DEF LoadStore32Types, Suffixed
<1>4. "T32_LDR_LIT" \in LoadStore32Types /\ "T32_LDRT" \in LoadStore32Types
  BY DEF LoadStore32Types
<1> QED BY <1>1, <1>2, <1>3, <1>4 DEF Known

LEMMA StoreSingleHandled ==
  ASSUME NEW c, SupportsV7(c), NEW a \in Nat, NEW b \in Nat
  PROVE  Known(c, StoreSingle(a, b).type)
<1> DEFINE op == Bits(a, 7, 5)
           n == <<"STRB", "STRH", "STR">>[(op % 4) + 1]
<1>1. op \in 0 .. 7
  BY DEF Bits
<1>2. op \notin {3, 7} => n \in {"STRB", "STRH", "STR"}
  <2> HIDE DEF op
  <2> QED BY <1>1
<1>3. \/ StoreSingle(a, b) = Unknown
      \/ op \notin {3, 7} /\ \E form \in {"_IMM", "_REG", "_PRE_POST"} : StoreSingle(a, b).type = "T32_" \o n \o form
  BY DEF StoreSingle, Offset12, Indexed, RegisterOffset
<1> HIDE DEF op, n
<1>4. \/ StoreSingle(a, b) = Unknown
      \/ \E m \in {"STRB", "STRH", "STR", "LDR", "LDRB", "LDRH"} : \E form \in {"_IMM", "_REG", "_PRE_POST"} :
           StoreSingle(a, b).type = "T32_" \o m \o form
  BY <1>2, <1>3
<1> QED BY <1>4, SingleTypes, Branches16Handled, Zenon

LEMMA LoadNarrowHandled ==
  ASSUME NEW c, SupportsV7(c), NEW a \in Nat, NEW b \in Nat, NEW half \in BOOLEAN
  PROVE  Known(c, LoadNarrow(half, a, b).type)
<1> DEFINE op   == Bits(a, 8, 7)
           unit == IF half THEN "H" ELSE "B"
           name == "T32_LDR" \o (IF op < 2 THEN "" ELSE "S") \o unit
           f == LoadNarrow(half, a, b)
<1>1. \E n \in {"LDRB", "LDRH", "LDRSB", "LDRSH"} : name = "T32_" \o n
  <2>1. /\ \A u \in {"B", "H"} : /\ "T32_LDR" \o "" \o u = "T32_" \o ("LDR" \o u)
                                 /\ "T32_LDR" \o "S" \o u = "T32_" \o ("LDRS" \o u)
        /\ "LDR" \o "B" = "LDRB" /\ "LDR" \o "H" = "LDRH" /\ "LDRS" \o "B" = "LDRSB" /\ "LDRS" \o "H" = "LDRSH"
    BY SpellingAssumption, Zenon
  <2> QED BY <2>1, Zenon
<1>2. \A suffix \in {"_IMM", "_REG", "_LIT"} : Preload(op, half, suffix) = "T32_NOP" \/ Preload(op, half, suffix) \in Ignored
  BY JoinedIgnored, Zenon DEF Preload
<1>3. \A n \in {"T32_LDR", "T32_LDRS"} : n \o unit \o "_LIT" \in Ignored
  <2>1. unit \in {"B", "H"}
    BY Zenon
  <2> HIDE DEF unit
  <2> QED BY <2>1, JoinedIgnored, Zenon
<1>4. \A form \in {"_IMM", "_REG", "_PRE_POST"} : Known(c, name \o form)
  BY <1>1, SingleTypes, Zenon
<1>5. \/ f = Unknown
      \/ \E suffix \in {"_IMM", "_REG", "_LIT"} : f.type = Preload(op, half, suffix)
      \/ \E n \in {"T32_LDR", "T32_LDRS"} : f.type = n \o unit \o "_LIT"
      \/ \E form \in {"_IMM", "_REG", "_PRE_POST"} : f.type = name \o form
  BY Zenon DEF LoadNarrow, Offset12, Indexed, RegisterOffset
<1>6. Known(c, "T32_NOP") /\ Known(c, Unknown.type)
  BY V7Handled, Branches16Handled DEF Known
<1> HIDE DEF op, unit, name, f
<1> QED BY <1>2, <1>3, <1>4, <1>5, <1>6, Zenon DEF Known, f

LEMMA LoadWordHandled ==
  ASSUME NEW c, SupportsV7(c), NEW a \in Nat, NEW b \in Nat
  PROVE  Known(c, LoadWord(a, b).type)
<1>1. \/ LoadWord(a, b) = Unknown
      \/ LoadWord(a, b).type \in {"T32_LDR_LIT", "T32_LDR_IMM", "T32_LDR_PRE_POST", "T32_LDR_REG", "T32_LDRT"}
  BY DEF LoadWord, Offset12, Indexed, RegisterOffset
<1>2. /\ "T32_LDR_IMM" = "T32_" \o "LDR" \o "_IMM" /\ "T32_LDR_REG" = "T32_" \o "LDR" \o "_REG"
      /\ "T32_LDR_PRE_POST" = "T32_" \o "LDR" \o "_PRE_POST"
  <2>1. \A form \in {<<"_IMM", "T32_LDR_IMM">>, <<"_REG", "T32_LDR_REG">>, <<"_PRE_POST", "T32_LDR_PRE_POST">>} :
          "T32_" \o "LDR" \o form[1] = form[2]
    BY SpellingAssumption, Zenon
  <2> QED BY <2>1
<1>3. Known(c, "T32_LDR_IMM") /\ Known(c, "T32_LDR_REG") /\ Known(c, "T32_LDR_PRE_POST")
  BY <1>2, SingleTypes, Zenon
<1> QED BY <1>1, <1>3, SingleTypes, Branches16Handled

LEMMA WholeNames ==
  ASSUME NEW c, SupportsV7(c)
  PROVE  \A n \in {"MUL", "MLA", "MLS", "SMULL", "UMULL", "SMLAL", "UMLAL", "SDIV", "UDIV", "REV", "REV16", "REVSH",
                   "RBIT", "CLZ", "SXTH", "UXTH", "SXTB", "UXTB"} : Known(c, "T32_" \o n)
<1> DEFINE S == {"MUL", "MLA", "MLS", "SMULL", "UMULL", "SMLAL", "UMLAL", "SDIV", "UDIV", "REV", "REV16", "REVSH",
                 "RBIT", "CLZ", "SXTH", "UXTH", "SXTB", "UXTB"}
           Wide == {"T32_MUL", "T32_MLA", "T32_MLS", "T32_SMULL", "T32_UMULL", "T32_SMLAL", "T32_UMLAL", "T32_SDIV", "T32_UDIV",
                 "T32_REV", "T32_REV16", "T32_REVSH", "T32_RBIT", "T32_CLZ", "T32_SXTH", "T32_UXTH", "T32_SXTB", "T32_UXTB"}
<1>1. \A n \in S : "T32_" \o n \in Wide
  <2>1. {"T32_" \o n : n \in S} = Wide
    BY SpellingAssumption, Zenon
  <2> HIDE DEF S, Wide
  <2> QED BY <2>1, Zenon
<1>2. \A t \in Wide : Known(c, t)
  BY V7Handled DEF Known
<1> HIDE DEF Wide
<1> QED BY <1>1, <1>2, Zenon

LEMMA DspIgnored ==
  /\ \A n \in DspTypes : "T32_" \o n \in Ignored
  /\ {"SXTB16", "UXTB16", "QADD", "QDADD", "QSUB", "QDSUB", "SEL", "SMLALBB", "SMLALD", "SMLSLD", "UMAAL"} \subseteq DspTypes
  /\ \A i \in DOMAIN AddExtendNames : AddExtendNames[i] \in DspTypes
  /\ \A i \in DOMAIN DspMultiplyNames : DspMultiplyNames[i][1] \in DspTypes /\ DspMultiplyNames[i][2] \in DspTypes
<1>1. \A n \in DspTypes : "T32_" \o n \in Ignored
  BY DEF Ignored
<1>2. \A i \in DOMAIN DspMultiplyNames : DspMultiplyNames[i][1] \in DspTypes /\ DspMultiplyNames[i][2] \in DspTypes
  <2> TAKE i \in DOMAIN DspMultiplyNames
  <2>1. \A n \in {DspMultiplyNames[i][1], DspMultiplyNames[i][2]} : n \in DspTypes
    BY Zenon DEF DspTypes
  <2> QED BY <2>1, Zenon
<1>3. \A i \in DOMAIN AddExtendNames : AddExtendNames[i] \in DspTypes
  BY Zenon DEF DspTypes
<1>4. {"SXTB16", "UXTB16", "QADD", "QDADD", "QSUB", "QDSUB", "SEL", "SMLALBB", "SMLALD", "SMLSLD", "UMAAL"} \subseteq DspTypes
  BY Zenon DEF DspTypes
<1> QED BY <1>1, <1>2, <1>3, <1>4

LEMMA ShiftOrExtendHandled ==
  ASSUME NEW c, SupportsV7(c), NEW a \in Nat, NEW b \in Nat, NEW op1 \in 0 .. 7, NEW op2
  PROVE  Known(c, ShiftOrExtend(c, op1, op2, a, b).type)
<1> DEFINE f == ShiftOrExtend(c, op1, op2, a, b)
           end == IF op1 % 2 = 1 THEN "S_REG" ELSE "_REG"
<1>1. \/ f = Unknown
      \/ f.type = "T32_" \o (ShiftNames[op1 + 1] \o end)
      \/ op1 < 6 /\ f.type \in {"T32_" \o ExtendNames[op1 + 1], "T32_" \o AddExtendNames[op1 + 1]}
  BY Zenon DEF ShiftOrExtend, Registers3
<1>2. ShiftNames[op1 + 1] \in {"LSL", "LSR", "ASR", "ROR"} /\ end \in {"_REG", "S_REG"}
  BY DEF ShiftNames
<1>3. op1 < 6 => /\ ExtendNames[op1 + 1] \in {"SXTH", "UXTH", "SXTB16", "UXTB16", "SXTB", "UXTB"}
                 /\ op1 + 1 \in DOMAIN AddExtendNames
  BY DEF ExtendNames, AddExtendNames
<1>4. \A n \in {"LSL", "LSR", "ASR", "ROR"} : \A form \in {"_REG", "S_REG"} : Known(c, "T32_" \o (n \o form))
  <2>1. \A n \in {"LSL", "LSR", "ASR", "ROR"} : \A form \in {"_REG", "S_REG"} : "T32_" \o (n \o form) = "T32_" \o n \o form
    BY SpellingAssumption, Zenon
  <2> QED BY <2>1, V7Handled, Zenon DEF Known
<1>5. \A n \in {"SXTH", "UXTH", "SXTB16", "UXTB16", "SXTB", "UXTB"} : Known(c, "T32_" \o n)
  <2>1. \A n \in {"SXTB16", "UXTB16"} : Known(c, "T32_" \o n)
    BY DspIgnored DEF Known
  <2> QED BY <2>1, WholeNames
<1>6. op1 < 6 => Known(c, "T32_" \o AddExtendNames[op1 + 1])
  BY <1>3, DspIgnored, Zenon DEF Known
<1>7. Known(c, Unknown.type)
  BY Branches16Handled
<1> HIDE DEF f, end
<1> QED BY <1>1, <1>2, <1>3, <1>4, <1>5, <1>6, <1>7, Zenon DEF f

LEMMA ParallelOrBitsHandled ==
  ASSUME NEW c, SupportsV7(c), NEW a \in Nat, NEW b \in Nat, NEW op1, NEW op2
  PROVE  Known(c, ParallelOrBits(c, op1, op2, a, b).type)
<1> DEFINE f == ParallelOrBits(c, op1, op2, a, b)
           lane == op1 \in DOMAIN ParallelNames /\ op2 \in DOMAIN ParallelPrefixes /\ SupportsV7E(c)
           bits == <<op1, op2>> \in DOMAIN SaturatingAndBits
<1>1. \/ f = Unknown
      \/ lane /\ f.type = "T32_" \o (ParallelPrefixes[op2] \o ParallelNames[op1])
      \/ bits /\ f.type = "T32_" \o SaturatingAndBits[<<op1, op2>>]
  BY Zenon DEF ParallelOrBits, Registers3
<1>2. lane => Known(c, "T32_" \o (ParallelPrefixes[op2] \o ParallelNames[op1]))
  <2> SUFFICES ASSUME lane PROVE Known(c, "T32_" \o (ParallelPrefixes[op2] \o ParallelNames[op1]))
    OBVIOUS
  <2>1. "T32_" \o (ParallelPrefixes[op2] \o ParallelNames[op1]) = "T32_" \o ParallelPrefixes[op2] \o ParallelNames[op1]
    BY SpellingAssumption, Zenon
  <2>2. "T32_" \o ParallelPrefixes[op2] \o ParallelNames[op1] \in ParallelTypes
    BY DEF ParallelTypes
  <2> QED BY <2>1, <2>2, V7Handled, Zenon DEF Known
<1>3. bits => Known(c, "T32_" \o SaturatingAndBits[<<op1, op2>>])
  <2>1. bits => SaturatingAndBits[<<op1, op2>>] \in {"QADD", "QDADD", "QSUB", "QDSUB", "REV", "REV16", "RBIT", "REVSH", "SEL", "CLZ"}
    BY SpellingAssumption, Zenon
  <2>2. \A n \in {"QADD", "QDADD", "QSUB", "QDSUB", "REV", "REV16", "RBIT", "REVSH", "SEL", "CLZ"} : Known(c, "T32_" \o n)
    <3>1. \A n \in {"QADD", "QDADD", "QSUB", "QDSUB", "SEL"} : Known(c, "T32_" \o n)
      BY DspIgnored DEF Known
    <3> QED BY <3>1, WholeNames
  <2> QED BY <2>1, <2>2, Zenon
<1>4. Known(c, Unknown.type)
  BY Branches16Handled
<1> HIDE DEF f, lane, bits
<1> QED BY <1>1, <1>2, <1>3, <1>4, Zenon DEF f

LEMMA MultiplyAccumulateHandled ==
  ASSUME NEW c, SupportsV7(c), NEW a \in Nat, NEW b \in Nat
  PROVE  Known(c, MultiplyAccumulate(c, a, b).type)
<1> DEFINE op1 == Bits(a, 6, 4)
           f == MultiplyAccumulate(c, a, b)
<1>1. op1 \in 0 .. 7
  BY DEF Bits
<1>2. \/ f = Unknown
      \/ f.type \in {"T32_" \o n : n \in {"MLA", "MUL", "MLS"}}
      \/ op1 > 0 /\ f.type = "T32_" \o DspMultiplyNames[op1][IF Rt(b) = 15 THEN 2 ELSE 1]
  <2> DEFINE Product(name) == [type |-> "T32_" \o name, rn |-> Rn(a), rd |-> Rd(b), rm |-> Rm(b)]
             Accumulate(name) == [type |-> "T32_" \o name, rn |-> Rn(a), rd |-> Rd(b), rm |-> Rm(b), rs |-> Rt(b)]
             dsp == [type |-> "T32_" \o DspMultiplyNames[op1][IF Rt(b) = 15 THEN 2 ELSE 1]]
  <2>1. f \in {Accumulate("MLA"), Product("MUL"), Accumulate("MLS"), Unknown} \/ (op1 > 0 /\ f = dsp)
    BY SMTT(30) DEF MultiplyAccumulate
  <2>2. \A n : Product(n).type = "T32_" \o n /\ Accumulate(n).type = "T32_" \o n
    OBVIOUS
  <2>3. dsp.type = "T32_" \o DspMultiplyNames[op1][IF Rt(b) = 15 THEN 2 ELSE 1]
    OBVIOUS
  <2> HIDE DEF Product, Accumulate, dsp, f, op1
  <2> QED BY <2>1, <2>2, <2>3
<1>3. op1 > 0 => op1 \in DOMAIN DspMultiplyNames
  BY <1>1 DEF DspMultiplyNames
<1>4. op1 > 0 => Known(c, "T32_" \o DspMultiplyNames[op1][IF Rt(b) = 15 THEN 2 ELSE 1])
  BY <1>3, DspIgnored, Zenon DEF Known
<1>5. \A n \in {"MLA", "MUL", "MLS"} : Known(c, "T32_" \o n)
  BY WholeNames
<1>6. Known(c, Unknown.type)
  BY Branches16Handled
<1> HIDE DEF f, op1
<1> QED BY <1>2, <1>4, <1>5, <1>6, Zenon DEF f

LEMMA LongMultiplyDivideHandled ==
  ASSUME NEW c, SupportsV7(c), NEW a \in Nat, NEW b \in Nat
  PROVE  Known(c, LongMultiplyDivide(c, a, b).type)
<1> DEFINE f == LongMultiplyDivide(c, a, b)
<1>1. \/ f = Unknown
      \/ f.type \in {"T32_" \o n : n \in {"SMULL", "SDIV", "UMULL", "UDIV", "SMLAL", "UMLAL"}}
      \/ f.type \in {"T32_" \o n : n \in {"SMLALBB", "SMLALD", "SMLSLD", "UMAAL"}}
  <2> DEFINE Long(name) == [type |-> "T32_" \o name, rd |-> Rt(b), rs |-> Rd(b), rn |-> Rn(a), rm |-> Rm(b)]
             Quotient(name) == [type |-> "T32_" \o name, rd |-> Rd(b), rn |-> Rn(a), rm |-> Rm(b)]
  <2>1. f \in {Long("SMULL"), Quotient("SDIV"), Long("UMULL"), Quotient("UDIV"), Long("SMLAL"), Long("SMLALBB"),
               Long("SMLALD"), Long("SMLSLD"), Long("UMLAL"), Long("UMAAL"), Unknown}
    BY SMTT(30) DEF LongMultiplyDivide
  <2>2. \A n : Long(n).type = "T32_" \o n /\ Quotient(n).type = "T32_" \o n
    OBVIOUS
  <2> HIDE DEF Long, Quotient, f
  <2> QED BY <2>1, <2>2
<1>2. \A n \in {"SMULL", "SDIV", "UMULL", "UDIV", "SMLAL", "UMLAL"} : Known(c, "T32_" \o n)
  BY WholeNames
<1>3. \A n \in {"SMLALBB", "SMLALD", "SMLSLD", "UMAAL"} : Known(c, "T32_" \o n)
  BY DspIgnored DEF Known
<1>4. Known(c, Unknown.type)
  BY Branches16Handled
<1> HIDE DEF f
<1> QED BY <1>1, <1>2, <1>3, <1>4, Zenon DEF f

LEMMA Decode32Known ==
  ASSUME NEW c, NEW a \in Nat, NEW b \in Nat
  PROVE  Known(c, Decode32(c, a, b).type)
<1>1. SupportsV7(c) => Known(c, DataRegister(c, a, b).type)
  <2>1. Bits(a, 7, 4) \in 0 .. 15
    BY DEF Bits
  <2>2. \/ DataRegister(c, a, b) = ShiftOrExtend(c, Bits(a, 7, 4), Bits(b, 7, 4), a, b) /\ Bits(a, 7, 4) \in 0 .. 7
        \/ DataRegister(c, a, b) = ParallelOrBits(c, Bits(a, 7, 4), Bits(b, 7, 4), a, b)
    BY <2>1 DEF DataRegister
  <2> QED BY <2>2, ShiftOrExtendHandled, ParallelOrBitsHandled, Zenon
<1>2. SupportsV7(c) => Known(c, SingleRegisterMultiply(c, a, b).type)
  <2>1. SingleRegisterMultiply(c, a, b) \in
          {StoreSingle(a, b), LoadNarrow(FALSE, a, b), LoadNarrow(TRUE, a, b), LoadWord(a, b), DataRegister(c, a, b),
           MultiplyAccumulate(c, a, b), LongMultiplyDivide(c, a, b), Unknown}
    BY DEF SingleRegisterMultiply, LoadByte, LoadHalfword
  <2> QED BY <1>1, <2>1, StoreSingleHandled, LoadNarrowHandled, LoadWordHandled, MultiplyAccumulateHandled,
             LongMultiplyDivideHandled, Branches16Handled, Zenon
<1>3. \/ Decode32(c, a, b) \in {BranchesAndControl(c, a, b), Unknown}
      \/ /\ SupportsV7(c)
         /\ Decode32(c, a, b) \in {LoadStoreMultiple32(a, b), DualExclusiveTable(a, b), ShiftedRegister(c, a, b),
                                   Coprocessor(a, b), ModifiedImmediate(a, b), PlainImmediate(c, a, b),
                                   SingleRegisterMultiply(c, a, b)}
  BY DEF Decode32
<1>4. Known(c, Coprocessor(a, b).type)
  BY CoprocessorIgnored DEF Known
<1> QED BY <1>2, <1>3, <1>4, LoadStoreMultipleHandled, DataProcessing32Handled, PlainImmediateHandled,
           BranchesAndControlHandled, Branches16Handled, Zenon

-----------------------------------------------------------------------------
(* Where instructions start *)

LEMMA LeastMember ==
  ASSUME NEW S, S \subseteq Nat, S # {}
  PROVE  \E k \in S : \A j \in S : k <= j
<1>1. PICK x \in S : \A y \in S : ~(<<y, x>> \in OpToRel(<, Nat))
  BY NatLessThanWellFounded, WFMin
<1>2. \A y \in S : ~(y < x)
  BY <1>1 DEF OpToRel
<1> QED BY <1>2

(* f sums the lengths: the recursion has a solution for every prefix. *)
Sums(f, len, n) ==
  /\ f \in [1 .. n + 1 -> Nat]
  /\ \A i \in 1 .. n + 1 : f[i] = IF i = 1 THEN 1 ELSE f[i - 1] + len[i - 1]

LEMMA SumsExist ==
  ASSUME NEW n \in Nat, NEW len \in [1 .. n -> Nat]
  PROVE  \E f : Sums(f, len, n)
<1> DEFINE Bad == {m \in 0 .. n : ~ \E f : Sums(f, len, m)}
<1>1. ASSUME Bad # {} PROVE FALSE
  <2>1. PICK m \in Bad : \A j \in Bad : m <= j
    <3>1. Bad \subseteq Nat
      OBVIOUS
    <3> HIDE DEF Bad
    <3> QED BY <1>1, <3>1, LeastMember
  <2>2. m # 0
    <3>1. Sums([i \in 1 .. 0 + 1 |-> 1], len, 0)
      BY DEF Sums
    <3> QED BY <3>1
  <2>3. PICK f : Sums(f, len, m - 1)
    BY <2>1, <2>2
  <2> DEFINE g == [i \in 1 .. m + 1 |-> IF i = m + 1 THEN f[m] + len[m] ELSE f[i]]
  <2>4. m \in 1 .. n /\ f \in [1 .. m -> Nat]
    BY <2>2, <2>3 DEF Sums
  <2>5. f[m] + len[m] \in Nat
    BY <2>4
  <2>6. g \in [1 .. m + 1 -> Nat]
    BY <2>4, <2>5
  <2>7. \A i \in 1 .. m + 1 : g[i] = IF i = 1 THEN 1 ELSE g[i - 1] + len[i - 1]
    BY <2>3, <2>4 DEF Sums
  <2>8. Sums(g, len, m)
    BY <2>6, <2>7 DEF Sums
  <2> QED BY <2>1, <2>8
<1> QED BY <1>1

(* The words of an instruction of the program *)
Words(i) == program[i][2]

LEMMA ProgramIs ==
  ASSUME IsProgram(program)
  PROVE  /\ Len(program) \in Nat
         /\ DOMAIN program = 1 .. Len(program)
         /\ \A i \in 1 .. Len(program) :
              /\ Words(i) \in Seq(0 .. 2^16 - 1)
              /\ Len(Words(i)) \in 1 .. 2
              /\ OneInstruction(Words(i)) \/ TwoInstructions(Words(i))
              /\ program[i][1] # Data => OneInstruction(Words(i))
<1>1. Len(program) \in Nat /\ DOMAIN program = 1 .. Len(program)
  <2> DEFINE R == {program[i] : i \in DOMAIN program}
  <2>1. program \in Seq(R)
    BY DEF IsProgram
  <2> HIDE DEF R
  <2> QED BY <2>1
<1>2. \A i \in 1 .. Len(program) :
        /\ Words(i) \in Seq(0 .. 2^16 - 1)
        /\ OneInstruction(Words(i)) \/ TwoInstructions(Words(i))
        /\ program[i][1] # Data => OneInstruction(Words(i))
  BY <1>1 DEF IsProgram, Words
<1>3. \A w : OneInstruction(w) \/ TwoInstructions(w) => Len(w) \in 1 .. 2
  BY DEF OneInstruction, TwoInstructions
<1> QED BY <1>1, <1>2, <1>3

LEMMA ElementOf ==
  ASSUME NEW S, NEW w \in Seq(S), NEW k \in 1 .. Len(w)
  PROVE  w[k] \in S
  OBVIOUS

LEMMA LengthsAre ==
  ASSUME IsProgram(program)
  PROVE  /\ Len(program) \in Nat
         /\ \A i \in 1 .. Len(program) : Len(Words(i)) \in 1 .. 2
  BY ProgramIs

LEMMA StartsAre ==
  ASSUME IsProgram(program)
  PROVE  /\ \A i \in 1 .. Len(program) + 1 : Start(i) \in Nat
         /\ Start(1) = 1
         /\ \A i \in 1 .. Len(program) : Start(i + 1) = Start(i) + Len(Words(i))
<1> DEFINE n == Len(program)
           len == [i \in 1 .. n |-> Len(program[i][2])]
           P(f) == f = [i \in 1 .. n + 1 |-> IF i = 1 THEN 1 ELSE f[i - 1] + Len(program[i - 1][2])]
<1>1. n \in Nat /\ len \in [1 .. n -> Nat]
  <2>1. n \in Nat /\ \A i \in 1 .. n : Len(Words(i)) \in Nat
    BY LengthsAre
  <2> QED BY <2>1 DEF Words
<1>2. PICK f : Sums(f, len, n)
  BY <1>1, SumsExist
<1>3. P(f)
  <2>1. f = [i \in 1 .. n + 1 |-> f[i]]
    BY <1>2 DEF Sums
  <2>2. \A i \in 1 .. n + 1 : f[i] = IF i = 1 THEN 1 ELSE f[i - 1] + Len(program[i - 1][2])
    <3>1. \A i \in 1 .. n + 1 : i # 1 => len[i - 1] = Len(program[i - 1][2])
      BY <1>1
    <3> HIDE DEF len, n
    <3> QED BY <1>1, <1>2, <3>1 DEF Sums
  <2> QED BY <2>1, <2>2
<1>4. P(CHOOSE g : P(g))
  BY <1>3
<1>5. Starts = CHOOSE g : P(g)
  BY DEF Starts
<1>6. P(Starts)
  BY <1>4, <1>5
<1>7. \A i \in 1 .. n + 1 : Starts[i] = IF i = 1 THEN 1 ELSE Starts[i - 1] + Len(program[i - 1][2])
  BY <1>6
<1>8. \A i \in 1 .. n + 1 : Starts[i] \in Nat
  <2> DEFINE Bad == {i \in 1 .. n + 1 : Starts[i] \notin Nat}
  <2>1. ASSUME Bad # {} PROVE FALSE
    <3>1. Bad \subseteq Nat
      BY <1>1
    <3>2. PICK k \in Bad : \A j \in Bad : k <= j
      <4> HIDE DEF Bad
      <4> QED BY <2>1, <3>1, LeastMember
    <3>3. k # 1
      BY <1>1, <1>7
    <3>4. Starts[k - 1] \in Nat /\ len[k - 1] \in Nat /\ k - 1 \in 1 .. n
      BY <1>1, <3>2, <3>3
    <3> QED BY <1>7, <3>2, <3>3, <3>4
  <2> QED BY <2>1
<1>9. Start(1) = 1
  BY <1>1, <1>7 DEF Start
<1>10. \A i \in 1 .. n : Start(i + 1) = Start(i) + Len(Words(i))
  BY <1>1, <1>7 DEF Start, Words
<1> QED BY <1>8, <1>9, <1>10 DEF Start

(* Instructions follow one another in the order of the program. *)
LEMMA StartsGrow ==
  ASSUME IsProgram(program), NEW i \in 1 .. Len(program), NEW k \in 1 .. Len(program) + 1, i < k
  PROVE  Start(i) + Len(Words(i)) <= Start(k)
<1> DEFINE n == Len(program)
           Bad == {m \in 1 .. n + 1 : i < m /\ ~(Start(i) + Len(Words(i)) <= Start(m))}
<1>1. /\ n \in Nat /\ \A m \in 1 .. n + 1 : Start(m) \in Nat
      /\ \A m \in 1 .. n : Start(m + 1) = Start(m) + Len(Words(m)) /\ Len(Words(m)) \in 1 .. 2
  BY LengthsAre, StartsAre
<1>2. ASSUME Bad # {} PROVE FALSE
  <2>1. Bad \subseteq Nat
    BY <1>1
  <2>2. PICK m \in Bad : \A j \in Bad : m <= j
    <3> HIDE DEF Bad
    <3> QED BY <1>2, <2>1, LeastMember
  <2>3. m - 1 \in 1 .. n /\ m - 1 \notin Bad
    BY <1>1, <2>2
  <2>4. Start(m) = Start(m - 1) + Len(Words(m - 1)) /\ Len(Words(m - 1)) \in 1 .. 2
    BY <1>1, <2>3
  <2>5. m - 1 # i
    BY <1>1, <2>2, <2>4
  <2> QED BY <1>1, <2>2, <2>3, <2>4, <2>5
<1> QED BY <1>1, <1>2

(* An address inside an instruction belongs to no other one. *)
LEMMA HalfwordIs ==
  ASSUME IsProgram(program), NEW i \in 1 .. Len(program), NEW k \in 1 .. Len(Words(i))
  PROVE  /\ Start(i) + k - 1 \in 1 .. End - 1
         /\ Halfword(Start(i) + k - 1) = Words(i)[k]
<1> DEFINE a == Start(i) + k - 1
           n == Len(program)
<1>1. /\ n \in Nat /\ DOMAIN program = 1 .. n
      /\ \A m \in 1 .. n + 1 : Start(m) \in Nat
      /\ \A m \in 1 .. n : Start(m + 1) = Start(m) + Len(Words(m)) /\ Len(Words(m)) \in 1 .. 2
  BY ProgramIs, LengthsAre, StartsAre
<1>0. /\ Start(i) \in Nat /\ Start(i + 1) \in Nat
      /\ Start(i + 1) = Start(i) + Len(Words(i)) /\ Len(Words(i)) \in 1 .. 2
  BY <1>1
<1>2. a \in Int /\ Start(i) <= a /\ a < Start(i + 1) /\ a - Start(i) + 1 = k
  BY <1>0
<1> HIDE DEF a
<1>3. \A m \in 1 .. n : Start(m) <= a /\ a < Start(m + 1) => m = i
  <2> SUFFICES ASSUME NEW m \in 1 .. n, Start(m) <= a, a < Start(m + 1), m # i PROVE FALSE
    OBVIOUS
  <2>1. CASE m < i
    <3>1. Start(m) + Len(Words(m)) <= Start(i)
      BY <1>1, <2>1, StartsGrow
    <3>2. Start(m + 1) = Start(m) + Len(Words(m)) /\ Start(m + 1) \in Nat
      BY <1>1
    <3> QED BY <1>0, <1>2, <3>1, <3>2
  <2>2. CASE i < m
    <3>1. Start(i) + Len(Words(i)) <= Start(m)
      BY <1>1, <2>2, StartsGrow
    <3> QED BY <1>1, <1>2, <3>1
  <2> QED BY <1>1, <2>1, <2>2
<1>4. Covering(a) = i
  BY <1>1, <1>2, <1>3 DEF Covering
<1>5. Start(i + 1) <= End
  <2>1. CASE i = n
    BY <1>1, <2>1 DEF End, Start
  <2>2. CASE i # n
    <3>1. n + 1 \in 1 .. n + 1 /\ i < n + 1
      BY <1>1
    <3>2. Start(i) + Len(Words(i)) <= Start(n + 1)
      BY <3>1, StartsGrow
    <3> QED BY <1>0, <3>2 DEF End, Start
  <2> QED BY <2>1, <2>2
<1>6. 1 <= Start(i)
  <2>1. CASE i = 1
    BY <2>1, StartsAre
  <2>2. CASE i # 1
    <3>1. Start(1) + Len(Words(1)) <= Start(i)
      BY <1>1, <2>2, StartsGrow
    <3> QED BY <1>1, <3>1, StartsAre
  <2> QED BY <2>1, <2>2
<1>7. End \in Nat
  BY <1>1 DEF End, Start
<1>8. a \in 1 .. End - 1
  BY <1>0, <1>2, <1>5, <1>6, <1>7
<1>9. Halfword(a) = program[i][2][a - Start(i) + 1]
  BY <1>4, <1>7, <1>8 DEF Halfword
<1> QED BY <1>2, <1>8, <1>9 DEF Words, a

-----------------------------------------------------------------------------
(* The invariant *)

(* Address a is where an instruction starts: the i-th of the program, or the second *)
(* of two halfwords put there as data.                                              *)
Starting(a, i) ==
  a = Start(i) \/ (a = Start(i) + 1 /\ TwoInstructions(Words(i)))

IInv ==
  /\ core \in Cores
  /\ program \in Programs(core)
  /\ pc = End \/ \E i \in 1 .. Len(program) : Starting(pc, i)
  /\ IF at = 0 THEN handler = "none"
     ELSE /\ \E i \in 1 .. Len(program) : Starting(at, i)
          /\ fields = DecodeAt(core, at)
          /\ handler = Handler(core, fields.type)

(* Memory is a function of the program, which never changes. *)
LEMMA SameMemory ==
  ASSUME UNCHANGED <<core, program>>
  PROVE  /\ End' = End
         /\ \A i : Start(i)' = Start(i) /\ Words(i)' = Words(i)
<1>1. Starts' = Starts
  BY DEF Starts
<1> QED BY <1>1 DEF End, Start, Words

LEMMA SameDecode ==
  ASSUME UNCHANGED <<core, program>>, at' = pc
  PROVE  DecodeAt(core, at)' = DecodeAt(core, pc)
  BY DEF DecodeAt, Halfword, Covering, Start, Starts, End

(* fetch_instruction tells a first halfword from its top five bits. *)
LEMMA Is32BitIsFirst ==
  ASSUME NEW hw \in 0 .. 2^16 - 1
  PROVE  Is32Bit(hw) <=> IsFirst(hw)
  BY DEF Is32Bit, IsFirst, Bits

LEMMA EndIs ==
  ASSUME IsProgram(program)
  PROVE  /\ End \in Nat /\ 1 <= End
         /\ Start(Len(program) + 1) = End
         /\ \A i \in 1 .. Len(program) : Start(i) \in 1 .. End - 1
<1>1. Len(program) \in Nat /\ Start(Len(program) + 1) = End /\ Start(1) = 1
  BY LengthsAre, StartsAre DEF End, Start
<1>2. End \in Nat
  BY <1>1, StartsAre
<1>3. ASSUME NEW i \in 1 .. Len(program) PROVE Start(i) \in 1 .. End - 1
  <2>1. 1 \in 1 .. Len(Words(i))
    BY LengthsAre
  <2>2. Start(i) + 1 - 1 \in 1 .. End - 1
    BY <2>1, HalfwordIs
  <2>3. Start(i) \in Nat
    BY <1>1, StartsAre
  <2> QED BY <2>2, <2>3
<1>4. 1 <= End
  <2>1. CASE Len(program) = 0
    BY <1>1, <2>1
  <2>2. CASE Len(program) # 0
    <3>1. Start(1) \in 1 .. End - 1
      BY <1>1, <1>3, <2>2
    <3> QED BY <1>2, <3>1
  <2> QED BY <2>1, <2>2
<1> QED BY <1>1, <1>2, <1>3, <1>4

(* What starts at a has its halfwords there, and the next instruction follows it. *)
LEMMA FetchIs ==
  ASSUME IsProgram(program), NEW i \in 1 .. Len(program), NEW a, Starting(a, i)
  PROVE  /\ a \in 1 .. End - 1
         /\ Advance(a) = End \/ \E k \in 1 .. Len(program) : Starting(Advance(a), k)
         /\ OneInstruction(Words(i)) =>
              /\ a = Start(i)
              /\ Halfword(a) = Words(i)[1]
              /\ Is32Bit(Halfword(a)) <=> Len(Words(i)) = 2
              /\ Len(Words(i)) = 2 => Halfword(a + 1) = Words(i)[2]
<1>1. /\ Words(i) \in Seq(0 .. 2^16 - 1)
      /\ OneInstruction(Words(i)) \/ TwoInstructions(Words(i))
  BY ProgramIs
<1>2. /\ Len(Words(i)) \in 1 .. 2
      /\ Len(program) \in Nat /\ Start(i) \in Nat /\ End \in Nat
      /\ Start(i + 1) = Start(i) + Len(Words(i))
      /\ Start(Len(program) + 1) = End
  BY LengthsAre, StartsAre, EndIs
<1>3. \A k \in 1 .. Len(Words(i)) :
        /\ Start(i) + k - 1 \in 1 .. End - 1
        /\ Halfword(Start(i) + k - 1) = Words(i)[k]
        /\ Is32Bit(Words(i)[k]) <=> IsFirst(Words(i)[k])
  <2> TAKE k \in 1 .. Len(Words(i))
  <2>1. Words(i)[k] \in 0 .. 2^16 - 1
    BY <1>1, ElementOf
  <2> QED BY <2>1, HalfwordIs, Is32BitIsFirst
<1>4. /\ Start(i) \in 1 .. End - 1
      /\ Halfword(Start(i)) = Words(i)[1]
      /\ Is32Bit(Words(i)[1]) <=> IsFirst(Words(i)[1])
  <2>1. 1 \in 1 .. Len(Words(i))
    BY LengthsAre
  <2>2. Start(i) + 1 - 1 = Start(i)
    BY <1>2
  <2> QED BY <1>3, <2>1, <2>2
<1>5. Len(Words(i)) = 2 =>
        /\ Start(i) + 1 \in 1 .. End - 1
        /\ Halfword(Start(i) + 1) = Words(i)[2]
        /\ Is32Bit(Words(i)[2]) <=> IsFirst(Words(i)[2])
  <2>1. Len(Words(i)) = 2 => 2 \in 1 .. Len(Words(i)) /\ Start(i) + 2 - 1 = Start(i) + 1
    BY <1>2
  <2> QED BY <1>3, <2>1
<1>6. Start(i + 1) = End \/ \E k \in 1 .. Len(program) : Starting(Start(i + 1), k)
  <2>1. i = Len(program) \/ i + 1 \in 1 .. Len(program)
    BY <1>2
  <2> QED BY <1>2, <2>1 DEF Starting
<1>7. CASE OneInstruction(Words(i))
  <2>1. ~TwoInstructions(Words(i))
    BY <1>7 DEF OneInstruction, TwoInstructions
  <2>2. a = Start(i)
    BY <2>1 DEF Starting
  <2>3. Advance(a) = Start(i + 1)
    BY <1>2, <1>4, <1>7, <2>2 DEF Advance, OneInstruction
  <2>4. Is32Bit(Halfword(a)) <=> Len(Words(i)) = 2
    BY <1>4, <1>7, <2>2 DEF OneInstruction
  <2> QED BY <1>4, <1>5, <1>6, <2>2, <2>3, <2>4
<1>8. CASE TwoInstructions(Words(i))
  <2>1. ~OneInstruction(Words(i)) /\ Len(Words(i)) = 2
    BY <1>8 DEF OneInstruction, TwoInstructions
  <2>2. CASE a = Start(i)
    <3>1. Advance(a) = Start(i) + 1
      BY <1>4, <1>8, <2>2 DEF Advance, TwoInstructions
    <3> QED BY <1>4, <1>8, <2>1, <2>2, <3>1 DEF Starting
  <2>3. CASE a = Start(i) + 1
    <3>1. Advance(a) = Start(i + 1)
      BY <1>2, <1>5, <1>8, <2>1, <2>3 DEF Advance, TwoInstructions
    <3> QED BY <1>5, <1>6, <2>1, <2>3, <3>1
  <2> QED BY <2>2, <2>3 DEF Starting
<1> QED BY <1>1, <1>7, <1>8

-----------------------------------------------------------------------------
LEMMA InitInv == Init => IInv
<1> SUFFICES ASSUME Init PROVE IInv
  OBVIOUS
<1>1. core \in Cores /\ program \in Programs(core) /\ IsProgram(program)
  BY ProgramsAssumption DEF Init
<1>2. Len(program) \in Nat /\ Start(1) = 1 /\ Start(Len(program) + 1) = End
  BY <1>1, LengthsAre, StartsAre, EndIs
<1>3. pc = End \/ \E i \in 1 .. Len(program) : Starting(pc, i)
  <2>1. CASE Len(program) = 0
    BY <1>2, <2>1 DEF Init
  <2>2. CASE Len(program) # 0
    BY <1>2, <2>2 DEF Init, Starting
  <2> QED BY <2>1, <2>2
<1> QED BY <1>1, <1>3 DEF Init, IInv

LEMMA CycleInv == IInv /\ Cycle => IInv'
<1> SUFFICES ASSUME IInv, Cycle PROVE IInv'
  OBVIOUS
<1>1. IsProgram(program) /\ UNCHANGED <<core, program>>
  BY ProgramsAssumption DEF IInv, Cycle
<1>2. core' \in Cores /\ program' \in Programs(core')
  BY <1>1 DEF IInv
<1>3. PICK i \in 1 .. Len(program) : Starting(pc, i)
  <2>1. End \in Nat /\ pc < End
    BY <1>1, EndIs DEF Cycle
  <2> QED BY <2>1 DEF IInv
<1>4. End' = End /\ \A k : Start(k)' = Start(k) /\ Words(k)' = Words(k)
  BY <1>1, SameMemory
<1>5. ASSUME NEW a, NEW k \in 1 .. Len(program), Starting(a, k)
      PROVE  Starting(a, k)'
  BY <1>4, <1>5 DEF Starting
<1>6. pc' = End' \/ \E k \in 1 .. Len(program') : Starting(pc, k)'
  <2>1. CASE pc' = Advance(pc)
    BY <1>1, <1>3, <1>4, <1>5, <2>1, FetchIs
  <2>2. CASE \E k \in DOMAIN program : pc' = Start(k)
    BY <1>1, <1>5, <2>2, ProgramIs DEF Starting
  <2> QED BY <2>1, <2>2 DEF Cycle
<1>7. DecodeAt(core, at)' = DecodeAt(core, pc)
  BY <1>1, SameDecode DEF Cycle
<1>8. /\ at' # 0
      /\ \E k \in 1 .. Len(program') : Starting(at, k)'
      /\ fields' = DecodeAt(core, at)'
      /\ handler' = Handler(core, fields.type)'
  <2>1. at' = pc /\ pc \in 1 .. End - 1
    BY <1>1, <1>3, FetchIs DEF Cycle
  <2>2. at' # 0
    BY <1>1, <2>1, EndIs
  <2>3. \E k \in 1 .. Len(program') : Starting(at, k)'
    BY <1>1, <1>3, <1>5, <2>1
  <2>4. fields' = DecodeAt(core, at)'
    BY <1>7 DEF Cycle
  <2>5. handler' = Handler(core, fields.type)'
    BY <1>1 DEF Cycle, Handler
  <2> QED BY <2>2, <2>3, <2>4, <2>5
<1> QED BY <1>2, <1>6, <1>8 DEF IInv

LEMMA StutterInv == IInv /\ UNCHANGED vars => IInv'
<1> SUFFICES ASSUME IInv, UNCHANGED vars PROVE IInv'
  OBVIOUS
<1>1. UNCHANGED <<core, program, pc, at, fields, handler>>
  BY DEF vars
<1>2. DecodeAt(core, at)' = DecodeAt(core, at)
  BY <1>1 DEF DecodeAt, Halfword, Covering, Start, Starts, End
<1>3. Handler(core, fields.type)' = Handler(core, fields.type)
  BY <1>1
<1>4. End' = End /\ \A k : Start(k)' = Start(k) /\ Words(k)' = Words(k)
  BY <1>1, SameMemory
<1>5. \A a, k : Starting(a, k)' <=> Starting(a, k)
  BY <1>4 DEF Starting
<1> QED BY <1>1, <1>2, <1>3, <1>4, <1>5 DEF IInv

(***************************************************************************)
(* For every set of cores and programs: each iteration of cpu_thread       *)
(* fetches from where an instruction starts, whatever ran before it and    *)
(* wherever a branch came from, and its fields are what decode makes of    *)
(* the word there.                                                         *)
(***************************************************************************)
THEOREM StreamInvariant == Spec => []IInv
<1>1. IInv /\ [Next]_vars => IInv'
  BY CycleInv, StutterInv DEF Next
<1> QED BY InitInv, <1>1, PTL DEF Spec

(* PC stays in the program or right behind it, whatever branches are taken; what is *)
(* executed is a handler of the core.                                               *)
THEOREM PipelineTypeOK == Spec => []TypeOK
<1>1. IInv => TypeOK
  <2> SUFFICES ASSUME IInv PROVE TypeOK
    OBVIOUS
  <2>1. IsProgram(program)
    BY ProgramsAssumption DEF IInv
  <2>2. End \in Nat /\ 1 <= End
    BY <2>1, EndIs
  <2>3. \A a : \A i \in 1 .. Len(program) : Starting(a, i) => a \in 1 .. End - 1
    BY <2>1, FetchIs
  <2>4. pc \in 1 .. End
    BY <2>2, <2>3 DEF IInv
  <2>5. at \in 0 .. End - 1
    BY <2>2, <2>3 DEF IInv
  <2>6. handler \in {"none"} \cup {h[1] : h \in CoreHandlers(core)}
    <3>1. \A type : Handler(core, type) \in {"none"} \cup {h[1] : h \in CoreHandlers(core)}
      <4> TAKE type
      <4> DEFINE found == {h \in CoreHandlers(core) : type \in h[2]}
      <4>1. CASE found = {}
        BY <4>1 DEF Handler
      <4>2. CASE found # {}
        <5>1. (CHOOSE h \in found : TRUE) \in found
          BY <4>2
        <5>2. Handler(core, type) = (CHOOSE h \in found : TRUE)[1]
          BY <4>2 DEF Handler
        <5> QED BY <5>1, <5>2
      <4> QED BY <4>1, <4>2
    <3> QED BY <3>1 DEF IInv
  <2> QED BY <2>4, <2>5, <2>6 DEF IInv, TypeOK
<1> QED BY <1>1, StreamInvariant, PTL

(* Later cores have all that an earlier one has, and decode it alike. *)
LEMMA LaterHasMore ==
  ASSUME NEW c, NEW d \in Later(c)
  PROVE  UpTo(c, d)
<1>1. c \in {"M0", "M0_PLUS", "M3"}
  BY DEF Later
<1>2. CASE c \in {"M0", "M0_PLUS"}
  BY <1>2 DEF UpTo, SupportsV7, SupportsV7E
<1>3. CASE c = "M3"
  <2>1. d = "M4"
    BY <1>3 DEF Later
  <2> QED BY <1>3, <2>1 DEF UpTo, SupportsV7, SupportsV7E
<1> QED BY <1>1, <1>2, <1>3

(***************************************************************************)
(* Cores are upward compatible, for every word: outside the space of CBZ   *)
(* and CBNZ, what one core decodes to an instruction every later one       *)
(* decodes to the same fields.                                             *)
(***************************************************************************)
THEOREM CoresAgreeCorrect == Spec => []CoresAgree
<1>1. ASSUME NEW c, NEW d, NEW a, UpTo(c, d), ~CompareBranchSpace(Halfword(a))
      PROVE  Agree(DecodeAt(c, a), DecodeAt(d, a))
  <2>1. CASE Is32Bit(Halfword(a))
    BY <1>1, <2>1, Decode32Agrees DEF DecodeAt
  <2>2. CASE ~Is32Bit(Halfword(a))
    BY <1>1, <2>2, Decode16Agrees DEF DecodeAt
  <2> QED BY <2>1, <2>2
<1>2. IInv => CoresAgree
  BY <1>1, LaterHasMore DEF IInv, CoresAgree, Agree
<1> QED BY <1>2, StreamInvariant, PTL

(* What decode makes of the halfwords of an instruction by themselves. *)
DecodeWords(c, words) ==
  IF Len(words) = 2 THEN Decode32(c, words[1], words[2]) ELSE Decode16(c, words[1])

AllAssembled == \A i \in DOMAIN program : program[i][1] # Data

(* In a program without data, cpu_thread decodes exactly the halfwords of an        *)
(* instruction, never the second of one or those of two.                            *)
ReadWhole ==
  at # 0 /\ AllAssembled
    => \E i \in DOMAIN program : at = Start(i) /\ fields = DecodeWords(core, Words(i))

LEMMA InvReadsWhole == IInv => ReadWhole
<1> SUFFICES ASSUME IInv, at # 0, AllAssembled
             PROVE  \E i \in DOMAIN program : at = Start(i) /\ fields = DecodeWords(core, Words(i))
  BY DEF ReadWhole
<1>1. IsProgram(program)
  BY ProgramsAssumption DEF IInv
<1>2. DOMAIN program = 1 .. Len(program)
  BY <1>1, ProgramIs
<1>3. PICK i \in 1 .. Len(program) : Starting(at, i)
  BY DEF IInv
<1>4. OneInstruction(Words(i))
  BY <1>1, <1>2, ProgramIs DEF AllAssembled
<1>5. /\ at = Start(i)
      /\ Halfword(at) = Words(i)[1]
      /\ Is32Bit(Halfword(at)) <=> Len(Words(i)) = 2
      /\ Len(Words(i)) = 2 => Halfword(at + 1) = Words(i)[2]
  BY <1>1, <1>3, <1>4, FetchIs
<1>6. fields = DecodeAt(core, at)
  BY DEF IInv
<1>7. DecodeAt(core, at) = DecodeWords(core, Words(i))
  BY <1>5 DEF DecodeAt, DecodeWords
<1> QED BY <1>2, <1>5, <1>6, <1>7

THEOREM ReadWholeCorrect == Spec => []ReadWhole
  BY InvReadsWhole, StreamInvariant, PTL

(***************************************************************************)
(* If decode, given the halfwords of an instruction alone, returns what    *)
(* they were assembled from, then so does every iteration of cpu_thread in *)
(* every program made of such instructions.                                *)
(***************************************************************************)
Assembled ==
  \A c \in Cores : \A p \in Programs(c) : \A i \in DOMAIN p :
    p[i][1] # Data => DecodeWords(c, p[i][2]) = p[i][1]

THEOREM DecodedAsAssembledCorrect ==
  ASSUME Assembled
  PROVE  Spec => []DecodedAsAssembled
<1>1. IInv /\ ReadWhole => DecodedAsAssembled
  BY DEF IInv, ReadWhole, AllAssembled, DecodedAsAssembled, Assembled, Words
<1> QED BY <1>1, StreamInvariant, ReadWholeCorrect, PTL

-----------------------------------------------------------------------------
(* What is fetched are halfwords. *)
LEMMA HalfwordsAre ==
  ASSUME IsProgram(program), NEW i \in 1 .. Len(program), NEW a, Starting(a, i)
  PROVE  Halfword(a) \in Nat /\ (Is32Bit(Halfword(a)) => Halfword(a + 1) \in Nat)
<1>1. /\ Words(i) \in Seq(0 .. 2^16 - 1) /\ Len(Words(i)) \in 1 .. 2
      /\ OneInstruction(Words(i)) \/ TwoInstructions(Words(i))
  BY ProgramIs
<1>2. \A k \in 1 .. Len(Words(i)) : Words(i)[k] \in Nat /\ (Is32Bit(Words(i)[k]) <=> IsFirst(Words(i)[k]))
  <2> TAKE k \in 1 .. Len(Words(i))
  <2>1. Words(i)[k] \in 0 .. 2^16 - 1
    BY <1>1, ElementOf
  <2>2. Words(i)[k] \in Nat
    BY <2>1
  <2>3. Is32Bit(Words(i)[k]) <=> IsFirst(Words(i)[k])
    BY <2>1, Is32BitIsFirst
  <2> QED BY <2>2, <2>3
<1>3. CASE OneInstruction(Words(i))
  <2>1. /\ Halfword(a) = Words(i)[1]
        /\ Is32Bit(Halfword(a)) <=> Len(Words(i)) = 2
        /\ Len(Words(i)) = 2 => Halfword(a + 1) = Words(i)[2]
    BY <1>3, FetchIs
  <2>2. Words(i)[1] \in Nat
    <3>1. 1 \in 1 .. Len(Words(i))
      BY LengthsAre
    <3> QED BY <1>2, <3>1
  <2>3. Len(Words(i)) = 2 => Words(i)[2] \in Nat
    <3>1. Len(Words(i)) = 2 => 2 \in 1 .. Len(Words(i))
      OBVIOUS
    <3> QED BY <1>2, <3>1
  <2> QED BY <2>1, <2>2, <2>3
<1>4. CASE TwoInstructions(Words(i))
  <2>1. \E k \in 1 .. 2 : Halfword(a) = Words(i)[k]
    <3>1. Start(i) \in Nat /\ Len(Words(i)) = 2
      BY <1>4, StartsAre DEF TwoInstructions
    <3>2. \A k \in 1 .. 2 : Halfword(Start(i) + k - 1) = Words(i)[k]
      BY <3>1, HalfwordIs
    <3>3. CASE a = Start(i)
      BY <3>1, <3>2, <3>3
    <3>4. CASE a = Start(i) + 1
      BY <3>1, <3>2, <3>4
    <3> QED BY <3>3, <3>4 DEF Starting
  <2> QED BY <1>2, <1>4, <2>1 DEF TwoInstructions
<1> QED BY <1>1, <1>3, <1>4

(* The default of the dispatch is for the types in Ignored. *)
OnlyIgnored == at # 0 => (handler = "none" <=> fields.type \in Ignored)

LEMMA InvIgnores == IInv => OnlyIgnored
<1> SUFFICES ASSUME IInv, at # 0
             PROVE  handler = "none" <=> fields.type \in Ignored
  BY DEF OnlyIgnored
<1>1. IsProgram(program) /\ core \in AllCores
  BY ProgramsAssumption, CoresAssumption DEF IInv
<1>2. PICK i \in 1 .. Len(program) : Starting(at, i)
  BY DEF IInv
<1>3. Known(core, fields.type)
  <2>1. Halfword(at) \in Nat /\ (Is32Bit(Halfword(at)) => Halfword(at + 1) \in Nat)
    BY <1>1, <1>2, HalfwordsAre
  <2>2. fields = DecodeAt(core, at)
    BY DEF IInv
  <2> QED BY <2>1, <2>2, Decode16Known, Decode32Known DEF DecodeAt
<1> DEFINE found == {h \in CoreHandlers(core) : fields.type \in h[2]}
<1>4. handler = IF found = {} THEN "none" ELSE (CHOOSE h \in found : TRUE)[1]
  BY DEF IInv, Handler
<1>5. CASE Handled(core, fields.type)
  <2>1. found # {}
    BY <1>5 DEF Handled
  <2>2. (CHOOSE h \in found : TRUE) \in found
    BY <2>1
  <2>3. \A h \in found : h[1] # "none" /\ fields.type \notin Ignored
    BY <1>1, IgnoredAssumption
  <2> HIDE DEF found
  <2> QED BY <1>4, <2>1, <2>2, <2>3
<1>6. CASE ~Handled(core, fields.type)
  BY <1>3, <1>4, <1>6 DEF Handled, Known
<1> QED BY <1>5, <1>6

(***************************************************************************)
(* For all halfwords, whatever the program: an instruction is left out of  *)
(* the dispatch exactly if decode gives it one of the types in Ignored.    *)
(***************************************************************************)
THEOREM OnlyIgnoredCorrect == Spec => []OnlyIgnored
  BY InvIgnores, StreamInvariant, PTL

(***************************************************************************)
(* If decode, given the halfwords of an instruction alone, never returns   *)
(* an ignored type other than the signed loads with write-back, then no    *)
(* other instruction of a program falls into the default, wherever it      *)
(* stands and whatever data stands between.                                *)
(***************************************************************************)
Executable ==
  \A c \in Cores : \A p \in Programs(c) : \A i \in DOMAIN p :
    p[i][1] # Data => DecodeWords(c, p[i][2]).type \notin Ignored \ Unhandled

THEOREM AssembledIsHandledCorrect ==
  ASSUME Executable
  PROVE  Spec => []AssembledIsHandled
<1>1. ASSUME IInv, OnlyIgnored PROVE AssembledIsHandled
  <2> SUFFICES ASSUME at # 0, NEW i \in DOMAIN program, at = Start(i), program[i][1] # Data, handler = "none"
               PROVE  fields.type \in Unhandled
    BY <1>1 DEF AssembledIsHandled, OnlyIgnored
  <2>1. IsProgram(program) /\ core \in Cores /\ program \in Programs(core)
    BY <1>1, ProgramsAssumption DEF IInv
  <2>2. i \in 1 .. Len(program) /\ OneInstruction(Words(i)) /\ Starting(at, i)
    BY <2>1, ProgramIs DEF Starting
  <2>3. /\ Halfword(at) = Words(i)[1]
        /\ Is32Bit(Halfword(at)) <=> Len(Words(i)) = 2
        /\ Len(Words(i)) = 2 => Halfword(at + 1) = Words(i)[2]
    BY <2>1, <2>2, FetchIs
  <2>4. fields = DecodeWords(core, Words(i))
    BY <1>1, <2>3 DEF IInv, DecodeAt, DecodeWords
  <2>5. fields.type \notin Ignored \ Unhandled
    BY <2>1, <2>4 DEF Executable, Words
  <2>6. fields.type \in Ignored
    BY <1>1 DEF OnlyIgnored
  <2> QED BY <2>5, <2>6
<1> QED BY <1>1, OnlyIgnoredCorrect, StreamInvariant, PTL
=============================================================================
