------------------------------ MODULE Dispatch ------------------------------
(***************************************************************************)
(* The dispatch of execute_instruction: which member function a decoded    *)
(* instruction is handed to, by its type, on each core.                    *)
(***************************************************************************)
EXTENDS Decode

Suffixed(names, suffix) == {"T32_" \o n \o suffix : n \in names}

BranchTypes == {"B_COND", "B", "BX", "T32_B", "T32_B_COND", "T32_BL"}
DataProcessingTypes ==
  {"LSL_IMM", "LSR_IMM", "ASR_IMM", "ADD_REG", "SUB_REG", "ADD_IMM3", "SUB_IMM3", "MOV_IMM", "CMP_IMM",
   "ADD_IMM8", "SUB_IMM8", "ADD_HI", "CMP_HI", "MOV_HI", "ADD_SP_IMM7", "SUB_SP_IMM7", "ADD_PC", "ADD_SP"}
    \cup {AluTable[i] : i \in DOMAIN AluTable}
LoadStoreTypes ==
  {"LDR_PC", "STR_IMM", "LDR_IMM", "STRB_IMM", "LDRB_IMM", "STRH_IMM", "LDRH_IMM", "STR_SP", "LDR_SP"}
    \cup {LoadStoreTable[i] : i \in DOMAIN LoadStoreTable}

V6Handlers ==
  {<<"execute_data_processing", DataProcessingTypes>>,
   <<"execute_load_store", LoadStoreTypes>>,
   <<"execute_extend", {"EXTEND"}>>,
   <<"execute_rev", {"REV", "REV16", "REVSH"}>>,
   <<"execute_cps", {"CPS"}>>,
   <<"execute_load_store_multiple", {"STMIA", "LDMIA", "PUSH", "POP"}>>,
   <<"execute_miscellaneous", {"BKPT"}>>,
   <<"execute_exception", {"SVC"}>>,
   <<"execute_memory_barrier", {"T32_DSB", "T32_DMB", "T32_ISB"}>>,
   <<"execute_msr", {"T32_MSR"}>>,
   <<"execute_mrs", {"T32_MRS"}>>}

(* T32 operations with a modified immediate or a shifted register. *)
Operations32  == {"MOV", "MVN", "ADD", "SUB", "ADC", "SBC", "RSB", "AND", "ORR", "EOR", "BIC", "ORN", "CMP", "CMN", "TST", "TEQ"}
ImmediateTypes == Suffixed(Operations32, "_IMM") \cup {"T32_ADDW", "T32_SUBW", "T32_MOVW", "T32_MOVT"}
RegisterTypes  == Suffixed(Operations32, "_REG")
ParallelTypes  == {"T32_" \o ParallelPrefixes[p] \o ParallelNames[n] :
                     p \in DOMAIN ParallelPrefixes, n \in DOMAIN ParallelNames}

LoadStore32Types ==
  Suffixed({"LDR", "LDRB", "LDRH", "LDRSB", "LDRSH", "STR", "STRB", "STRH"}, "_IMM")
    \cup Suffixed({"LDR", "LDRB", "LDRH", "LDRSB", "LDRSH", "STR", "STRB", "STRH"}, "_REG")
    \cup Suffixed({"LDR", "LDRB", "LDRH", "STR", "STRB", "STRH"}, "_PRE_POST")
    \cup {"T32_LDR_LIT", "T32_LDRT"}

V7Handlers ==
  {<<"execute_cbz_cbnz", {"CBZ", "CBNZ"}>>,
   <<"execute_it", {"IT"}>>,
   <<"execute_extended_hint", {"NOP", "WFI", "WFE", "SEV", "YIELD"}>>,
   <<"execute_table_branch", {"T32_TBB", "T32_TBH"}>>,
   <<"no operation", {"T32_NOP"}>>,
   <<"execute_clrex", {"T32_CLREX"}>>,
   <<"execute_t32_shift_register", Suffixed({"LSL", "LSR", "ASR", "ROR"}, "_REG") \cup Suffixed({"LSL", "LSR", "ASR", "ROR"}, "S_REG")>>,
   <<"execute_t32_load_store", LoadStore32Types>>,
   <<"execute_t32_dual_load_store", {"T32_LDRD", "T32_STRD"}>>,
   <<"execute_t32_multiple_load_store", {"T32_LDMIA", "T32_LDMDB", "T32_STMIA", "T32_STMDB"}>>,
   <<"execute_exclusive_load", {"T32_LDREX", "T32_LDREXB", "T32_LDREXH"}>>,
   <<"execute_exclusive_store", {"T32_STREX", "T32_STREXB", "T32_STREXH"}>>,
   <<"execute_divide", {"T32_UDIV", "T32_SDIV"}>>,
   <<"execute_mul", {"T32_MUL"}>>, <<"execute_mla", {"T32_MLA"}>>, <<"execute_mls", {"T32_MLS"}>>,
   <<"execute_long_multiply", {"T32_UMULL", "T32_SMULL", "T32_UMLAL", "T32_SMLAL"}>>,
   <<"execute_bitfield", {"T32_BFI", "T32_BFC", "T32_UBFX", "T32_SBFX"}>>,
   <<"execute_extend", {"T32_SXTH", "T32_SXTB", "T32_UXTH", "T32_UXTB"}>>,
   <<"execute_saturate", {"T32_SSAT", "T32_USAT"}>>,
   <<"execute_bit_manipulation", {"T32_CLZ", "T32_RBIT", "T32_REV", "T32_REV16", "T32_REVSH"}>>}

(* On a core with DSP extensions the cases of the register forms run into those *)
(* of the parallel additions.                                                   *)
CoreHandlers(c) ==
  V6Handlers
    \cup {<<"execute_branch", BranchTypes \cup IF SupportsV7(c) THEN {"BLX"} ELSE {}>>}
    \cup (IF ~SupportsV7(c) THEN {}
          ELSE V7Handlers \cup
               IF SupportsV7E(c)
               THEN {<<"execute_t32_data_processing", ImmediateTypes>>,
                     <<"execute_parallel_addsub", RegisterTypes \cup ParallelTypes>>}
               ELSE {<<"execute_t32_data_processing", ImmediateTypes \cup RegisterTypes>>})

(* Mutant: the case of RSB is missing. *)
HandlerNoRsb(c, type) ==
  LET found == {h \in CoreHandlers(c) : type \in h[2] \ {"T32_RSB_IMM"}}
  IN  IF found = {} THEN "none" ELSE (CHOOSE h \in found : TRUE)[1]

Handler(c, type) ==
  LET found == {h \in CoreHandlers(c) : type \in h[2]}
  IN  IF found = {} THEN "none" ELSE (CHOOSE h \in found : TRUE)[1]

Joined(names, forms) == {n \o form : n \in names, form \in forms}

(* Types that decode produces and execute_instruction has no case for, on any *)
(* core: the default logs a warning and goes on.                              *)
Preloads     == Joined({"T32_PLD", "T32_PLI"}, {"_IMM", "_REG", "_LIT"})
LiteralLoads == Joined(Joined({"T32_LDR", "T32_LDRS"}, {"B", "H"}), {"_LIT"})
Unhandled    == Suffixed({"LDRSB", "LDRSH"}, "_PRE_POST")     \* with write-back
DspTypes ==
  {"SXTB16", "UXTB16", "QADD", "QDADD", "QSUB", "QDSUB", "SEL", "SMLALBB", "SMLALD", "SMLSLD", "UMAAL"}
    \cup {AddExtendNames[i] : i \in DOMAIN AddExtendNames}
    \cup UNION {{DspMultiplyNames[i][1], DspMultiplyNames[i][2]} : i \in DOMAIN DspMultiplyNames}

Ignored ==
  {"UNKNOWN", "UNDEFINED", "T32_STC", "T32_LDC", "T32_LDC_LIT", "T32_CDP", "T32_MRC", "T32_MCR", "T32_SYSTEM_CP",
   "T32_SEV", "T32_SEVL", "T32_WFE", "T32_PKHBT", "T32_PKHTB", "T32_SSAT16", "T32_USAT16"}
    \cup Preloads \cup LiteralLoads \cup Unhandled \cup {"T32_" \o n : n \in DspTypes}

ASSUME IgnoredAssumption == \A c \in AllCores : \A h \in CoreHandlers(c) : h[1] # "none" /\ h[2] \cap Ignored = {}

(* Names that decode joins from parts, as the dispatch spells them. *)
ASSUME SpellingAssumption ==
  /\ {"T32_" \o n : n \in {"MUL", "MLA", "MLS", "SMULL", "UMULL", "SMLAL", "UMLAL", "SDIV", "UDIV", "REV", "REV16", "REVSH",
                        "RBIT", "CLZ", "SXTH", "UXTH", "SXTB", "UXTB"}}
       = {"T32_MUL", "T32_MLA", "T32_MLS", "T32_SMULL", "T32_UMULL", "T32_SMLAL", "T32_UMLAL", "T32_SDIV", "T32_UDIV",
          "T32_REV", "T32_REV16", "T32_REVSH", "T32_RBIT", "T32_CLZ", "T32_SXTH", "T32_UXTH", "T32_SXTB", "T32_UXTB"}
  /\ \A form \in {<<"_IMM", "T32_LDR_IMM">>, <<"_REG", "T32_LDR_REG">>, <<"_PRE_POST", "T32_LDR_PRE_POST">>} :
       "T32_" \o "LDR" \o form[1] = form[2]
  /\ \A unit \in {"B", "H"} : /\ "T32_LDR" \o "" \o unit = "T32_" \o ("LDR" \o unit)
                              /\ "T32_LDR" \o "S" \o unit = "T32_" \o ("LDRS" \o unit)
  /\ "LDR" \o "B" = "LDRB" /\ "LDR" \o "H" = "LDRH" /\ "LDRS" \o "B" = "LDRSB" /\ "LDRS" \o "H" = "LDRSH"
  /\ \A n \in {"LSL", "LSR", "ASR", "ROR"} : \A form \in {"_REG", "S_REG"} : "T32_" \o (n \o form) = "T32_" \o n \o form
  /\ \A p \in DOMAIN ParallelPrefixes : \A n \in DOMAIN ParallelNames :
       "T32_" \o (ParallelPrefixes[p] \o ParallelNames[n]) = "T32_" \o ParallelPrefixes[p] \o ParallelNames[n]
  /\ \A n \in DOMAIN CompareNames : CompareNames[n] \in Operations32
  /\ \A k \in DOMAIN SaturatingAndBits :
       SaturatingAndBits[k] \in {"QADD", "QDADD", "QSUB", "QDSUB", "REV", "REV16", "RBIT", "REVSH", "SEL", "CLZ"}

=============================================================================
