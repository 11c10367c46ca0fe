------------------------------ MODULE Pipeline ------------------------------
(***************************************************************************)
(* One iteration of cpu_thread per step, as far as the instruction stream  *)
(* goes: the word at PC is fetched, its first halfword decides its length, *)
(* it is decoded, execute_instruction picks a handler by its type, and PC  *)
(* moves by the length or where a branch goes.  What handlers compute is   *)
(* in Execute; exceptions and the debugger are in CPU and DebugControl.    *)
(*                                                                         *)
(* A program is a sequence of pairs <<instruction, halfwords>> of Thumb;   *)
(* its instruction Data stands for halfwords that nobody assembled.  An    *)
(* address counts halfwords, from 1.                                       *)
(***************************************************************************)
EXTENDS Dispatch

T == INSTANCE Thumb

CONSTANTS
    Cores,             \* cores the simulator was built for
    Programs(_)        \* core -> programs in its memory

ASSUME CoresAssumption == Cores \subseteq AllCores /\ Cores # {}

Data == [type |-> "DATA"]

(* The first halfword of a 32-bit instruction has 11101, 11110 or 11111 on top. *)
IsFirst(hw) == hw >= 59392

OneInstruction(words) == Len(words) = IF IsFirst(words[1]) THEN 2 ELSE 1
TwoInstructions(words) == Len(words) = 2 /\ ~IsFirst(words[1]) /\ ~IsFirst(words[2])

(* A program ends where an instruction does. *)
IsProgram(p) ==
  /\ p \in Seq({p[i] : i \in DOMAIN p})
  /\ \A i \in DOMAIN p :
       /\ p[i][2] \in Seq(0 .. 2^16 - 1)
       /\ OneInstruction(p[i][2]) \/ (p[i][1] = Data /\ TwoInstructions(p[i][2]))

ASSUME ProgramsAssumption == \A c \in Cores : \A p \in Programs(c) : IsProgram(p)

VARIABLES
    core,
    program,
    pc,        \* address of the next fetch
    at,        \* address the last instruction was fetched from, 0 at reset
    fields,    \* what it was decoded to
    handler    \* the member function that executed it

vars == <<core, program, pc, at, fields, handler>>

-----------------------------------------------------------------------------
(* Memory as fetch_instruction sees it; zeros follow the program. *)

(* Where each instruction starts; the last entry is the address behind the program. *)
Starts ==
  LET f[i \in 1 .. Len(program) + 1] ==
        IF i = 1 THEN 1 ELSE f[i - 1] + Len(program[i - 1][2])
  IN  f

Start(i) == Starts[i]
End == Starts[Len(program) + 1]

(* The instruction that covers address a, and the halfword at a. *)
Covering(a) == CHOOSE i \in DOMAIN program : Start(i) <= a /\ a < Start(i + 1)
Halfword(a) == IF a < End THEN program[Covering(a)][2][a - Start(Covering(a)) + 1] ELSE 0

(* is_32bit_instruction and decode *)
DecodeAt(c, a) ==
  IF Is32Bit(Halfword(a)) THEN Decode32(c, Halfword(a), Halfword(a + 1))
                          ELSE Decode16(c, Halfword(a))

-----------------------------------------------------------------------------
Init ==
  /\ core \in Cores
  /\ program \in Programs(core)
  /\ pc = 1
  /\ at = 0
  /\ fields = Unknown
  /\ handler = "none"

(* Instructions whose handler may report that it wrote PC. A program branches to *)
(* its own instructions.                                                         *)
MayBranch(f) ==
  \/ f.type \in BranchTypes \cup {"BLX", "CBZ", "CBNZ", "T32_TBB", "T32_TBH"}
  \/ f.type \in {"POP", "T32_LDMIA", "T32_LDMDB"} /\ 15 \in f.list
  \/ f.type \in LoadStore32Types /\ f.rd = 15

Advance(a) == a + (IF Is32Bit(Halfword(a)) THEN 2 ELSE 1)

Cycle ==
  /\ pc < End
  /\ fields' = DecodeAt(core, pc)
  /\ handler' = Handler(core, fields'.type)
  /\ at' = pc
  /\ \/ pc' = Advance(pc)
     \/ /\ MayBranch(fields')
        /\ handler' # "none"
        /\ \E i \in DOMAIN program : pc' = Start(i)
  /\ UNCHANGED <<core, program>>

Next == Cycle

Spec == Init /\ [][Next]_vars

-----------------------------------------------------------------------------
(* PC is in the program or right behind it; a handler is one of execute_instruction's. *)
TypeOK ==
  /\ core \in Cores
  /\ pc \in 1 .. End
  /\ at \in 0 .. End - 1
  /\ handler \in {"none"} \cup {h[1] : h \in CoreHandlers(core)}

(***************************************************************************)
(* The stream stays in step and nothing is misread: a core that knows the  *)
(* instructions of the program takes each from the address where it was    *)
(* put, whatever precedes it and wherever a branch came from, and decodes  *)
(* it to the operation, registers, immediate and flags it was assembled    *)
(* from.                                                                   *)
(***************************************************************************)
DecodedAsAssembled ==
  (at # 0 /\ \A i \in DOMAIN program : program[i][1] # Data)
    => \E i \in DOMAIN program : at = Start(i) /\ fields = program[i][1]

(***************************************************************************)
(* Whatever the halfwords are, what falls into the default of the dispatch *)
(* is of the types in Ignored, and all of these do; of the instructions of *)
(* the program only the signed loads with write-back fall there.  The      *)
(* default only logs a warning and goes on.                                *)
(***************************************************************************)
AssembledIsHandled ==
  at # 0 =>
    /\ handler = "none" <=> fields.type \in Ignored
    /\ \A i \in DOMAIN program :
         at = Start(i) /\ program[i][1] # Data /\ handler = "none" => fields.type \in Unhandled

(***************************************************************************)
(* Cores are upward compatible: a halfword that one core takes for an      *)
(* instruction, every later one decodes to the same fields.  The space of  *)
(* CBZ and CBNZ is excluded: ARMv6-M does not define it, and the decoder   *)
(* takes it for an addition to SP or a PUSH.                               *)
(***************************************************************************)
Later(c) == CASE c \in {"M0", "M0_PLUS"} -> {"M3", "M4"} [] c = "M3" -> {"M4"} [] OTHER -> {}

CompareBranchSpace(hw) == Bits(hw, 15, 12) = 11 /\ Bit(hw, 10) = 0 /\ Bit(hw, 8) = 1

CoresAgree ==
  (at # 0 /\ fields # Unknown /\ ~CompareBranchSpace(Halfword(at)))
    => \A c \in Later(core) : DecodeAt(c, at) = fields

(***************************************************************************)
(* docs/ARMv7M_Implementation_Status.md:78 gives M4 and M7 the T32 data    *)
(* processing instructions: each reaches the code that computes it.        *)
(***************************************************************************)
DataProcessingReached ==
  fields.type \in ImmediateTypes \cup RegisterTypes => handler = "execute_t32_data_processing"
=============================================================================
