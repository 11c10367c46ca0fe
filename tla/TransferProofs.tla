----------------------------- MODULE TransferProofs ----------------------------
(***************************************************************************)
(* Proofs about Execute, continued: what the programs of ThumbPrograms and *)
(* ThumbIdentities that load and store do to registers and memory: single  *)
(* transfers through every addressing mode, exclusive accesses, and the    *)
(* transfers by which subroutines save registers and return.               *)
(***************************************************************************)
EXTENDS ExecuteProofs, FiniteSetTheorems

-----------------------------------------------------------------------------
(* Loads and stores *)

LoadNames == {"LDR", "LDRB", "LDRH", "LDRSB", "LDRSH"}
SignedNames == {"LDRSB", "LDRSH"}
SizeOf(name) == CASE name \in {"LDRB", "LDRSB", "STRB"} -> 1
                  [] name \in {"LDRH", "LDRSH", "STRH"} -> 2
                  [] OTHER -> 4
ValueAt(name, a) == IF name \in SignedNames THEN Extended(Load(a, SizeOf(name)), ByteBits * SizeOf(name))
                                            ELSE Load(a, SizeOf(name))

(* The load or store called name, of register d at address a, whose base register b *)
(* becomes moved.                                                                    *)
Accesses(name, d, b, a, moved, n) ==
  /\ r' = [j \in 0 .. 15 |-> IF j = PC THEN Low(r[PC] + n)
                             ELSE IF j = b THEN moved
                             ELSE IF j = d /\ name \in LoadNames THEN ValueAt(name, a) ELSE r[j]]
  /\ mem' = IF name \in LoadNames THEN mem ELSE Store(mem, a, r[d], SizeOf(name))
  /\ UNCHANGED <<program, start, flags, it>>

LEMMA NarrowTransferStep ==
  ASSUME Next, Ready, ~InItBlock, Ins.type \in LoadStoreTypes,
         NEW name \in TransferNames, Transfer[Ins.type] = name,
         NEW d \in 0 .. 7, NEW b \in 0 .. 7, Ins.rd = d, Ins.rn = b, d # b,
         NEW a, a = Low(r[b] + Operand2)
  PROVE  Accesses(name, d, b, a, r[b], Bytes(Ins))
<1>1. ~Skipped /\ ~Gated
  BY DEF Skipped, Gated
<1>2. ExecuteLoadStore
  BY <1>1, TypesRun, StepIs DEF Ready
<1>3. /\ Loads <=> name \in LoadNames
      /\ Size = SizeOf(name)
      /\ Loaded(a) = ValueAt(name, a)
  <2>1. Size = SizeOf(name)
    BY Zenon DEF Size, SizeOf
  <2>2. Loads <=> name \in LoadNames
    BY Zenon DEF Loads, LoadNames
  <2>3. Loaded(a) = ValueAt(name, a)
    BY <2>1, Zenon DEF Loaded, ValueAt, SignedNames
  <2> QED BY <2>1, <2>2, <2>3
<1>4. b # PC /\ NextPc = Low(r[PC] + Bytes(Ins))
  BY DEF PC, NextPc, Bytes
<1>5. /\ Finish(IF Loads THEN Write(d, Loaded(a)) ELSE r)
      /\ mem' = IF Loads THEN mem ELSE Store(mem, a, r[d], Size)
      /\ UNCHANGED <<program, flags, start>>
  BY <1>2, <1>4, Zenon DEF ExecuteLoadStore
<1>6. it' = it
  BY <1>1, <1>5, Zenon DEF Finish
<1>7. r' = [j \in 0 .. 15 |-> IF j = PC THEN Low(r[PC] + Bytes(Ins))
                              ELSE IF j = b THEN r[b]
                              ELSE IF j = d /\ name \in LoadNames THEN ValueAt(name, a) ELSE r[j]]
  <2>1. r' = [(IF Loads THEN [r EXCEPT ![d] = Loaded(a)] ELSE r) EXCEPT ![PC] = Low(r[PC] + Bytes(Ins))]
    BY <1>4, <1>5, Zenon DEF Finish, Write
  <2>2. CASE Loads
    <3>1. r' = [[r EXCEPT ![d] = ValueAt(name, a)] EXCEPT ![PC] = Low(r[PC] + Bytes(Ins))]
      BY <1>3, <2>1, <2>2, Zenon
    <3> QED BY <1>3, <2>2, <3>1 DEF Ready, PC
  <2>3. CASE ~Loads
    <3>1. r' = [r EXCEPT ![PC] = Low(r[PC] + Bytes(Ins))]
      BY <2>1, <2>3, Zenon
    <3> QED BY <1>3, <2>3, <3>1 DEF Ready, PC
  <2> QED BY <2>2, <2>3
<1> QED BY <1>3, <1>5, <1>6, <1>7, Zenon DEF Accesses

LEMMA WideTransferStep ==
  ASSUME Next, Ready, ~InItBlock, Ins.type \in LoadStore32Types,
         NEW name \in TransferNames, Transfer[Ins.type] = name,
         NEW d \in 0 .. 12, NEW b \in 0 .. 12, Ins.rd = d, Ins.rn = b, d # b,
         NEW a, a = Address32
  PROVE  Accesses(name, d, b, a, IF PrePost /\ Ins.wb THEN IF Ins.pre THEN a ELSE Low(r[b] + Offset) ELSE r[b], Bytes(Ins))
<1> DEFINE back == PrePost /\ Ins.wb
           moved == IF Ins.pre THEN a ELSE Low(r[b] + Offset)
           base == IF back THEN moved ELSE r[b]
           loaded == IF Loads THEN Write(d, Loaded(a)) ELSE r
<1>1. ~Skipped /\ ~Gated
  BY DEF Skipped, Gated
<1>2. ExecuteT32LoadStore
  BY <1>1, TypesRun, StepIs DEF Ready
<1>3. /\ Loads <=> name \in LoadNames
      /\ Size = SizeOf(name)
      /\ Loaded(a) = ValueAt(name, a)
  <2>1. Size = SizeOf(name)
    BY Zenon DEF Size, SizeOf
  <2>2. Loads <=> name \in LoadNames
    BY Zenon DEF Loads, LoadNames
  <2>3. Loaded(a) = ValueAt(name, a)
    BY <2>1, Zenon DEF Loaded, ValueAt, SignedNames
  <2> QED BY <2>1, <2>2, <2>3
<1>4. d # PC /\ NextPc = Low(r[PC] + Bytes(Ins))
  BY DEF PC, NextPc, Bytes
<1>5. /\ Finish(WriteBack(loaded))
      /\ mem' = IF Loads THEN mem ELSE Store(mem, a, r[d], Size)
      /\ UNCHANGED <<program, flags, start>>
  BY <1>2, <1>4, Zenon DEF ExecuteT32LoadStore
<1>6. it' = it
  BY <1>1, <1>5, Zenon DEF Finish
<1>7. loaded = [j \in 0 .. 15 |-> IF j = d /\ name \in LoadNames THEN ValueAt(name, a) ELSE r[j]]
  <2>1. CASE Loads
    <3>1. loaded = [r EXCEPT ![d] = ValueAt(name, a)]
      BY <1>3, <2>1, Zenon DEF Write
    <3> QED BY <1>3, <2>1, <3>1 DEF Ready
  <2>2. CASE ~Loads
    <3>1. loaded = r
      BY <2>2, Zenon
    <3> QED BY <1>3, <2>2, <3>1 DEF Ready
  <2> QED BY <2>1, <2>2
<1> HIDE DEF loaded
<1>8. loaded[b] = r[b]
  BY <1>7
<1>9. WriteBack(loaded) = [loaded EXCEPT ![b] = base]
  <2>1. CASE back
    <3>1. WriteBack(loaded) = [loaded EXCEPT ![b] = IF Ins.pre THEN a ELSE Low(loaded[b] + Offset)]
      BY <2>1 DEF WriteBack
    <3> QED BY <1>8, <2>1, <3>1
  <2>2. CASE ~back
    <3>1. WriteBack(loaded) = loaded
      BY <2>2, Zenon DEF WriteBack
    <3> QED BY <1>7, <1>8, <2>2, <3>1
  <2> QED BY <2>1, <2>2
<1> HIDE DEF base
<1>10. r' = [[loaded EXCEPT ![b] = base] EXCEPT ![PC] = Low(r[PC] + Bytes(Ins))]
  BY <1>4, <1>5, <1>9, Zenon DEF Finish
<1>11. r' = [j \in 0 .. 15 |-> IF j = PC THEN Low(r[PC] + Bytes(Ins))
                              ELSE IF j = b THEN base
                              ELSE IF j = d /\ name \in LoadNames THEN ValueAt(name, a) ELSE r[j]]
  BY <1>7, <1>10 DEF PC
<1>12. Accesses(name, d, b, a, base, Bytes(Ins))
  BY <1>3, <1>5, <1>6, <1>11, Zenon DEF Accesses
<1> QED BY <1>12, Zenon DEF base

LEMMA TransferNamesRun ==
  /\ \A name \in TransferNames : \A form \in {"_IMM", "_REG"} :
       (name \notin SignedNames \/ form = "_REG") =>
         /\ name \o form \in LoadStoreTypes
         /\ Transfer[name \o form] = name
  /\ \A name \in TransferNames : \A form \in {"_IMM", "_REG", "_PRE_POST"} :
       (name \notin SignedNames \/ form # "_PRE_POST") =>
         /\ T32(name, form) \in LoadStore32Types
         /\ T32(name, form) # "T32_LDR_LIT"
         /\ Transfer[T32(name, form)] = name
         /\ T32(name, form) \in Suffixed(TransferNames, "_REG") <=> form = "_REG"
         /\ T32(name, form) \in Suffixed(TransferNames, "_PRE_POST") <=> form = "_PRE_POST"
<1>1. ASSUME NEW name \in TransferNames, NEW form \in {"_IMM", "_REG"},
             name \notin SignedNames \/ form = "_REG"
      PROVE  /\ name \o form \in LoadStoreTypes
             /\ Transfer[name \o form] = name
  <2>1. name \o form \in LoadStoreTypes /\ Transfer[name \o form] = name
    BY <1>1, TransfersAssumption DEF SignedNames
  <2> QED BY <2>1, Zenon DEF Narrow
<1>2. ASSUME NEW name \in TransferNames, NEW form \in {"_IMM", "_REG", "_PRE_POST"},
             name \notin SignedNames \/ form # "_PRE_POST"
      PROVE  /\ T32(name, form) \in LoadStore32Types
             /\ T32(name, form) # "T32_LDR_LIT"
             /\ Transfer[T32(name, form)] = name
             /\ T32(name, form) \in Suffixed(TransferNames, "_REG") <=> form = "_REG"
             /\ T32(name, form) \in Suffixed(TransferNames, "_PRE_POST") <=> form = "_PRE_POST"
  <2>1. T32(name, form) \in LoadStore32Types
    BY <1>2 DEF T32, LoadStore32Types, Suffixed, TransferNames, SignedNames
  <2>2. /\ T32(name, form) # "T32_LDR_LIT"
        /\ Transfer[T32(name, form)] = name
        /\ \A other \in {"_REG", "_PRE_POST"} :
             T32(name, form) \in Suffixed(TransferNames, other) <=> other = form
    BY <1>2, TransfersAssumption, Zenon DEF T32, SignedNames
  <2> HIDE DEF T32
  <2> QED BY <2>1, <2>2
<1> QED BY <1>1, <1>2, Zenon

LEMMA NarrowImmIs ==
  ASSUME Next, Ready, ~InItBlock, NEW name \in TransferNames, name \notin SignedNames,
         NEW d \in 0 .. 7, NEW b \in 0 .. 7, d # b, NEW i, r[b] + i \in Word,
         Ins = DNI(name \o "_IMM", d, b, i)
  PROVE  Accesses(name, d, b, r[b] + i, r[b], Bytes(Ins))
<1> DEFINE type == name \o "_IMM"
<1>1. type \in LoadStoreTypes /\ Transfer[type] = name
  BY TransferNamesRun
<1> HIDE DEF type
<1>2. Ins.type = type /\ Ins.rd = d /\ Ins.rn = b /\ Ins.imm = i /\ Has("imm")
  BY <1>1 DEF DNI, Of, Has, type
<1>3. r[b] + i = Low(r[b] + Operand2)
  BY <1>2, LowIs, Sizes DEF Operand2
<1> QED BY <1>1, <1>2, <1>3, NarrowTransferStep

LEMMA NarrowRegIs ==
  ASSUME Next, Ready, ~InItBlock, NEW name \in TransferNames,
         NEW d \in 0 .. 7, NEW b \in 0 .. 7, d # b, NEW m, r[b] + r[m] \in Word,
         Ins = DNM(name \o "_REG", d, b, m)
  PROVE  Accesses(name, d, b, r[b] + r[m], r[b], Bytes(Ins))
<1> DEFINE type == name \o "_REG"
<1>1. type \in LoadStoreTypes /\ Transfer[type] = name
  BY TransferNamesRun
<1> HIDE DEF type
<1>2. Ins.type = type /\ Ins.rd = d /\ Ins.rn = b /\ Ins.rm = m /\ ~Has("imm")
  BY <1>1 DEF DNM, Of, Has, type
<1>3. r[b] + r[m] = Low(r[b] + Operand2)
  BY <1>2, LowIs, Sizes DEF Operand2
<1> QED BY <1>1, <1>2, <1>3, NarrowTransferStep

LEMMA WideImmIs ==
  ASSUME Next, Ready, ~InItBlock, NEW name \in TransferNames,
         NEW d \in 0 .. 12, NEW b \in 0 .. 12, d # b, NEW i, r[b] + i \in Word,
         Ins = DNI(T32(name, "_IMM"), d, b, i)
  PROVE  Accesses(name, d, b, r[b] + i, r[b], Bytes(Ins))
<1> DEFINE type == T32(name, "_IMM")
<1>1. /\ type \in LoadStore32Types /\ Transfer[type] = name /\ type # "T32_LDR_LIT"
      /\ type \notin Suffixed(TransferNames, "_REG") /\ type \notin Suffixed(TransferNames, "_PRE_POST")
  BY TransferNamesRun
<1> HIDE DEF type
<1>2. Ins.type = type /\ Ins.rd = d /\ Ins.rn = b /\ Ins.imm = i /\ ~Has("neg")
  BY <1>1 DEF DNI, Of, Has, type
<1>3. ~PrePost /\ Offset = i
  BY <1>1, <1>2 DEF PrePost, Offset
<1>4. Address32 = Low(r[b] + i)
  BY <1>1, <1>2, <1>3 DEF Address32
<1>5. Address32 = r[b] + i
  BY <1>4, LowIs, Sizes
<1>6. Accesses(name, d, b, Address32, IF PrePost /\ Ins.wb THEN IF Ins.pre THEN Address32 ELSE Low(r[b] + Offset) ELSE r[b], Bytes(Ins))
  BY <1>1, <1>2, WideTransferStep
<1> QED BY <1>3, <1>5, <1>6, Zenon

LEMMA WideRegIs ==
  ASSUME Next, Ready, ~InItBlock, NEW name \in TransferNames,
         NEW d \in 0 .. 12, NEW b \in 0 .. 12, d # b, NEW m, r[m] \in Word, r[b] + 2 * r[m] \in Word,
         Ins = Doubled("T32_" \o name, d, b, m)
  PROVE  Accesses(name, d, b, r[b] + 2 * r[m], r[b], Bytes(Ins))
<1> DEFINE type == T32(name, "_REG")
<1>1. /\ type \in LoadStore32Types /\ Transfer[type] = name /\ type # "T32_LDR_LIT"
      /\ type \in Suffixed(TransferNames, "_REG") /\ type \notin Suffixed(TransferNames, "_PRE_POST")
  BY TransferNamesRun
<1> HIDE DEF type
<1>0. Ins = Of(type, [rd |-> d, rn |-> b, rm |-> m, shift |-> 1])
  BY DEF Doubled, T32, type
<1>2. Ins.type = type /\ Ins.rd = d /\ Ins.rn = b /\ Ins.rm = m /\ Ins.shift = 1
  BY <1>0, <1>1 DEF Of
<1>3. ~PrePost
  BY <1>1, <1>2 DEF PrePost
<1>4. Address32 = Low(r[b] + r[m] * 2^1)
  BY <1>1, <1>2, <1>3 DEF Address32
<1>5. Address32 = r[b] + 2 * r[m]
  <2>1. r[m] * 2^1 = 2 * r[m]
    BY Sizes
  <2> QED BY <1>4, <2>1, LowIs, Sizes
<1>6. Accesses(name, d, b, Address32, IF PrePost /\ Ins.wb THEN IF Ins.pre THEN Address32 ELSE Low(r[b] + Offset) ELSE r[b], Bytes(Ins))
  BY <1>1, <1>2, WideTransferStep
<1> QED BY <1>3, <1>5, <1>6, Zenon

LEMMA PrePostIs ==
  ASSUME Next, Ready, ~InItBlock, NEW name \in TransferNames, name \notin SignedNames,
         NEW d \in 0 .. 7, NEW pre \in BOOLEAN, NEW neg \in BOOLEAN, NEW moved \in Word,
         r[8] \in Word, moved = r[8] + (IF neg THEN -4 ELSE 4),
         Ins = PrePostWith("T32_" \o name, d, pre, neg)
  PROVE  Accesses(name, d, 8, IF pre THEN moved ELSE r[8], moved, Bytes(Ins))
<1> DEFINE type == T32(name, "_PRE_POST")
<1>1. /\ type \in LoadStore32Types /\ Transfer[type] = name /\ type # "T32_LDR_LIT"
      /\ type \notin Suffixed(TransferNames, "_REG") /\ type \in Suffixed(TransferNames, "_PRE_POST")
  BY TransferNamesRun
<1>2. Ins = Of(type, [rd |-> d, rn |-> 8, imm |-> 4, pre |-> pre, neg |-> neg, wb |-> TRUE])
  BY DEF PrePostWith, T32
<1> HIDE DEF type
<1>3. /\ Ins.type = type /\ Ins.rd = d /\ Ins.rn = 8 /\ Ins.imm = 4 /\ Has("neg")
      /\ Ins.neg = neg /\ Ins.pre = pre /\ Ins.wb
  BY <1>1, <1>2 DEF Of, Has
<1>4. PrePost /\ Low(r[8] + Offset) = moved
  <2>1. Offset = IF neg THEN -4 ELSE 4
    BY <1>3 DEF Offset
  <2> QED BY <1>1, <1>3, <2>1, LowIs, Sizes DEF PrePost
<1>5. Address32 = IF pre THEN moved ELSE r[8]
  BY <1>1, <1>3, <1>4 DEF Address32
<1>6. 8 \in 0 .. 12 /\ d \in 0 .. 12 /\ d # 8
  OBVIOUS
<1>7. Accesses(name, d, 8, Address32, IF PrePost /\ Ins.wb THEN IF Ins.pre THEN Address32 ELSE Low(r[8] + Offset) ELSE r[8], Bytes(Ins))
  BY <1>1, <1>3, <1>6, WideTransferStep
<1>8. (IF PrePost /\ Ins.wb THEN IF Ins.pre THEN Address32 ELSE Low(r[8] + Offset) ELSE r[8]) = moved
  BY <1>3, <1>4, <1>5
<1> QED BY <1>5, <1>7, <1>8, Zenon

(* What is stored is what is loaded from there, and nothing beside it has changed. *)
LEMMA StoredIs ==
  ASSUME NEW m, NEW n \in {1, 2, 4}, NEW a \in Int, a .. a + n - 1 \subseteq Ram,
         NEW v \in Word, mem = Store(m, a, v, n)
  PROVE  /\ Load(a, n) = v % 2^(ByteBits * n)
         /\ \A b \in Ram : mem[b] # m[b] => b \in a .. a + n - 1
<1>1. Ram \subseteq 0 .. Modulus - 1 /\ Modulus \in Nat \ {0}
  BY RamAssumption, Sizes
<1>2. a \in a .. a + n - 1 /\ a + n - 1 \in a .. a + n - 1
  OBVIOUS
<1>3. a \in 0 .. Modulus - 1 /\ a + n - 1 \in 0 .. Modulus - 1
  BY <1>1, <1>2
<1>4. ASSUME NEW i \in 0 .. n - 1
      PROVE  mem[Low(a + i)] = ByteOf(v, i)
  <2>1. a + i \in Ram /\ a + i \in 0 .. Modulus - 1
    <3>1. a + i \in a .. a + n - 1
      OBVIOUS
    <3> QED BY <1>1, <3>1
  <2>2. Low(a + i) = a + i /\ Low((a + i) - a) = i
    <3>1. i \in 0 .. Modulus - 1 /\ (a + i) - a = i
      BY <1>1, <1>3
    <3> QED BY <2>1, <3>1, LowIs
  <2>3. mem[a + i] = IF Low((a + i) - a) < n THEN ByteOf(v, Low((a + i) - a)) ELSE m[a + i]
    BY <2>1, Zenon DEF Store
  <2> QED BY <2>2, <2>3
<1>5. ASSUME NEW b \in Ram, b \notin a .. a + n - 1
      PROVE  mem[b] = m[b]
  <2>1. b \in 0 .. Modulus - 1
    BY <1>1
  <2>2. Low(b - a) = IF b >= a THEN b - a ELSE b - a + Modulus
    <3>1. b - a \in Int
      BY <2>1
    <3>2. CASE b >= a
      BY <1>1, <1>3, <2>1, <3>1, <3>2, LowIs
    <3>3. CASE ~(b >= a)
      BY <1>1, <1>3, <2>1, <3>1, <3>3, LowIs
    <3> QED BY <3>2, <3>3
  <2>3. ~(Low(b - a) < n)
    BY <1>1, <1>3, <1>5, <2>1, <2>2
  <2>4. mem[b] = IF Low(b - a) < n THEN ByteOf(v, Low(b - a)) ELSE m[b]
    BY Zenon DEF Store
  <2> QED BY <2>3, <2>4, Zenon
<1> DEFINE part(i) == mem[Low(a + i)] * 2^(ByteBits * i)
           byte(i) == ByteOf(v, i) * 2^(ByteBits * i)
<1>6. \A i \in 0 .. n - 1 : part(i) = byte(i)
  BY <1>4
<1>7. Load(a, n) = (IF 0 < n THEN part(0) ELSE 0) + (IF 1 < n THEN part(1) ELSE 0)
                     + (IF 2 < n THEN part(2) ELSE 0) + (IF 3 < n THEN part(3) ELSE 0)
  BY Zenon DEF Load
<1> HIDE DEF part
<1>8. /\ byte(0) = v % 2^(ByteBits * 1)
      /\ byte(0) + byte(1) = v % 2^(ByteBits * 2)
      /\ byte(0) + byte(1) + byte(2) + byte(3) = v % 2^(ByteBits * 4)
  BY BytesAre
<1>9. byte(0) \in Int /\ byte(1) \in Int /\ byte(2) \in Int /\ byte(3) \in Int
  <2>1. /\ ByteOf(v, 0) \in Int /\ ByteOf(v, 1) \in Int /\ ByteOf(v, 2) \in Int /\ ByteOf(v, 3) \in Int
    BY BytesAre, BytePowers
  <2>2. /\ 2^(ByteBits * 0) \in Int /\ 2^(ByteBits * 1) \in Int
        /\ 2^(ByteBits * 2) \in Int /\ 2^(ByteBits * 3) \in Int
    BY BytePowers
  <2> QED BY <2>1, <2>2
<1> HIDE DEF byte
<1>10. Load(a, n) = v % 2^(ByteBits * n)
  <2>1. CASE n = 1
    BY <1>6, <1>7, <1>8, <1>9, <2>1
  <2>2. CASE n = 2
    BY <1>6, <1>7, <1>8, <1>9, <2>2
  <2>3. CASE n = 4
    BY <1>6, <1>7, <1>8, <1>9, <2>3
  <2> QED BY <2>1, <2>2, <2>3
<1> QED BY <1>5, <1>10, Zenon

(* Registers and addresses that the programs use. *)
LEMMA InitialsAre ==
  /\ \A j \in 2 .. 12 : InitialRegister(j) = 17 * j
  /\ Base8 = 136 /\ 0 .. 204 \subseteq Word
<1>1. InitialRegister(12) = 204 /\ InitialRegister(12) \in Word
  BY InitialAssumption DEF InitialRegister
<1> QED BY <1>1, Sizes DEF InitialRegister, Base8

LEMMA NamesOfSize ==
  ASSUME NEW size, NEW k, IsMode(size, k)
  PROVE  LET st == Stem(size)
             ld == "LDR" \o size
         IN  /\ st \in TransferNames /\ st \notin SignedNames /\ st \notin LoadNames
             /\ ld \in TransferNames /\ ld \in LoadNames
             /\ ld \in SignedNames <=> size \in {"SB", "SH"}
             /\ SizeOf(st) = Length32(size) /\ SizeOf(ld) = Length32(size)
             /\ Length32(size) \in {1, 2, 4}
<1> DEFINE ld == "LDR" \o size
           st == Stem(size)
           n == Length32(size)
           s == size
<1>1. \/ ld = "LDR" /\ st = "STR" /\ n = 4 /\ s \notin {"B", "SB", "H", "SH"}
      \/ ld = "LDRB" /\ st = "STRB" /\ n = 1 /\ s = "B"
      \/ ld = "LDRH" /\ st = "STRH" /\ n = 2 /\ s = "H"
      \/ ld = "LDRSB" /\ st = "STRB" /\ n = 1 /\ s = "SB"
      \/ ld = "LDRSH" /\ st = "STRH" /\ n = 2 /\ s = "SH"
  <2>1. /\ size = "" => ld = "LDR" /\ st = "STR" /\ n = 4 /\ s \notin {"B", "SB", "H", "SH"}
        /\ size = "B" => ld = "LDRB" /\ st = "STRB" /\ n = 1
        /\ size = "H" => ld = "LDRH" /\ st = "STRH" /\ n = 2
        /\ size = "SB" => ld = "LDRSB" /\ st = "STRB" /\ n = 1
        /\ size = "SH" => ld = "LDRSH" /\ st = "STRH" /\ n = 2
    BY TransfersAssumption, Zenon DEF Stem, Length32
  <2>2. size = "" \/ size = "B" \/ size = "H" \/ size = "SB" \/ size = "SH"
    BY Zenon DEF IsMode
  <2> HIDE DEF ld, st, n
  <2> QED BY <2>1, <2>2, Zenon
<1> HIDE DEF ld, st, n, s
<1>2. /\ st \in TransferNames /\ st \notin SignedNames /\ st \notin LoadNames
      /\ ld \in TransferNames /\ ld \in LoadNames
      /\ ld \in SignedNames <=> s \in {"SB", "SH"}
      /\ SizeOf(st) = n /\ SizeOf(ld) = n /\ n \in {1, 2, 4}
  BY <1>1 DEF TransferNames, LoadNames, SignedNames, SizeOf
<1> QED BY <1>2, Zenon DEF ld, st, n, s

(* The parts of a mode: its instructions, the address and the value of R8 behind it. *)
IsParts(mode, first, second, a, moved) ==
  /\ mode[1] = <<first, second>> /\ mode[2] = a /\ mode[3] = moved

LEMMA ModeIs ==
  ASSUME NEW size, NEW k
  PROVE  LET st   == Stem(size)
             ld   == "LDR" \o size
             n    == Length32(size)
             pre  == k \in {5, 6, 9, 10}
             neg  == k \in {6, 8, 10, 12}
             moved == 136 + IF neg THEN -4 ELSE 4
             at   == IF pre THEN moved ELSE 136
             Is(first, second, a, end) == IsParts(Mode(size, k), first, second, a, end)
         IN  /\ k = 1 => Is(DNI(st \o "_IMM", 0, 6, n), DNI(ld \o "_IMM", 2, 6, n), 102 + n, 136)
             /\ k = 2 => Is(DNM(st \o "_REG", 0, 3, 3), DNM(ld \o "_REG", 2, 3, 3), 2 * 51, 136)
             /\ k = 3 => Is(DNI(T32(st, "_IMM"), 0, 8, 5), DNI(T32(ld, "_IMM"), 2, 8, 5), 136 + 5, 136)
             /\ k = 4 => Is(Doubled("T32_" \o st, 0, 3, 3), Doubled("T32_" \o ld, 2, 3, 3), 3 * 51, 136)
             /\ k \in 5 .. 8 => Is(PrePostWith("T32_" \o st, 0, pre, neg), DNI(T32(ld, "_IMM"), 2, 7, at - 119), at, moved)
             /\ k \in 9 .. 12 => Is(DNI(T32(st, "_IMM"), 0, 7, at - 119), PrePostWith("T32_" \o ld, 2, pre, neg), at, moved)
<1> DEFINE st == Stem(size)
           ld == "LDR" \o size
           n == Length32(size)
           pre  == k \in {5, 6, 9, 10}
           neg  == k \in {6, 8, 10, 12}
           moved == 136 + IF neg THEN -4 ELSE 4
           at   == IF pre THEN moved ELSE 136
           mode == Mode(size, k)
           P(first, second, a, end) == mode = <<<<first, second>>, a, end>>
<1>1. /\ InitialRegister(3) = 51 /\ InitialRegister(6) = 102 /\ InitialRegister(7) = 119 /\ Base8 = 136
  BY InitialsAre
<1>2. ASSUME NEW first, NEW second, NEW a, NEW end, P(first, second, a, end)
      PROVE  IsParts(mode, first, second, a, end)
  <2> HIDE DEF mode
  <2> QED BY <1>2 DEF IsParts
<1>3. ASSUME k = 1
      PROVE  IsParts(mode, DNI(st \o "_IMM", 0, 6, n), DNI(ld \o "_IMM", 2, 6, n), 102 + n, 136)
  <2>1. P(DNI(st \o "_IMM", 0, 6, n), DNI(ld \o "_IMM", 2, 6, n), 102 + n, 136)
    BY <1>1, <1>3 DEF Mode
  <2> QED BY <1>2, <2>1
<1>4. ASSUME k = 2
      PROVE  IsParts(mode, DNM(st \o "_REG", 0, 3, 3), DNM(ld \o "_REG", 2, 3, 3), 2 * 51, 136)
  <2>1. P(DNM(st \o "_REG", 0, 3, 3), DNM(ld \o "_REG", 2, 3, 3), 2 * 51, 136)
    BY <1>1, <1>4 DEF Mode
  <2> QED BY <1>2, <2>1
<1>5. ASSUME k = 3
      PROVE  IsParts(mode, DNI(T32(st, "_IMM"), 0, 8, 5), DNI(T32(ld, "_IMM"), 2, 8, 5), 136 + 5, 136)
  <2>1. P(DNI(T32(st, "_IMM"), 0, 8, 5), DNI(T32(ld, "_IMM"), 2, 8, 5), 136 + 5, 136)
    BY <1>1, <1>5 DEF Mode, T32
  <2> QED BY <1>2, <2>1
<1>6. ASSUME k = 4
      PROVE  IsParts(mode, Doubled("T32_" \o st, 0, 3, 3), Doubled("T32_" \o ld, 2, 3, 3), 3 * 51, 136)
  <2>1. P(Doubled("T32_" \o st, 0, 3, 3), Doubled("T32_" \o ld, 2, 3, 3), 3 * 51, 136)
    BY <1>1, <1>6 DEF Mode
  <2> QED BY <1>2, <2>1
<1>7. ASSUME k \in 5 .. 8
      PROVE  IsParts(mode, PrePostWith("T32_" \o st, 0, pre, neg), DNI(T32(ld, "_IMM"), 2, 7, at - 119), at, moved)
  <2>1. P(PrePostWith("T32_" \o st, 0, pre, neg), DNI(T32(ld, "_IMM"), 2, 7, at - 119), at, moved)
    BY <1>1, <1>7 DEF Mode, Absolute, T32
  <2> QED BY <1>2, <2>1
<1>8. ASSUME k \in 9 .. 12
      PROVE  IsParts(mode, DNI(T32(st, "_IMM"), 0, 7, at - 119), PrePostWith("T32_" \o ld, 2, pre, neg), at, moved)
  <2>1. P(DNI(T32(st, "_IMM"), 0, 7, at - 119), PrePostWith("T32_" \o ld, 2, pre, neg), at, moved)
    BY <1>1, <1>8 DEF Mode, Absolute, T32
  <2> QED BY <1>2, <2>1
<1> QED BY <1>3, <1>4, <1>5, <1>6, <1>7, <1>8, Zenon

(* R8 behind the store, and the registers that address the load. *)
Between(size, k) == /\ r[3] = 51 /\ r[6] = 102 /\ r[7] = 119
                    /\ r[8] = IF k \in 5 .. 8 THEN Mode(size, k)[3] ELSE 136

LEMMA StoreAccesses ==
  ASSUME Next, Ready, ~InItBlock, NEW size, NEW k, IsMode(size, k),
         \A j \in 2 .. 12 : r[j] = InitialRegister(j), Ins = Mode(size, k)[1][1]
  PROVE  \E b \in 3 .. 8 : \E moved :
           /\ Accesses(Stem(size), 0, b, Mode(size, k)[2], moved, Bytes(Ins))
           /\ moved = IF k \in 5 .. 8 THEN Mode(size, k)[3] ELSE r[b]
           /\ k \in 5 .. 8 => b = 8
<1> DEFINE st == Stem(size)
           ld == "LDR" \o size
           n == Length32(size)
           mode == Mode(size, k)
           big == size \in {"SB", "SH"}
<1>1. r[3] = 51 /\ r[6] = 102 /\ r[7] = 119 /\ r[8] = 136 /\ 0 .. 204 \subseteq Word
  BY InitialsAre
<1>2. st \in TransferNames /\ st \notin SignedNames /\ n \in {1, 2, 4}
  BY NamesOfSize, Zenon
<1>3. k \in 1 .. 12
  BY Zenon DEF IsMode
<1> DEFINE Goal(b, moved) ==
             /\ Accesses(st, 0, b, mode[2], moved, Bytes(Ins))
             /\ moved = IF k \in 5 .. 8 THEN mode[3] ELSE r[b]
             /\ k \in 5 .. 8 => b = 8
<1> SUFFICES \E b \in 3 .. 8 : \E moved : Goal(b, moved)
  BY Zenon
<1>4. CASE k = 1
  <2>1. IsParts(mode, DNI(st \o "_IMM", 0, 6, n), DNI(ld \o "_IMM", 2, 6, n), 102 + n, 136)
    BY <1>4, ModeIs, Zenon
  <2> HIDE DEF st, ld, n, mode
  <2>2. Ins = DNI(st \o "_IMM", 0, 6, n) /\ mode[2] = r[6] + n
    BY <1>1, <2>1 DEF IsParts, mode
  <2>3. r[6] + n \in Word
    BY <1>1, <1>2
  <2>4. Accesses(st, 0, 6, r[6] + n, r[6], Bytes(Ins))
    BY <1>2, <2>2, <2>3, NarrowImmIs
  <2>5. Goal(6, r[6])
    BY <1>4, <2>2, <2>4
  <2> QED BY <2>5
<1>5. CASE k = 2
  <2>1. IsParts(mode, DNM(st \o "_REG", 0, 3, 3), DNM(ld \o "_REG", 2, 3, 3), 2 * 51, 136)
    BY <1>5, ModeIs, Zenon
  <2> HIDE DEF st, ld, n, mode
  <2>2. Ins = DNM(st \o "_REG", 0, 3, 3) /\ mode[2] = r[3] + r[3]
    BY <1>1, <2>1 DEF IsParts, mode
  <2>3. r[3] + r[3] \in Word
    BY <1>1
  <2>4. Accesses(st, 0, 3, r[3] + r[3], r[3], Bytes(Ins))
    BY <1>2, <2>2, <2>3, NarrowRegIs
  <2>5. Goal(3, r[3])
    BY <1>5, <2>2, <2>4
  <2> QED BY <2>5
<1>6. CASE k = 3
  <2>1. IsParts(mode, DNI(T32(st, "_IMM"), 0, 8, 5), DNI(T32(ld, "_IMM"), 2, 8, 5), 136 + 5, 136)
    BY <1>6, ModeIs, Zenon
  <2> HIDE DEF st, ld, n, mode
  <2>2. Ins = DNI(T32(st, "_IMM"), 0, 8, 5) /\ mode[2] = r[8] + 5
    BY <1>1, <2>1 DEF IsParts, mode
  <2>3. r[8] + 5 \in Word
    BY <1>1
  <2>4. Accesses(st, 0, 8, r[8] + 5, r[8], Bytes(Ins))
    BY <1>2, <2>2, <2>3, WideImmIs
  <2>5. Goal(8, r[8])
    BY <1>6, <2>2, <2>4
  <2> QED BY <2>5
<1>7. CASE k = 4
  <2>1. IsParts(mode, Doubled("T32_" \o st, 0, 3, 3), Doubled("T32_" \o ld, 2, 3, 3), 3 * 51, 136)
    BY <1>7, ModeIs, Zenon
  <2> HIDE DEF st, ld, n, mode
  <2>2. Ins = Doubled("T32_" \o st, 0, 3, 3) /\ mode[2] = r[3] + 2 * r[3]
    BY <1>1, <2>1 DEF IsParts, mode
  <2>3. r[3] \in Word /\ r[3] + 2 * r[3] \in Word
    BY <1>1
  <2>4. Accesses(st, 0, 3, r[3] + 2 * r[3], r[3], Bytes(Ins))
    BY <1>2, <2>2, <2>3, WideRegIs
  <2>5. Goal(3, r[3])
    BY <1>7, <2>2, <2>4
  <2> QED BY <2>5
<1> DEFINE pre  == k \in {5, 6, 9, 10}
           neg  == k \in {6, 8, 10, 12}
           moved == 136 + IF neg THEN -4 ELSE 4
           at   == IF pre THEN moved ELSE 136
<1>8. pre \in BOOLEAN /\ neg \in BOOLEAN /\ moved \in {132, 140}
  OBVIOUS
<1>9. CASE k \in 5 .. 8
  <2>1. IsParts(mode, PrePostWith("T32_" \o st, 0, pre, neg), DNI(T32(ld, "_IMM"), 2, 7, at - 119), at, moved)
    BY <1>9, ModeIs, Zenon
  <2>2. moved = r[8] + (IF neg THEN -4 ELSE 4) /\ at = IF pre THEN moved ELSE r[8]
    BY <1>1
  <2> HIDE DEF st, ld, n, mode, pre, neg, moved, at
  <2>3. Ins = PrePostWith("T32_" \o st, 0, pre, neg) /\ mode[2] = at /\ mode[3] = moved
    BY <2>1 DEF IsParts, mode
  <2>4. r[8] \in Word /\ moved \in Word
    BY <1>1, <1>8
  <2>5. Accesses(st, 0, 8, IF pre THEN moved ELSE r[8], moved, Bytes(Ins))
    BY <1>2, <1>8, <2>2, <2>3, <2>4, PrePostIs
  <2>6. Goal(8, moved)
    BY <1>9, <2>2, <2>3, <2>5
  <2> QED BY <2>6
<1>10. CASE k \in 9 .. 12
  <2>1. IsParts(mode, DNI(T32(st, "_IMM"), 0, 7, at - 119), PrePostWith("T32_" \o ld, 2, pre, neg), at, moved)
    BY <1>10, ModeIs, Zenon
  <2>2. at \in {132, 136, 140}
    OBVIOUS
  <2> HIDE DEF st, ld, n, mode, pre, neg, moved, at
  <2>3. Ins = DNI(T32(st, "_IMM"), 0, 7, at - 119) /\ mode[2] = at
    BY <2>1 DEF IsParts, mode
  <2>4. r[7] + (at - 119) = at /\ at \in Word
    BY <1>1, <2>2
  <2>5. Accesses(st, 0, 7, r[7] + (at - 119), r[7], Bytes(Ins))
    BY <1>2, <2>3, <2>4, WideImmIs
  <2>6. Goal(7, r[7])
    BY <1>10, <2>3, <2>4, <2>5
  <2> QED BY <2>6
<1> QED BY <1>3, <1>4, <1>5, <1>6, <1>7, <1>9, <1>10

LEMMA LoadAccesses ==
  ASSUME Next, Ready, ~InItBlock, NEW size, NEW k, IsMode(size, k),
         Between(size, k), Ins = Mode(size, k)[1][2]
  PROVE  \E b \in 3 .. 8 : \E moved :
           /\ Accesses("LDR" \o size, 2, b, Mode(size, k)[2], moved, Bytes(Ins))
           /\ moved = IF k \in 9 .. 12 THEN Mode(size, k)[3] ELSE r[b]
           /\ k \in 9 .. 12 => b = 8
<1> DEFINE st == Stem(size)
           ld == "LDR" \o size
           n == Length32(size)
           mode == Mode(size, k)
           big == size \in {"SB", "SH"}
<1>1. /\ r[3] = 51 /\ r[6] = 102 /\ r[7] = 119 /\ (k \notin 5 .. 8 => r[8] = 136)
      /\ 0 .. 204 \subseteq Word
  BY InitialsAre DEF Between
<1>2. ld \in TransferNames /\ (ld \in SignedNames => big) /\ n \in {1, 2, 4}
  BY NamesOfSize, Zenon
<1>3. k \in 1 .. 12 /\ (big => k \in 2 .. 8)
  BY Zenon DEF IsMode
<1> DEFINE Goal(b, moved) ==
             /\ Accesses(ld, 2, b, mode[2], moved, Bytes(Ins))
             /\ moved = IF k \in 9 .. 12 THEN mode[3] ELSE r[b]
             /\ k \in 9 .. 12 => b = 8
<1> SUFFICES \E b \in 3 .. 8 : \E moved : Goal(b, moved)
  BY Zenon
<1>4. CASE k = 1
  <2>1. IsParts(mode, DNI(st \o "_IMM", 0, 6, n), DNI(ld \o "_IMM", 2, 6, n), 102 + n, 136)
    BY <1>4, ModeIs, Zenon
  <2> HIDE DEF st, ld, n, mode, big
  <2>2. Ins = DNI(ld \o "_IMM", 2, 6, n) /\ mode[2] = r[6] + n
    BY <1>1, <2>1 DEF IsParts, mode
  <2>3. r[6] + n \in Word
    BY <1>1, <1>2
  <2>4. Accesses(ld, 2, 6, r[6] + n, r[6], Bytes(Ins))
    BY <1>2, <1>3, <1>4, <2>2, <2>3, NarrowImmIs
  <2>5. Goal(6, r[6])
    BY <1>4, <2>2, <2>4
  <2> QED BY <2>5
<1>5. CASE k = 2
  <2>1. IsParts(mode, DNM(st \o "_REG", 0, 3, 3), DNM(ld \o "_REG", 2, 3, 3), 2 * 51, 136)
    BY <1>5, ModeIs, Zenon
  <2> HIDE DEF st, ld, n, mode, big
  <2>2. Ins = DNM(ld \o "_REG", 2, 3, 3) /\ mode[2] = r[3] + r[3]
    BY <1>1, <2>1 DEF IsParts, mode
  <2>3. r[3] + r[3] \in Word
    BY <1>1
  <2>4. Accesses(ld, 2, 3, r[3] + r[3], r[3], Bytes(Ins))
    BY <1>2, <2>2, <2>3, NarrowRegIs
  <2>5. Goal(3, r[3])
    BY <1>5, <2>2, <2>4
  <2> QED BY <2>5
<1>6. CASE k = 3
  <2>1. IsParts(mode, DNI(T32(st, "_IMM"), 0, 8, 5), DNI(T32(ld, "_IMM"), 2, 8, 5), 136 + 5, 136)
    BY <1>6, ModeIs, Zenon
  <2> HIDE DEF st, ld, n, mode, big
  <2>2. Ins = DNI(T32(ld, "_IMM"), 2, 8, 5) /\ mode[2] = r[8] + 5
    BY <1>1, <1>6, <2>1 DEF IsParts, mode
  <2>3. r[8] + 5 \in Word
    BY <1>1, <1>6
  <2>4. Accesses(ld, 2, 8, r[8] + 5, r[8], Bytes(Ins))
    BY <1>2, <2>2, <2>3, WideImmIs
  <2>5. Goal(8, r[8])
    BY <1>6, <2>2, <2>4
  <2> QED BY <2>5
<1>7. CASE k = 4
  <2>1. IsParts(mode, Doubled("T32_" \o st, 0, 3, 3), Doubled("T32_" \o ld, 2, 3, 3), 3 * 51, 136)
    BY <1>7, ModeIs, Zenon
  <2> HIDE DEF st, ld, n, mode, big
  <2>2. Ins = Doubled("T32_" \o ld, 2, 3, 3) /\ mode[2] = r[3] + 2 * r[3]
    BY <1>1, <2>1 DEF IsParts, mode
  <2>3. r[3] \in Word /\ r[3] + 2 * r[3] \in Word
    BY <1>1
  <2>4. Accesses(ld, 2, 3, r[3] + 2 * r[3], r[3], Bytes(Ins))
    BY <1>2, <2>2, <2>3, WideRegIs
  <2>5. Goal(3, r[3])
    BY <1>7, <2>2, <2>4
  <2> QED BY <2>5
<1> DEFINE pre  == k \in {5, 6, 9, 10}
           neg  == k \in {6, 8, 10, 12}
           moved == 136 + IF neg THEN -4 ELSE 4
           at   == IF pre THEN moved ELSE 136
<1>8. pre \in BOOLEAN /\ neg \in BOOLEAN /\ moved \in {132, 140}
  OBVIOUS
<1>9. CASE k \in 5 .. 8
  <2>1. IsParts(mode, PrePostWith("T32_" \o st, 0, pre, neg), DNI(T32(ld, "_IMM"), 2, 7, at - 119), at, moved)
    BY <1>9, ModeIs, Zenon
  <2>2. at \in {132, 136, 140}
    OBVIOUS
  <2> HIDE DEF st, ld, n, mode, big, pre, neg, moved, at
  <2>3. Ins = DNI(T32(ld, "_IMM"), 2, 7, at - 119) /\ mode[2] = at
    BY <2>1 DEF IsParts, mode
  <2>4. r[7] + (at - 119) = at /\ at \in Word
    BY <1>1, <2>2
  <2>5. Accesses(ld, 2, 7, r[7] + (at - 119), r[7], Bytes(Ins))
    BY <1>2, <2>3, <2>4, WideImmIs
  <2>6. Goal(7, r[7])
    BY <1>9, <2>3, <2>4, <2>5
  <2> QED BY <2>6
<1>10. CASE k \in 9 .. 12
  <2>1. IsParts(mode, DNI(T32(st, "_IMM"), 0, 7, at - 119), PrePostWith("T32_" \o ld, 2, pre, neg), at, moved)
    BY <1>10, ModeIs, Zenon
  <2>2. moved = r[8] + (IF neg THEN -4 ELSE 4) /\ at = (IF pre THEN moved ELSE r[8]) /\ r[8] = 136
    BY <1>1, <1>10
  <2> HIDE DEF st, ld, n, mode, big, pre, neg, moved, at
  <2>3. Ins = PrePostWith("T32_" \o ld, 2, pre, neg) /\ mode[2] = at /\ mode[3] = moved
    BY <2>1 DEF IsParts, mode
  <2>4. r[8] \in Word /\ moved \in Word /\ ld \notin SignedNames
    BY <1>1, <1>2, <1>3, <1>8, <1>10, <2>2
  <2>5. Accesses(ld, 2, 8, IF pre THEN moved ELSE r[8], moved, Bytes(Ins))
    BY <1>2, <1>8, <2>2, <2>3, <2>4, PrePostIs
  <2>6. Goal(8, moved)
    BY <1>10, <2>2, <2>3, <2>5
  <2> QED BY <2>6
<1> QED BY <1>3, <1>4, <1>5, <1>6, <1>7, <1>9, <1>10

(* What R2 holds of x after the round trip. *)
Transferred(size) ==
  LET n   == Length32(size)
      cut == x % 2^(ByteBits * n)
  IN  IF size \in {"SB", "SH"} THEN Low(SignExtend(cut, ByteBits * n)) ELSE cut

(* What memory holds behind the store. *)
Stored(size, k) == Store(InitialMem, Mode(size, k)[2], x, Length32(size))

(* Where a program that transfers by mode k is, and what it has done by then. *)
TransferFor(size, k) ==
  LET at == Offsets(Mode(size, k)[1]) IN
  /\ Ready /\ x \in Word
  /\ \/ /\ r[PC] = at[1] /\ it = NoIt /\ r[0] = x /\ mem = InitialMem
        /\ \A j \in 2 .. 12 : r[j] = InitialRegister(j)
     \/ r[PC] = at[2] /\ it = NoIt /\ mem = Stored(size, k) /\ Between(size, k)
     \/ /\ r[PC] = at[3] /\ mem = Stored(size, k)
        /\ r[2] = Transferred(size) /\ r[8] = Mode(size, k)[3]

TransferInv == Group = "transfer" => TransferFor(Variant, Third)

LEMMA ModeParts ==
  ASSUME NEW size, NEW k, IsMode(size, k)
  PROVE  /\ Len(Mode(size, k)[1]) = 2 /\ DOMAIN Mode(size, k)[1] = 1 .. 2
         /\ Mode(size, k)[2] \in Int
         /\ k \in 1 .. 4 => Mode(size, k)[3] = 136
<1>1. k = 1 \/ k = 2 \/ k = 3 \/ k = 4 \/ k \in 5 .. 8 \/ k \in 9 .. 12
  <2>1. k \in 1 .. 12
    BY Zenon DEF IsMode
  <2> QED BY <2>1
<1> DEFINE n == Length32(size)
           pre  == k \in {5, 6, 9, 10}
           neg  == k \in {6, 8, 10, 12}
           moved == 136 + IF neg THEN -4 ELSE 4
           at   == IF pre THEN moved ELSE 136
           st == Stem(size)
           ld == "LDR" \o size
           mode == Mode(size, k)
<1>2. n \in {1, 2, 4}
  BY NamesOfSize, Zenon
<1>3. /\ 102 + n \in Int /\ 2 * 51 \in Int /\ 136 + 5 \in Int /\ 3 * 51 \in Int
      /\ moved \in Int /\ at \in Int
      /\ (k \in 5 .. 8 \/ k \in 9 .. 12 => k \notin 1 .. 4)
  <2> HIDE DEF n
  <2> QED BY <1>2
<1>4. \E first, second : \E a \in Int : \E end :
        IsParts(mode, first, second, a, end) /\ (k \in 1 .. 4 => end = 136)
  <2>1. CASE k = 1
    <3>1. IsParts(mode, DNI(st \o "_IMM", 0, 6, n), DNI(ld \o "_IMM", 2, 6, n), 102 + n, 136)
      BY <2>1, ModeIs, Zenon
    <3> QED BY <1>3, <2>1, <3>1, Zenon
  <2>2. CASE k = 2
    <3>1. IsParts(mode, DNM(st \o "_REG", 0, 3, 3), DNM(ld \o "_REG", 2, 3, 3), 2 * 51, 136)
      BY <2>2, ModeIs, Zenon
    <3> QED BY <1>3, <2>2, <3>1, Zenon
  <2>3. CASE k = 3
    <3>1. IsParts(mode, DNI(T32(st, "_IMM"), 0, 8, 5), DNI(T32(ld, "_IMM"), 2, 8, 5), 136 + 5, 136)
      BY <2>3, ModeIs, Zenon
    <3> QED BY <1>3, <2>3, <3>1, Zenon
  <2>4. CASE k = 4
    <3>1. IsParts(mode, Doubled("T32_" \o st, 0, 3, 3), Doubled("T32_" \o ld, 2, 3, 3), 3 * 51, 136)
      BY <2>4, ModeIs, Zenon
    <3> QED BY <1>3, <2>4, <3>1, Zenon
  <2>5. CASE k \in 5 .. 8
    <3>1. IsParts(mode, PrePostWith("T32_" \o st, 0, pre, neg), DNI(T32(ld, "_IMM"), 2, 7, at - 119), at, moved)
      BY <2>5, ModeIs, Zenon
    <3>2. k \notin 1 .. 4 /\ moved \in Int /\ at \in Int
      BY <1>3, <2>5, Zenon
    <3> HIDE DEF mode, st, ld, at, moved, pre, neg
    <3> QED BY <3>1, <3>2, Zenon
  <2>6. CASE k \in 9 .. 12
    <3>1. IsParts(mode, DNI(T32(st, "_IMM"), 0, 7, at - 119), PrePostWith("T32_" \o ld, 2, pre, neg), at, moved)
      BY <2>6, ModeIs, Zenon
    <3>2. k \notin 1 .. 4 /\ at \in Int
      BY <1>3, <2>6, Zenon
    <3> HIDE DEF mode, st, ld, at, moved, pre, neg
    <3> QED BY <3>1, <3>2, Zenon
  <2> QED BY <1>1, <2>1, <2>2, <2>3, <2>4, <2>5, <2>6
<1>5. mode[2] \in Int /\ (k \in 1 .. 4 => mode[3] = 136) /\ \E first, second : mode[1] = <<first, second>>
  BY <1>4, Zenon DEF IsParts
<1>6. Len(mode[1]) = 2 /\ DOMAIN mode[1] = 1 .. 2
  <2> DEFINE code == mode[1]
  <2>1. PICK first, second : code = <<first, second>>
    BY <1>5, Zenon
  <2> HIDE DEF code
  <2>2. Len(code) = 2 /\ DOMAIN code = 1 .. 2
    BY <2>1
  <2> QED BY <2>2 DEF code
<1> QED BY <1>5, <1>6, Zenon

LEMMA TransferStep ==
  ASSUME NEW size, NEW k, IsMode(size, k), Placed(2, Mode(size, k)[1]),
         Mode(size, k)[2] .. Mode(size, k)[2] + Length32(size) - 1 \subseteq Ram,
         Next, TransferFor(size, k)
  PROVE  TransferFor(size, k)'
<1> DEFINE code == Mode(size, k)[1]
           at == Offsets(code)
           a == Mode(size, k)[2]
           end == Mode(size, k)[3]
           st == Stem(size)
           ld == "LDR" \o size
           n == Length32(size)
           stored == Stored(size, k)
           value == Transferred(size)
           big == size \in {"SB", "SH"}
           starting == \A j \in 2 .. 12 : r[j] = InitialRegister(j)
<1>1. /\ \A i \in 1 .. 2 : at[i + 1] = Low(at[i] + Bytes(code[i]))
      /\ \A i \in 1 .. 2 : r[PC] = at[i] => Ins = code[i]
      /\ r[PC] = at[3] => ~Fetched
  <2> HIDE DEF code
  <2>1. /\ \A i \in 1 .. 2 : at[i + 1] = at[i] + Bytes(code[i]) /\ Low(at[i + 1]) = at[i + 1]
        /\ \A i \in 1 .. 2 : r[PC] = at[i] => Ins = code[i]
        /\ r[PC] = at[3] => ~Fetched
    BY DEF Placed, code
  <2> QED BY <2>1
<1>2. program' = program /\ start' = start /\ x' = x /\ Fetched
  BY ProgramStays, StepIs DEF x
<1>3. Ready /\ x \in Word
  BY Zenon DEF TransferFor
<1>4. it = NoIt => ~InItBlock
  BY DEF InItBlock, NoIt
<1>5. /\ st \in TransferNames /\ st \notin LoadNames /\ ld \in TransferNames /\ ld \in LoadNames
      /\ (ld \in SignedNames <=> big)
      /\ SizeOf(st) = n /\ SizeOf(ld) = n /\ n \in {1, 2, 4}
  BY NamesOfSize, Zenon
<1>6. a \in Int /\ (k \in 1 .. 4 => end = 136) /\ k \in 1 .. 12
  <2>1. k \in 1 .. 12
    BY Zenon DEF IsMode
  <2>2. a \in Int
    BY ModeParts
  <2>3. k \in 1 .. 4 => end = 136
    BY ModeParts
  <2> QED BY <2>1, <2>2, <2>3, Zenon
<1>7. value = (IF big THEN Low(SignExtend(x % 2^(ByteBits * n), ByteBits * n)) ELSE x % 2^(ByteBits * n))
  BY Zenon DEF Transferred
<1>8. value' = value /\ stored' = stored
  BY <1>2, Zenon DEF Transferred, Stored
<1>9. \/ r[PC] = at[1] /\ it = NoIt /\ r[0] = x /\ mem = InitialMem /\ starting
      \/ r[PC] = at[2] /\ it = NoIt /\ mem = stored /\ Between(size, k)
      \/ r[PC] = at[3]
  BY Zenon DEF TransferFor
<1> DEFINE Next2 == r'[PC] = at[2] /\ it' = NoIt /\ mem' = stored /\ Between(size, k)'
           Next3 == r'[PC] = at[3] /\ mem' = stored /\ r'[2] = value /\ r'[8] = end
<1>10. SUFFICES Ready' /\ (Next2 \/ Next3)
  BY <1>2, <1>3, <1>8, Zenon DEF TransferFor
<1>11. CASE r[PC] = at[1] /\ it = NoIt /\ r[0] = x /\ mem = InitialMem /\ starting
  <2>1. Ins = code[1]
    BY <1>1, <1>11
  <2>2. PICK b \in 3 .. 8 : \E moved :
          /\ Accesses(st, 0, b, a, moved, Bytes(Ins))
          /\ moved = IF k \in 5 .. 8 THEN end ELSE r[b]
          /\ k \in 5 .. 8 => b = 8
    BY <1>3, <1>4, <1>11, <2>1, StoreAccesses, Zenon
  <2>3. r[3] = 51 /\ r[6] = 102 /\ r[7] = 119 /\ r[8] = 136
    BY <1>11, InitialsAre
  <2>4. stored = Store(mem, a, r[0], n)
    BY <1>11, Zenon DEF Stored
  <2> HIDE DEF code, at, a, end, st, ld, n, stored, value
  <2>5. PICK moved :
          /\ Accesses(st, 0, b, a, moved, Bytes(code[1]))
          /\ moved = IF k \in 5 .. 8 THEN end ELSE r[b]
          /\ k \in 5 .. 8 => b = 8
    BY <2>1, <2>2
  <2>6. /\ r' = [j \in 0 .. 15 |-> IF j = PC THEN Low(r[PC] + Bytes(code[1]))
                                   ELSE IF j = b THEN moved ELSE r[j]]
        /\ mem' = stored
        /\ it' = NoIt /\ flags' = flags
    BY <1>5, <1>11, <2>4, <2>5 DEF Accesses
  <2>7. r' = [j \in 0 .. 15 |-> r'[j]]
    BY <2>6
  <2>8. /\ r'[PC] = at[2]
        /\ r'[3] = 51 /\ r'[6] = 102 /\ r'[7] = 119
        /\ r'[8] = IF k \in 5 .. 8 THEN end ELSE 136
    BY <1>1, <1>11, <2>3, <2>5, <2>6 DEF PC
  <2> QED BY <1>2, <1>3, <2>6, <2>7, <2>8, Zenon DEF Ready, Between, end
<1>12. CASE r[PC] = at[2] /\ it = NoIt /\ mem = stored /\ Between(size, k)
  <2>1. Ins = code[2]
    BY <1>1, <1>12
  <2>2. PICK b \in 3 .. 8 : \E moved :
          /\ Accesses(ld, 2, b, a, moved, Bytes(Ins))
          /\ moved = IF k \in 9 .. 12 THEN end ELSE r[b]
          /\ k \in 9 .. 12 => b = 8
    BY <1>3, <1>4, <1>12, <2>1, LoadAccesses, Zenon
  <2>3. r[8] = IF k \in 5 .. 8 THEN end ELSE 136
    BY <1>12, Zenon DEF Between
  <2>4. Load(a, n) = x % 2^(ByteBits * n)
    <3>1. mem = Store(InitialMem, a, x, n)
      BY <1>12, Zenon DEF Stored
    <3> HIDE DEF code, at, a, end, st, ld, n, stored, value
    <3>2. a .. a + n - 1 \subseteq Ram
      BY DEF a, n
    <3> QED BY <1>3, <1>5, <1>6, <3>1, <3>2, StoredIs
  <2>5. ValueAt(ld, a) = value
    <3>1. ValueAt(ld, a) = IF big THEN Low(SignExtend((x % 2^(ByteBits * n)) % 2^(ByteBits * n), ByteBits * n))
                           ELSE x % 2^(ByteBits * n)
      BY <1>5, <2>4, Zenon DEF ValueAt, Extended
    <3>2. (x % 2^(ByteBits * n)) % 2^(ByteBits * n) = x % 2^(ByteBits * n)
      <4> DEFINE m == 2^(ByteBits * n)
      <4>1. m \in Nat \ {0}
        <5>1. /\ 2^(ByteBits * 1) \in Nat \ {0} /\ 2^(ByteBits * 2) \in Nat \ {0}
              /\ 2^(ByteBits * 4) \in Nat \ {0}
          BY BytePowers, Sizes
        <5> QED BY <1>5, <5>1, Zenon
      <4> HIDE DEF m
      <4>2. x \in Int
        BY <1>3, Sizes
      <4>3. x % m \in 0 .. m - 1
        BY <4>1, <4>2, DivMod
      <4>4. (x % m) % m = x % m
        BY <4>1, <4>3
      <4> QED BY <4>4 DEF m
    <3> QED BY <1>7, <3>1, <3>2, Zenon
  <2> HIDE DEF code, at, a, end, st, ld, n, stored, value, big
  <2>6. PICK moved :
          /\ Accesses(ld, 2, b, a, moved, Bytes(code[2]))
          /\ moved = IF k \in 9 .. 12 THEN end ELSE r[b]
          /\ k \in 9 .. 12 => b = 8
    BY <2>1, <2>2
  <2>7. /\ r' = [j \in 0 .. 15 |-> IF j = PC THEN Low(r[PC] + Bytes(code[2]))
                                   ELSE IF j = b THEN moved ELSE IF j = 2 THEN value ELSE r[j]]
        /\ mem' = stored /\ flags' = flags
    BY <1>5, <1>12, <2>5, <2>6 DEF Accesses
  <2>8. r' = [j \in 0 .. 15 |-> r'[j]]
    BY <2>7
  <2>9. r'[PC] = at[3] /\ r'[2] = value /\ r'[8] = end
    BY <1>1, <1>6, <1>12, <2>3, <2>6, <2>7 DEF PC
  <2> QED BY <1>2, <1>3, <2>7, <2>8, <2>9, Zenon DEF Ready
<1> QED BY <1>1, <1>2, <1>9, <1>11, <1>12

LEMMA TransferPlaced ==
  ASSUME IsNamed, Group = "transfer"
  PROVE  /\ IsMode(Variant, Third)
         /\ Placed(2, Mode(Variant, Third)[1])
         /\ Mode(Variant, Third)[2] .. Mode(Variant, Third)[2] + Length32(Variant) - 1 \subseteq Ram
<1>1. /\ program.name \in ModeNames /\ IsMode(Variant, Third)
      /\ program = Laid(program.name, "M3", Mode(Variant, Third)[1])
  BY NameIs, Zenon DEF IsNamed, Group, Variant, Third
<1>2. Mode(Variant, Third)[2] .. Mode(Variant, Third)[2] + Length32(Variant) - 1 \subseteq Ram
  BY <1>1, RamAssumption, Zenon DEF Variant, Third
<1> DEFINE code == Mode(Variant, Third)[1]
<1>3. Len(code) = 2 /\ DOMAIN code = 1 .. 2
  BY <1>1, ModeParts DEF code
<1> HIDE DEF code
<1>4. Placed(2, code)
  BY <1>1, <1>3, LaidIs DEF code, IsNamed
<1> QED BY <1>1, <1>2, <1>4, Zenon DEF code

(***************************************************************************)
(* What is stored is loaded back, cut and extended to its size, through    *)
(* every addressing mode of execute_load_store and                         *)
(* execute_t32_load_store; nothing beside it is written, and the base      *)
(* register ends where the mode says: for words of every length, all       *)
(* operands and any memory that holds the addresses.                       *)
(***************************************************************************)
THEOREM TransfersRoundTripCorrect == Spec => []TransfersRoundTrip
<1> DEFINE Named == Group = "transfer" => IsNamed
<1>1. Init => Named /\ TransferInv
  <2> SUFFICES ASSUME Init, Group = "transfer" PROVE IsNamed /\ TransferFor(Variant, Third)
    BY Zenon DEF TransferInv
  <2>1. IsNamed
    BY Initially, Zenon DEF IsNamed
  <2>2. Offsets(Mode(Variant, Third)[1])[1] = 0
    BY <2>1, TransferPlaced, Zenon DEF Placed
  <2> QED BY <2>1, <2>2, Initially, Zenon DEF TransferFor
<1>2. Named /\ TransferInv /\ [Next]_vars => Named' /\ TransferInv'
  <2> SUFFICES ASSUME Named, TransferInv, [Next]_vars, Group' = "transfer" PROVE Named' /\ TransferInv'
    BY Zenon DEF TransferInv
  <2>1. program' = program /\ start' = start
    BY ProgramStays DEF vars
  <2>2. Group = "transfer" /\ IsNamed /\ Named' /\ Variant' = Variant /\ Third' = Third
    BY <2>1, Zenon DEF Group, IsNamed, Variant, Third
  <2>3. PICK size, k : size = Variant /\ k = Third
    OBVIOUS
  <2>4. TransferFor(size, k)
    BY <2>2, <2>3, Zenon DEF TransferInv
  <2>5. TransferFor(size, k)'
    <3>1. CASE Next
      BY <2>2, <2>3, <2>4, <3>1, TransferPlaced, TransferStep, Zenon
    <3>2. CASE UNCHANGED vars
      BY <2>4, <3>2, Zenon DEF TransferFor, Transferred, Stored, Between, Ready, x, vars
    <3> QED BY <3>1, <3>2
  <2> QED BY <2>2, <2>3, <2>5, Zenon DEF TransferInv
<1>3. Named /\ TransferInv => TransfersRoundTrip
  <2> SUFFICES ASSUME IsNamed, TransferFor(Variant, Third), Done, Group = "transfer"
               PROVE  LET mode == Mode(Variant, Third)
                          n    == Length32(Variant)
                      IN  /\ r[2] = Transferred(Variant)
                          /\ Changed \subseteq mode[2] .. mode[2] + n - 1
                          /\ r[8] = mode[3]
    BY Zenon DEF TransfersRoundTrip, TransferInv, Transferred
  <2> DEFINE at == Offsets(Mode(Variant, Third)[1])
             a == Mode(Variant, Third)[2]
             n == Length32(Variant)
  <2>1. r[PC] # at[1] /\ r[PC] # at[2]
    <3>1. 1 \in 1 .. 2 /\ 2 \in 1 .. 2
      OBVIOUS
    <3> QED BY <3>1, TransferPlaced, Zenon DEF Placed
  <2>2. /\ mem = Store(InitialMem, a, x, n) /\ x \in Word
        /\ r[2] = Transferred(Variant) /\ r[8] = Mode(Variant, Third)[3]
    BY <2>1, Zenon DEF TransferFor, Stored
  <2>3. n \in {1, 2, 4} /\ a \in Int /\ a .. a + n - 1 \subseteq Ram
    BY TransferPlaced, NamesOfSize, ModeParts, ZenonT(30)
  <2>4. \A c \in Ram : mem[c] # InitialMem[c] => c \in a .. a + n - 1
    BY <2>2, <2>3, StoredIs, Zenon
  <2>5. Changed \subseteq a .. a + n - 1
    BY <2>4, Zenon DEF Changed
  <2> QED BY <2>2, <2>5, Zenon
<1> QED BY <1>1, <1>2, <1>3, PTL DEF Spec

-----------------------------------------------------------------------------
(* Exclusive accesses *)

(* The sizes of exclusive accesses. *)
IsSize(size) == size \in ExclusiveSizes

(* The types of the exclusive accesses of a size, and the handlers the core has for them. *)
LEMMA ExclusiveTypes ==
  ASSUME NEW size, IsSize(size)
  PROVE  LET load  == "T32_LDREX" \o size
             store == "T32_STREX" \o size
             n     == Length32(size)
         IN  /\ load \in {"T32_LDREX", "T32_LDREXB", "T32_LDREXH"}
             /\ store \in {"T32_STREX", "T32_STREXB", "T32_STREXH"}
             /\ Ins.type \in {load, store} => ExclusiveSize = n
             /\ n \in {1, 2, 4}
             /\ IsSize(Other(size)) /\ Length32(Other(size)) # n
<1> DEFINE load  == "T32_LDREX" \o size
           store == "T32_STREX" \o size
           n     == Length32(size)
           other == Length32(Other(size))
<1>1. \/ load = "T32_LDREX" /\ store = "T32_STREX" /\ n = 4 /\ other = 1
      \/ load = "T32_LDREXB" /\ store = "T32_STREXB" /\ n = 1 /\ other = 2
      \/ load = "T32_LDREXH" /\ store = "T32_STREXH" /\ n = 2 /\ other = 1
  <2>1. /\ size = "" => load = "T32_LDREX" /\ store = "T32_STREX" /\ n = 4 /\ other = 1
        /\ size = "B" => load = "T32_LDREXB" /\ store = "T32_STREXB" /\ n = 1 /\ other = 2
        /\ size = "H" => load = "T32_LDREXH" /\ store = "T32_STREXH" /\ n = 2 /\ other = 1
    BY ExclusivesAssumption, Zenon DEF Length32, Other
  <2>2. size = "" \/ size = "B" \/ size = "H"
    BY Zenon DEF IsSize, ExclusiveSizes
  <2> HIDE DEF load, store, n, other
  <2> QED BY <2>1, <2>2, Zenon
<1>2. IsSize(Other(size))
  BY Zenon DEF IsSize, ExclusiveSizes, Other
<1> HIDE DEF load, store, n, other
<1>3. Ins.type \in {load, store} => ExclusiveSize = n
  BY <1>1 DEF ExclusiveSize
<1>4. n \in {1, 2, 4} /\ other # n
  BY <1>1
<1>5. /\ load \in {"T32_LDREX", "T32_LDREXB", "T32_LDREXH"}
      /\ store \in {"T32_STREX", "T32_STREXB", "T32_STREXH"}
  BY <1>1
<1> QED BY <1>2, <1>3, <1>4, <1>5, Zenon DEF load, store, n, other

(* The monitor holds n bytes at address a. *)
Held(a, n) == [on |-> TRUE, address |-> a, size |-> n]

(* LDREX, LDREXB, LDREXH: Rt gets the bytes and the monitor holds the address and the size. *)
LEMMA LoadExclusiveStep ==
  ASSUME Next, Ready, ~InItBlock, NEW size, IsSize(size), NEW d \in 0 .. 12, NEW b \in 0 .. 12,
         r[b] \in Word, Ins = ExclusiveLoad(size, d, b)
  PROVE  LET n == Length32(size) IN
         /\ Steps(Bytes(Ins)) /\ Sets(d, Load(r[b], n))
         /\ monitor' = Held(r[b], n) /\ mem' = mem
<1> DEFINE n == Length32(size)
           type == "T32_LDREX" \o size
<1>1. type \in {"T32_LDREX", "T32_LDREXB", "T32_LDREXH"} /\ (Ins.type = type => ExclusiveSize = n)
  BY ExclusiveTypes, Zenon
<1>2. Ins = Of(type, [rd |-> d, rn |-> b, imm |-> 0])
  BY Zenon DEF ExclusiveLoad, DNI
<1> HIDE DEF type, n
<1>3. Ins.type = type /\ Ins.rd = d /\ Ins.rn = b /\ Ins.imm = 0
  BY <1>2 DEF Of
<1>4. ~Skipped /\ ~Gated
  BY <1>1, <1>3 DEF Skipped, Gated
<1>5. ExecuteExclusiveLoad
  BY <1>1, <1>3, <1>4, TypesRun, StepIs DEF Ready
<1>6. ExclusiveSize = n /\ ExclusiveAddress = r[b]
  <2>1. r[b] + 0 = r[b] /\ Low(r[b]) = r[b]
    BY LowIs, Sizes
  <2>2. ExclusiveAddress = Low(r[b] + 0)
    BY <1>3 DEF ExclusiveAddress
  <2> QED BY <1>1, <1>3, <2>1, <2>2
<1>7. /\ Finish(Write(d, Load(r[b], n)))
      /\ monitor' = Held(r[b], n) /\ UNCHANGED <<program, flags, mem, start>>
  BY <1>3, <1>5, <1>6, Zenon DEF ExecuteExclusiveLoad, Held
<1>8. it' = it /\ Writes(d, Load(r[b], n), Bytes(Ins))
  <2> DEFINE value == Load(r[b], n)
  <2>1. NextPc = Low(r[PC] + Bytes(Ins))
    BY Zenon DEF NextPc, Bytes
  <2>2. Finish(Write(d, value))
    BY <1>7
  <2> HIDE DEF value
  <2>3. it' = it /\ Writes(d, value, Bytes(Ins))
    BY <1>4, <2>1, <2>2 DEF Finish, Write, Writes, Ready, PC
  <2> QED BY <2>3 DEF value
<1>9. Steps(Bytes(Ins)) /\ Sets(d, Load(r[b], n))
  BY <1>7, <1>8, WritesIs DEF Ready
<1> QED BY <1>7, <1>9, Zenon DEF n

(* STREX, STREXB, STREXH: stored, with 0 in Rd, only if the monitor holds this access. *)
LEMMA StoreExclusiveStep ==
  ASSUME Next, Ready, ~InItBlock, NEW size, IsSize(size), NEW d \in 0 .. 12, NEW m \in 0 .. 12,
         NEW b \in 0 .. 12, r[b] \in Word, Ins = ExclusiveStore(size, d, m, b)
  PROVE  LET n     == Length32(size)
             holds == monitor = Held(r[b], n)
         IN  /\ Steps(Bytes(Ins)) /\ Sets(d, IF holds THEN 0 ELSE 1)
             /\ mem' = IF holds THEN Store(mem, r[b], r[m], n) ELSE mem
             /\ monitor' = Open
<1> DEFINE n == Length32(size)
           type == "T32_STREX" \o size
           holds == monitor = Held(r[b], n)
           value == IF holds THEN 0 ELSE 1
<1>1. type \in {"T32_STREX", "T32_STREXB", "T32_STREXH"} /\ (Ins.type = type => ExclusiveSize = n)
  BY ExclusiveTypes, Zenon
<1>2. Ins = Of(type, [rd |-> d, rn |-> b, imm |-> 0, rm |-> m])
  BY Zenon DEF ExclusiveStore
<1> HIDE DEF type, n
<1>3. Ins.type = type /\ Ins.rd = d /\ Ins.rn = b /\ Ins.imm = 0 /\ Ins.rm = m
  BY <1>2 DEF Of
<1>4. ~Skipped /\ ~Gated
  BY <1>1, <1>3 DEF Skipped, Gated
<1>5. ExecuteExclusiveStore
  BY <1>1, <1>3, <1>4, TypesRun, StepIs DEF Ready
<1>6. ExclusiveSize = n /\ ExclusiveAddress = r[b]
  <2>1. r[b] + 0 = r[b] /\ Low(r[b]) = r[b]
    BY LowIs, Sizes
  <2>2. ExclusiveAddress = Low(r[b] + 0)
    BY <1>3 DEF ExclusiveAddress
  <2> QED BY <1>1, <1>3, <2>1, <2>2
<1>7. /\ Finish(Write(d, value))
      /\ mem' = (IF holds THEN Store(mem, r[b], r[m], n) ELSE mem)
      /\ monitor' = Open /\ UNCHANGED <<program, flags, start>>
  BY <1>3, <1>5, <1>6, Zenon DEF ExecuteExclusiveStore, MonitorHolds, Held
<1> HIDE DEF value
<1>8. it' = it /\ Writes(d, value, Bytes(Ins))
  <2>1. NextPc = Low(r[PC] + Bytes(Ins))
    BY Zenon DEF NextPc, Bytes
  <2> QED BY <1>4, <1>7, <2>1 DEF Finish, Write, Writes, Ready, PC
<1>9. Steps(Bytes(Ins)) /\ Sets(d, value)
  BY <1>7, <1>8, WritesIs DEF Ready
<1> QED BY <1>7, <1>9, Zenon DEF n, value

(* The instructions between exclusive accesses *)
Keeps == \A j \in 0 .. 14 : r'[j] = r[j]

(* CLREX opens the monitor and leaves registers and memory alone. *)
LEMMA ClearStep ==
  ASSUME Next, Ready, ~InItBlock, Ins = Of("T32_CLREX", [imm |-> 0])
  PROVE  Steps(Bytes(Ins)) /\ Keeps /\ monitor' = Open /\ mem' = mem
<1>1. Ins.type = "T32_CLREX"
  BY DEF Of
<1>2. ~Skipped /\ ~Gated
  BY DEF Skipped, Gated
<1>3. ExecuteClrex
  BY <1>1, <1>2, TypesRun, StepIs DEF Ready
<1>4. NextPc = Low(r[PC] + Bytes(Ins))
  BY Zenon DEF NextPc, Bytes
<1>5. Finish(r) /\ monitor' = Open /\ UNCHANGED <<program, flags, mem, start>>
  BY <1>3, Zenon DEF ExecuteClrex
<1>6. it' = it /\ Writes(PC, 0, Bytes(Ins))
  BY <1>2, <1>4, <1>5 DEF Finish, Writes, Ready, PC
<1>7. Steps(Bytes(Ins)) /\ Sets(PC, 0)
  BY <1>5, <1>6, WritesIs DEF Ready
<1>8. Keeps
  BY <1>7 DEF Sets, Keeps, PC
<1> QED BY <1>5, <1>7, <1>8, Zenon

(* CBNZ falls through once the store has answered 0. *)
LEMMA LoopBackStep ==
  ASSUME Next, Ready, ~InItBlock, r[2] = 0, Ins = Of("CBNZ", [rn |-> 2, imm |-> -14])
  PROVE  Steps(Bytes(Ins)) /\ Keeps /\ UNCHANGED <<mem, monitor>>
<1>1. Ins.type = "CBNZ" /\ Ins.rn = 2
  BY DEF Of
<1>2. ~Skipped /\ ~Gated
  BY DEF Skipped, Gated
<1>3. ExecuteCbzCbnz
  BY <1>1, <1>2, TypesRun, StepIs DEF Ready
<1>4. NextPc = Low(r[PC] + Bytes(Ins))
  BY Zenon DEF NextPc, Bytes
<1>5. Finish(r) /\ UNCHANGED <<program, flags, monitor, mem, start>>
  <2>1. ~((r[Ins.rn] = 0) = (Ins.type = "CBZ"))
    BY <1>1
  <2> QED BY <1>3, <2>1, Zenon DEF ExecuteCbzCbnz
<1>6. it' = it /\ Writes(PC, 0, Bytes(Ins))
  BY <1>2, <1>4, <1>5 DEF Finish, Writes, Ready, PC
<1>7. Steps(Bytes(Ins)) /\ Sets(PC, 0)
  BY <1>5, <1>6, WritesIs DEF Ready
<1>8. Keeps
  BY <1>7 DEF Sets, Keeps, PC
<1> QED BY <1>5, <1>7, <1>8, Zenon

(* ADDW sets the next address and leaves the monitor as it was. *)
LEMMA ApartStep ==
  ASSUME Next, Ready, ~InItBlock, r[8] = 136, Ins = DNI("T32_ADDW", 9, 8, 4)
  PROVE  Steps(Bytes(Ins)) /\ Sets(9, 140) /\ UNCHANGED <<mem, monitor>>
<1>1. Ins.type = "T32_ADDW" /\ Ins.rd = 9 /\ Ins.rn = 8 /\ Ins.imm = 4 /\ Has("imm") /\ ~Has("s")
  BY DEF DNI, Of, Has
<1>2. ~Skipped /\ ~Gated
  BY DEF Skipped, Gated
<1>3. ExecuteT32DataProcessing
  <2>1. "T32_ADDW" \in ImmediateTypes \cup RegisterTypes
    BY DEF ImmediateTypes
  <2>2. HandlerOf[program.core]["T32_ADDW"] = "execute_t32_data_processing"
    <3> DEFINE h == <<"execute_t32_data_processing", ImmediateTypes \cup RegisterTypes>>
    <3>1. h \in CoreHandlers("M3") /\ "T32_ADDW" \in h[2] /\ h[1] = "execute_t32_data_processing"
      BY <2>1, HandlersOfM3
    <3> HIDE DEF h
    <3> QED BY <3>1, DispatchIs DEF Ready
  <2> QED BY <1>1, <1>2, <2>2, StepIs
<1>4. Operation32["T32_ADDW"] = "ADD"
  BY ExclusivesAssumption, Zenon
<1>5. Outcome32.result = 140
  <2>1. Adjusted(8) = 136
    BY DEF Adjusted, PC
  <2>2. Low(4) = 4 /\ Low(136 + 4) = 140
    <3>1. 4 \in 0 .. 204 /\ 136 + 4 \in 0 .. 204 /\ 136 + 4 = 140
      OBVIOUS
    <3>2. 4 \in Word /\ 136 + 4 \in Word
      <4>1. 0 .. 204 \subseteq Word
        BY InitialsAre
      <4> QED BY <3>1, <4>1
    <3>3. ASSUME NEW z \in Word PROVE Low(z) = z
      <4>1. z \in Int /\ z \in 0 .. Modulus - 1
        BY Sizes
      <4> QED BY <4>1, LowIs, Zenon
    <3>4. Low(4) = 4 /\ Low(136 + 4) = 136 + 4
      BY <3>2, <3>3, Zenon
    <3> QED BY <3>1, <3>4
  <2>3. Operand32 = 4
    BY <1>1, <2>2, Zenon DEF Operand32
  <2>4. Outcome32 = Add(136, 4)
    BY <1>1, <1>4, <2>1, <2>3 DEF Outcome32
  <2> QED BY <2>2, <2>4 DEF Add, Result
<1>6. Finish(Write(9, 140)) /\ flags' = flags /\ UNCHANGED <<program, monitor, mem, start>>
  BY <1>1, <1>3, <1>4, <1>5 DEF ExecuteT32DataProcessing
<1>7. NextPc = Low(r[PC] + Bytes(Ins))
  BY Zenon DEF NextPc, Bytes
<1>8. it' = it /\ Writes(9, 140, Bytes(Ins))
  BY <1>2, <1>6, <1>7 DEF Finish, Write, Writes, Ready, PC
<1> QED BY <1>6, <1>8, WritesIs DEF Ready

(* ADDS counts the loaded value up by R0. *)
LEMMA AddOnceStep ==
  ASSUME Next, Ready, ~InItBlock, Ins = DNM("ADD_REG", 4, 4, 0)
  PROVE  Steps(Bytes(Ins)) /\ Sets(4, Low(r[4] + r[0])) /\ UNCHANGED <<mem, monitor>>
<1>1. Ins.type = "ADD_REG" /\ ~Ins.wide
  <2>1. "ADD_REG" \in Narrow
    BY DEF Narrow, DataProcessingTypes
  <2> QED BY <2>1 DEF DNM, Of
<1>2. ~Skipped /\ "ADD_REG" \in DataProcessingTypes
  BY DEF Skipped, Gated, DataProcessingTypes
<1>3. ExecuteDataProcessing
  BY <1>1, <1>2, TypesRun, StepIs DEF Ready
<1>4. UNCHANGED <<mem, monitor>>
  BY <1>3, Zenon DEF ExecuteDataProcessing
<1>5. LET out == Add(r[4], r[0]) IN Steps(2) /\ Sets(4, out.result)
  <2>1. 4 \in 0 .. 12 /\ 0 \in 0 .. 12
    OBVIOUS
  <2> QED BY <2>1, NarrowSumStep, Zenon
<1>6. Add(r[4], r[0]).result = Low(r[4] + r[0]) /\ Bytes(Ins) = 2
  BY <1>1 DEF Add, Result, Bytes
<1> QED BY <1>4, <1>5, <1>6

(* What the programs around an exclusive access keep. *)
ExclusiveReady == Ready /\ x \in Word /\ it = NoIt /\ r[0] = x /\ r[8] = 136

(* An instruction that sets one register keeps R0 and the address in R8. *)
LEMMA ExclusiveMoves ==
  ASSUME ExclusiveReady, NEW d \in {2, 4, 5, 9}, NEW value, NEW k, Steps(k), Sets(d, value)
  PROVE  /\ ExclusiveReady' /\ r'[PC] = Low(r[PC] + k)
         /\ \A j \in {2, 4, 5, 9} : r'[j] = IF j = d THEN value ELSE r[j]
<1>1. r' = [j \in 0 .. 15 |-> r'[j]] /\ r'[PC] = Low(r[PC] + k) /\ flags' \in Flags /\ UNCHANGED <<program, start, it>>
  BY Zenon DEF Steps
<1>2. r'[0] = r[0] /\ r'[8] = r[8] /\ \A j \in {2, 4, 5, 9} : r'[j] = IF j = d THEN value ELSE r[j]
  BY DEF Sets
<1>3. ExclusiveReady'
  BY <1>1, <1>2, Zenon DEF ExclusiveReady, Ready, x
<1> QED BY <1>1, <1>2, <1>3

(* An instruction that sets no register keeps all that the programs rely on. *)
LEMMA ExclusiveStays ==
  ASSUME ExclusiveReady, NEW k, Steps(k), Keeps
  PROVE  /\ ExclusiveReady' /\ r'[PC] = Low(r[PC] + k)
         /\ \A j \in {2, 4, 5, 9} : r'[j] = r[j]
<1>1. r' = [j \in 0 .. 15 |-> r'[j]] /\ r'[PC] = Low(r[PC] + k) /\ flags' \in Flags /\ UNCHANGED <<program, start, it>>
  BY Zenon DEF Steps
<1>2. r'[0] = r[0] /\ r'[8] = r[8] /\ \A j \in {2, 4, 5, 9} : r'[j] = r[j]
  BY DEF Keeps
<1>3. ExclusiveReady'
  BY <1>1, <1>2, Zenon DEF ExclusiveReady, Ready, x
<1> QED BY <1>1, <1>2, <1>3

(* PC and the part of the state that only exclusive accesses change. *)
Is(a, held, m) == r[PC] = a /\ monitor = held /\ mem = m

(* The exclusive load at R8. *)
LEMMA LoadsAt ==
  ASSUME Next, ExclusiveReady, NEW size, IsSize(size), NEW d \in {4, 5}, NEW b \in {8, 9},
         r[b] \in Word, Ins = ExclusiveLoad(size, d, b)
  PROVE  /\ ExclusiveReady' /\ r'[d] = Load(r[b], Length32(size))
         /\ \A j \in {2, 4, 5, 9} : j # d => r'[j] = r[j]
         /\ r'[PC] = Low(r[PC] + Bytes(Ins)) /\ monitor' = Held(r[b], Length32(size)) /\ mem' = mem
<1> DEFINE n == Length32(size)
<1>1. Ready /\ ~InItBlock /\ d \in 0 .. 12 /\ b \in 0 .. 12 /\ d \in {2, 4, 5, 9}
  BY DEF ExclusiveReady, InItBlock, NoIt
<1>2. Steps(Bytes(Ins)) /\ Sets(d, Load(r[b], n)) /\ monitor' = Held(r[b], n) /\ mem' = mem
  BY <1>1, LoadExclusiveStep, Zenon
<1> HIDE DEF n
<1>3. /\ ExclusiveReady' /\ r'[PC] = Low(r[PC] + Bytes(Ins))
      /\ \A j \in {2, 4, 5, 9} : r'[j] = IF j = d THEN Load(r[b], n) ELSE r[j]
  BY <1>1, <1>2, ExclusiveMoves
<1>4. r'[d] = Load(r[b], n) /\ \A j \in {2, 4, 5, 9} : j # d => r'[j] = r[j]
  BY <1>1, <1>3
<1> QED BY <1>2, <1>3, <1>4, Zenon DEF n

(* The exclusive store at R8. *)
LEMMA StoresAt ==
  ASSUME Next, ExclusiveReady, NEW size, IsSize(size), NEW d \in {2, 5}, NEW m \in {0, 1, 4}, NEW b \in {8, 9},
         r[b] \in Word, Ins = ExclusiveStore(size, d, m, b)
  PROVE  LET n     == Length32(size)
             holds == monitor = Held(r[b], n)
         IN  /\ ExclusiveReady' /\ r'[d] = (IF holds THEN 0 ELSE 1)
             /\ \A j \in {2, 4, 5, 9} : j # d => r'[j] = r[j]
             /\ r'[PC] = Low(r[PC] + Bytes(Ins)) /\ monitor' = Open
             /\ mem' = IF holds THEN Store(mem, r[b], r[m], n) ELSE mem
<1> DEFINE n == Length32(size)
           holds == monitor = Held(r[b], n)
           answer == IF holds THEN 0 ELSE 1
<1>1. Ready /\ ~InItBlock /\ d \in 0 .. 12 /\ m \in 0 .. 12 /\ b \in 0 .. 12 /\ d \in {2, 4, 5, 9}
  BY DEF ExclusiveReady, InItBlock, NoIt
<1>2. /\ Steps(Bytes(Ins)) /\ Sets(d, answer) /\ monitor' = Open
      /\ mem' = IF holds THEN Store(mem, r[b], r[m], n) ELSE mem
  BY <1>1, StoreExclusiveStep, Zenon
<1> HIDE DEF n, holds, answer
<1>3. /\ ExclusiveReady' /\ r'[PC] = Low(r[PC] + Bytes(Ins))
      /\ \A j \in {2, 4, 5, 9} : r'[j] = IF j = d THEN answer ELSE r[j]
  BY <1>1, <1>2, ExclusiveMoves
<1>4. r'[d] = answer /\ \A j \in {2, 4, 5, 9} : j # d => r'[j] = r[j]
  BY <1>1, <1>3
<1> QED BY <1>2, <1>3, <1>4, Zenon DEF n, holds, answer

(* The four instructions that stand between the exclusive accesses. *)
LEMMA BetweenAt ==
  ASSUME Next, ExclusiveReady
  PROVE  /\ Ins = Of("T32_CLREX", [imm |-> 0]) =>
              /\ ExclusiveReady' /\ r'[PC] = Low(r[PC] + Bytes(Ins)) /\ monitor' = Open /\ mem' = mem
         /\ Ins = DNI("T32_ADDW", 9, 8, 4) =>
              /\ ExclusiveReady' /\ r'[PC] = Low(r[PC] + Bytes(Ins)) /\ UNCHANGED <<monitor, mem>>
              /\ r'[9] = 140 /\ r'[2] = r[2]
         /\ Ins = DNM("ADD_REG", 4, 4, 0) =>
              /\ ExclusiveReady' /\ r'[PC] = Low(r[PC] + Bytes(Ins)) /\ UNCHANGED <<monitor, mem>>
              /\ r'[4] = Low(r[4] + r[0])
         /\ Ins = Of("CBNZ", [rn |-> 2, imm |-> -14]) /\ r[2] = 0 =>
              /\ ExclusiveReady' /\ r'[PC] = Low(r[PC] + Bytes(Ins)) /\ UNCHANGED <<monitor, mem>>
              /\ r'[2] = 0
<1>1. Ready /\ ~InItBlock /\ r[8] = 136
  BY DEF ExclusiveReady, InItBlock, NoIt
<1>2. ASSUME Ins = Of("T32_CLREX", [imm |-> 0])
      PROVE  ExclusiveReady' /\ r'[PC] = Low(r[PC] + Bytes(Ins)) /\ monitor' = Open /\ mem' = mem
  <2>1. Steps(Bytes(Ins)) /\ Keeps /\ monitor' = Open /\ mem' = mem
    BY <1>1, <1>2, ClearStep, Zenon
  <2> QED BY <2>1, ExclusiveStays
<1>3. ASSUME Ins = DNI("T32_ADDW", 9, 8, 4)
      PROVE  /\ ExclusiveReady' /\ r'[PC] = Low(r[PC] + Bytes(Ins)) /\ UNCHANGED <<monitor, mem>>
             /\ r'[9] = 140 /\ r'[2] = r[2]
  <2>1. Steps(Bytes(Ins)) /\ Sets(9, 140) /\ UNCHANGED <<mem, monitor>>
    BY <1>1, <1>3, ApartStep, Zenon
  <2> QED BY <2>1, ExclusiveMoves
<1>4. ASSUME Ins = DNM("ADD_REG", 4, 4, 0)
      PROVE  /\ ExclusiveReady' /\ r'[PC] = Low(r[PC] + Bytes(Ins)) /\ UNCHANGED <<monitor, mem>>
             /\ r'[4] = Low(r[4] + r[0])
  <2>1. Steps(Bytes(Ins)) /\ Sets(4, Low(r[4] + r[0])) /\ UNCHANGED <<mem, monitor>>
    BY <1>1, <1>4, AddOnceStep, Zenon
  <2> QED BY <2>1, ExclusiveMoves
<1>5. ASSUME Ins = Of("CBNZ", [rn |-> 2, imm |-> -14]), r[2] = 0
      PROVE  /\ ExclusiveReady' /\ r'[PC] = Low(r[PC] + Bytes(Ins)) /\ UNCHANGED <<monitor, mem>>
             /\ r'[2] = 0
  <2>1. Steps(Bytes(Ins)) /\ Keeps /\ UNCHANGED <<mem, monitor>>
    BY <1>1, <1>5, LoopBackStep, Zenon
  <2> QED BY <1>5, <2>1, ExclusiveStays
<1> QED BY <1>2, <1>3, <1>4, <1>5, Zenon

(* The word of n bytes behind R8. *)
WordOf(m, n) ==
  LET byte(i) == IF i < n THEN m[Base8 + i] * 2^(ByteBits * i) ELSE 0
  IN  byte(0) + byte(1) + byte(2) + byte(3)

(* What a load at R8 reads. *)
LEMMA LoadIsWord == \A n : Load(136, n) = WordOf(mem, n)
<1>1. Low(136 + 0) = 136 + 0 /\ Low(136 + 1) = 136 + 1 /\ Low(136 + 2) = 136 + 2 /\ Low(136 + 3) = 136 + 3
  <2>1. 0 .. 204 \subseteq Word
    BY InitialsAre
  <2>2. /\ 136 + 0 \in 0 .. 204 /\ 136 + 1 \in 0 .. 204 /\ 136 + 2 \in 0 .. 204 /\ 136 + 3 \in 0 .. 204
        /\ 136 + 0 \in Int /\ 136 + 1 \in Int /\ 136 + 2 \in Int /\ 136 + 3 \in Int
    OBVIOUS
  <2>3. 136 + 0 \in Word /\ 136 + 1 \in Word /\ 136 + 2 \in Word /\ 136 + 3 \in Word
    BY <2>1, <2>2
  <2>4. ASSUME NEW z \in Word PROVE Low(z) = z
    <3>1. z \in Int /\ z \in 0 .. Modulus - 1
      BY Sizes
    <3> QED BY <3>1, LowIs, Zenon
  <2> QED BY <2>3, <2>4, Zenon
<1>2. Base8 = 136
  BY InitialsAre
<1>3. /\ mem[Low(136 + 0)] = mem[Base8 + 0] /\ mem[Low(136 + 1)] = mem[Base8 + 1]
      /\ mem[Low(136 + 2)] = mem[Base8 + 2] /\ mem[Low(136 + 3)] = mem[Base8 + 3]
  BY <1>1, <1>2, Zenon
<1>4. ASSUME NEW n PROVE Load(136, n) = WordOf(mem, n)
  <2> DEFINE P(a, b, c, d) == (IF 0 < n THEN a * 2^(ByteBits * 0) ELSE 0) + (IF 1 < n THEN b * 2^(ByteBits * 1) ELSE 0)
                                + (IF 2 < n THEN c * 2^(ByteBits * 2) ELSE 0) + (IF 3 < n THEN d * 2^(ByteBits * 3) ELSE 0)
  <2>1. Load(136, n) = P(mem[Low(136 + 0)], mem[Low(136 + 1)], mem[Low(136 + 2)], mem[Low(136 + 3)])
    BY Zenon DEF Load
  <2>2. WordOf(mem, n) = P(mem[Base8 + 0], mem[Base8 + 1], mem[Base8 + 2], mem[Base8 + 3])
    BY Zenon DEF WordOf
  <2> HIDE DEF P
  <2> QED BY <1>3, <2>1, <2>2, Zenon
<1> QED BY <1>4, Zenon

(* How far a program has come: PC, the monitor, memory and the registers by then. *)
ExclusiveStage(v, size, X, pc, held, m, s) ==
  LET at  == Offsets(ExclusiveCode(v, size))
      n   == Length32(size)
      old == InitialMem
      sum == Low(WordOf(old, n) + X)
      At(i, h, c) == pc = at[i] /\ held = h /\ m = c
      Put(value)  == Store(old, 136, value, n)
  IN  \/ At(1, Open, old)
      \/ v \in {"held", "twice", "cleared", "moved", "spent"} /\ At(2, Held(136, n), old)
      \/ v = "held" /\ At(3, Open, Put(X)) /\ s[2] = 0
      \/ v = "twice" /\ At(3, Open, Put(X))
      \/ v = "twice" /\ At(4, Open, Put(X)) /\ s[2] = 1
      \/ v = "unloaded" /\ At(2, Open, old) /\ s[2] = 1
      \/ v = "cleared" /\ At(3, Open, old)
      \/ v = "cleared" /\ At(4, Open, old) /\ s[2] = 1
      \/ v = "apart" /\ At(2, Open, old) /\ s[9] = 140
      \/ v = "apart" /\ At(3, Held(140, n), old)
      \/ v = "apart" /\ At(4, Open, old) /\ s[2] = 1
      \/ v \in {"moved", "spent"} /\ At(3, Held(136, n), old) /\ s[9] = 140
      \/ v = "moved" /\ At(4, Held(140, n), old)
      \/ v = "spent" /\ At(4, Open, old)
      \/ v \in {"moved", "spent"} /\ At(5, Open, old) /\ s[2] = 1
      \/ v = "sized" /\ At(2, Held(136, Length32(Other(size))), old)
      \/ v = "sized" /\ At(3, Open, old) /\ s[2] = 1
      \/ v = "add" /\ At(2, Held(136, n), old) /\ s[4] = WordOf(old, n)
      \/ v = "add" /\ At(3, Held(136, n), old) /\ s[4] = sum
      \/ v = "add" /\ (At(4, Open, Put(sum)) \/ At(5, Open, Put(sum))) /\ s[2] = 0

ExclusiveVariants == {"held", "twice", "unloaded", "cleared", "apart", "moved", "sized", "spent", "add"}

ExclusiveLength(v) ==
  CASE v = "unloaded" -> 1 [] v \in {"held", "sized"} -> 2 [] v \in {"twice", "cleared", "apart"} -> 3
    [] v \in {"moved", "spent", "add"} -> 4

(* The instructions of each program, one by one. *)
LEMMA ExclusiveCodeIs ==
  ASSUME NEW v \in ExclusiveVariants, NEW size
  PROVE  LET code  == ExclusiveCode(v, size)
             load  == ExclusiveLoad(size, 4, 8)
             store == ExclusiveStore(size, 2, 0, 8)
             apart == DNI("T32_ADDW", 9, 8, 4)
         IN  /\ ExclusiveLength(v) \in 1 .. 6
             /\ Len(code) = ExclusiveLength(v) /\ DOMAIN code = 1 .. ExclusiveLength(v)
             /\ v \in {"held", "twice", "cleared", "moved", "spent", "add"} => code[1] = load
             /\ v = "held" => code[2] = store
             /\ v = "twice" => code[2] = ExclusiveStore(size, 5, 0, 8) /\ code[3] = store
             /\ v = "unloaded" => code[1] = store
             /\ v = "cleared" => code[2] = Of("T32_CLREX", [imm |-> 0]) /\ code[3] = store
             /\ v = "apart" => code[1] = apart /\ code[2] = ExclusiveLoad(size, 4, 9) /\ code[3] = store
             /\ v = "moved" => code[2] = apart /\ code[3] = ExclusiveLoad(size, 5, 9) /\ code[4] = store
             /\ v = "sized" => code[1] = ExclusiveLoad(Other(size), 4, 8) /\ code[2] = store
             /\ v = "spent" => code[2] = apart /\ code[3] = ExclusiveStore(size, 5, 1, 9) /\ code[4] = store
             /\ v = "add" => /\ code[2] = DNM("ADD_REG", 4, 4, 0) /\ code[3] = ExclusiveStore(size, 2, 4, 8)
                             /\ code[4] = Of("CBNZ", [rn |-> 2, imm |-> -14])
<1> DEFINE load  == ExclusiveLoad(size, 4, 8)
           store == ExclusiveStore(size, 2, 0, 8)
           spent == ExclusiveStore(size, 5, 1, 9)
           twice == ExclusiveStore(size, 5, 0, 8)
           added == ExclusiveStore(size, 2, 4, 8)
           apart == DNI("T32_ADDW", 9, 8, 4)
           far4  == ExclusiveLoad(size, 4, 9)
           far5  == ExclusiveLoad(size, 5, 9)
           other == ExclusiveLoad(Other(size), 4, 8)
           clear == Of("T32_CLREX", [imm |-> 0])
           add   == DNM("ADD_REG", 4, 4, 0)
           back  == Of("CBNZ", [rn |-> 2, imm |-> -14])
           code  == ExclusiveCode(v, size)
<1>1. code = CASE v = "held"     -> <<load, store>>
               [] v = "twice"    -> <<load, twice, store>>
               [] v = "unloaded" -> <<store>>
               [] v = "cleared"  -> <<load, clear, store>>
               [] v = "apart"    -> <<apart, far4, store>>
               [] v = "moved"    -> <<load, apart, far5, store>>
               [] v = "sized"    -> <<other, store>>
               [] v = "spent"    -> <<load, apart, spent, store>>
               [] v = "add"      -> <<load, add, added, back>>
  BY Zenon DEF ExclusiveCode
<1>2. v \in ExclusiveVariants
  OBVIOUS
<1> HIDE DEF load, store, spent, twice, added, apart, far4, far5, other, clear, add, back, code
<1>3. CASE v = "held"
  <2>1. code = <<load, store>>
    BY <1>1, <1>3
  <2> QED BY <1>3, <2>1 DEF ExclusiveLength, load, store, code
<1>4. CASE v = "twice"
  <2>1. code = <<load, twice, store>>
    BY <1>1, <1>4
  <2> QED BY <1>4, <2>1 DEF ExclusiveLength, load, twice, store, code
<1>5. CASE v = "unloaded"
  <2>1. code = <<store>>
    BY <1>1, <1>5
  <2> QED BY <1>5, <2>1 DEF ExclusiveLength, store, code
<1>6. CASE v = "cleared"
  <2>1. code = <<load, clear, store>>
    BY <1>1, <1>6
  <2> QED BY <1>6, <2>1 DEF ExclusiveLength, load, clear, store, code
<1>7. CASE v = "apart"
  <2>1. code = <<apart, far4, store>>
    BY <1>1, <1>7
  <2> QED BY <1>7, <2>1 DEF ExclusiveLength, apart, far4, store, code
<1>8. CASE v = "moved"
  <2>1. code = <<load, apart, far5, store>>
    BY <1>1, <1>8
  <2> QED BY <1>8, <2>1 DEF ExclusiveLength, load, apart, far5, store, code
<1>9. CASE v = "sized"
  <2>1. code = <<other, store>>
    BY <1>1, <1>9
  <2> QED BY <1>9, <2>1 DEF ExclusiveLength, other, store, code
<1>10. CASE v = "spent"
  <2>1. code = <<load, apart, spent, store>>
    BY <1>1, <1>10
  <2> QED BY <1>10, <2>1 DEF ExclusiveLength, load, apart, spent, store, code
<1>11. CASE v = "add"
  <2>1. code = <<load, add, added, back>>
    BY <1>1, <1>11
  <2> QED BY <1>11, <2>1 DEF ExclusiveLength, load, add, added, back, code
<1> QED BY <1>2, <1>3, <1>4, <1>5, <1>6, <1>7, <1>8, <1>9, <1>10, <1>11 DEF ExclusiveVariants

(* Every step of a program leads from one of its stages to the next. *)
LEMMA ExclusiveStep ==
  ASSUME NEW v \in ExclusiveVariants, NEW size, IsSize(size), Placed(ExclusiveLength(v), ExclusiveCode(v, size)),
         Next, ExclusiveReady, ExclusiveStage(v, size, x, r[PC], monitor, mem, r)
  PROVE  ExclusiveReady' /\ ExclusiveStage(v, size, x, r'[PC], monitor', mem', r')
<1> DEFINE code == ExclusiveCode(v, size)
           k    == ExclusiveLength(v)
           at   == Offsets(code)
           n    == Length32(size)
           other == Length32(Other(size))
           old  == InitialMem
           L    == WordOf(old, n)
           load  == ExclusiveLoad(size, 4, 8)
           store == ExclusiveStore(size, 2, 0, 8)
           apart == DNI("T32_ADDW", 9, 8, 4)
           Put(value) == Store(old, 136, value, n)
           At(i, h, c) == r[PC] = at[i] /\ monitor = h /\ mem = c
           Moved(i, h, c) == ExclusiveReady' /\ r'[PC] = at[i] /\ monitor' = h /\ mem' = c
<1>1. k \in 1 .. 6 /\ r[PC] # at[k + 1]
  <2>1. k \in 1 .. 6
    BY ExclusiveCodeIs, Zenon
  <2> QED BY <2>1, StepIs, Zenon DEF Placed
<1>2. ASSUME NEW i \in 1 .. k, r[PC] = at[i]
      PROVE  Ins = code[i] /\ at[i + 1] = Low(r[PC] + Bytes(Ins))
  <2> HIDE DEF code, k
  <2>1. /\ \A j \in 1 .. k : at[j + 1] = at[j] + Bytes(code[j]) /\ Low(at[j + 1]) = at[j + 1]
        /\ \A j \in 1 .. k : r[PC] = at[j] => Ins = code[j]
    BY DEF Placed, code, k
  <2> QED BY <1>2, <2>1
<1>3. r[8] = 136 /\ r[0] = x /\ 136 \in Word /\ 140 \in Word
  BY InitialsAre DEF ExclusiveReady
<1>4. /\ Held(140, n) # Held(136, n) /\ Held(136, other) # Held(136, n) /\ Held(140, n) # Open
      /\ Held(136, n) # Open /\ IsSize(Other(size))
  <2>1. other # n /\ IsSize(Other(size))
    BY ExclusiveTypes, Zenon
  <2> HIDE DEF n, other
  <2> QED BY <2>1 DEF Held, Open
<1>5. /\ v \in {"held", "twice", "cleared", "moved", "spent", "add"} => code[1] = load
      /\ v = "held" => code[2] = store /\ k = 2
      /\ v = "twice" => code[2] = ExclusiveStore(size, 5, 0, 8) /\ code[3] = store /\ k = 3
      /\ v = "unloaded" => code[1] = store /\ k = 1
      /\ v = "cleared" => code[2] = Of("T32_CLREX", [imm |-> 0]) /\ code[3] = store /\ k = 3
      /\ v = "apart" => code[1] = apart /\ code[2] = ExclusiveLoad(size, 4, 9) /\ code[3] = store /\ k = 3
      /\ v = "moved" => code[2] = apart /\ code[3] = ExclusiveLoad(size, 5, 9) /\ code[4] = store /\ k = 4
      /\ v = "sized" => code[1] = ExclusiveLoad(Other(size), 4, 8) /\ code[2] = store /\ k = 2
      /\ v = "spent" => code[2] = apart /\ code[3] = ExclusiveStore(size, 5, 1, 9) /\ code[4] = store /\ k = 4
      /\ v = "add" => /\ code[2] = DNM("ADD_REG", 4, 4, 0) /\ code[3] = ExclusiveStore(size, 2, 4, 8)
                      /\ code[4] = Of("CBNZ", [rn |-> 2, imm |-> -14]) /\ k = 4
  <2>1. /\ v = "held" => k = 2
        /\ v = "twice" => k = 3
        /\ v = "unloaded" => k = 1
        /\ v = "cleared" => k = 3
        /\ v = "apart" => k = 3
        /\ v = "moved" => k = 4
        /\ v = "sized" => k = 2
        /\ v = "spent" => k = 4
        /\ v = "add" => k = 4
    BY DEF ExclusiveLength
  <2> HIDE DEF k
  <2> QED BY <2>1, ExclusiveCodeIs, ZenonT(30)
<1>6. /\ Load(136, n) = WordOf(mem, n)
  BY LoadIsWord, Zenon
<1>7. ASSUME NEW i \in 1 .. k, r[PC] = at[i], code[i] = load
      PROVE  Moved(i + 1, Held(136, n), mem) /\ r'[4] = WordOf(mem, n)
  <2>1. Ins = ExclusiveLoad(size, 4, 8) /\ at[i + 1] = Low(r[PC] + Bytes(Ins))
    BY <1>2, <1>7
  <2>2. 4 \in {4, 5}
    OBVIOUS
  <2>3. /\ ExclusiveReady' /\ r'[4] = Load(r[8], n)
        /\ r'[PC] = Low(r[PC] + Bytes(Ins)) /\ monitor' = Held(r[8], n) /\ mem' = mem
    BY <1>3, <2>1, <2>2, LoadsAt, Zenon
  <2> QED BY <1>3, <1>6, <2>1, <2>3, Zenon
<1>8. ASSUME NEW i \in 1 .. k, r[PC] = at[i], NEW d \in {4, 5}, code[i] = ExclusiveLoad(size, d, 9), r[9] = 140
      PROVE  Moved(i + 1, Held(140, n), mem)
  <2>1. Ins = ExclusiveLoad(size, d, 9) /\ at[i + 1] = Low(r[PC] + Bytes(Ins))
    BY <1>2, <1>8
  <2>2. /\ ExclusiveReady'
        /\ r'[PC] = Low(r[PC] + Bytes(Ins)) /\ monitor' = Held(r[9], n) /\ mem' = mem
    BY <1>3, <1>8, <2>1, LoadsAt, Zenon
  <2> QED BY <1>8, <2>1, <2>2, Zenon
<1>9. ASSUME NEW i \in 1 .. k, r[PC] = at[i], code[i] = ExclusiveLoad(Other(size), 4, 8)
      PROVE  Moved(i + 1, Held(136, other), mem)
  <2>1. Ins = ExclusiveLoad(Other(size), 4, 8) /\ at[i + 1] = Low(r[PC] + Bytes(Ins))
    BY <1>2, <1>9
  <2>2. 4 \in {4, 5}
    OBVIOUS
  <2> DEFINE o == Other(size)
  <2>3. IsSize(o) /\ Ins = ExclusiveLoad(o, 4, 8)
    BY <1>4, <2>1, Zenon
  <2> HIDE DEF o
  <2>4. /\ ExclusiveReady'
        /\ r'[PC] = Low(r[PC] + Bytes(Ins)) /\ monitor' = Held(r[8], Length32(o)) /\ mem' = mem
    BY <1>3, <2>2, <2>3, LoadsAt, Zenon
  <2> QED BY <1>3, <2>1, <2>4, Zenon DEF o
<1>10. ASSUME NEW i \in 1 .. k, r[PC] = at[i], NEW d \in {2, 5}, NEW m \in {0, 1, 4}, NEW b \in {8, 9}, r[b] \in Word,
              code[i] = ExclusiveStore(size, d, m, b)
       PROVE  /\ monitor = Held(r[b], n) => Moved(i + 1, Open, Store(mem, r[b], r[m], n)) /\ r'[d] = 0
              /\ monitor # Held(r[b], n) => Moved(i + 1, Open, mem) /\ r'[d] = 1
  <2>1. Ins = ExclusiveStore(size, d, m, b) /\ at[i + 1] = Low(r[PC] + Bytes(Ins))
    BY <1>2, <1>10
  <2>2. LET holds == monitor = Held(r[b], n)
        IN  /\ ExclusiveReady' /\ r'[d] = (IF holds THEN 0 ELSE 1)
            /\ r'[PC] = Low(r[PC] + Bytes(Ins)) /\ monitor' = Open
            /\ mem' = IF holds THEN Store(mem, r[b], r[m], n) ELSE mem
    BY <1>10, <2>1, StoresAt, Zenon
  <2> QED BY <2>1, <2>2, Zenon
<1>11. ASSUME NEW i \in 1 .. k, r[PC] = at[i]
       PROVE  /\ code[i] = Of("T32_CLREX", [imm |-> 0]) => Moved(i + 1, Open, mem)
              /\ code[i] = apart => Moved(i + 1, monitor, mem) /\ r'[9] = 140
              /\ code[i] = DNM("ADD_REG", 4, 4, 0) => Moved(i + 1, monitor, mem) /\ r'[4] = Low(r[4] + r[0])
              /\ code[i] = Of("CBNZ", [rn |-> 2, imm |-> -14]) /\ r[2] = 0
                   => Moved(i + 1, monitor, mem) /\ r'[2] = 0
  <2>1. Ins = code[i] /\ at[i + 1] = Low(r[PC] + Bytes(Ins))
    BY <1>2, <1>11
  <2> QED BY <2>1, BetweenAt, Zenon
<1>12. ASSUME NEW i \in 1 .. k, r[PC] = at[i], code[i] = store
       PROVE  /\ monitor = Held(136, n) => Moved(i + 1, Open, Store(mem, 136, x, n)) /\ r'[2] = 0
              /\ monitor # Held(136, n) => Moved(i + 1, Open, mem) /\ r'[2] = 1
  <2>1. 2 \in {2, 5} /\ 0 \in {0, 1, 4} /\ 8 \in {8, 9}
    OBVIOUS
  <2> QED BY <1>3, <1>10, <1>12, <2>1, ZenonT(30)
<1>13. \/ At(1, Open, old)
       \/ v \in {"held", "twice", "cleared", "moved", "spent"} /\ At(2, Held(136, n), old)
       \/ v = "held" /\ r[PC] = at[3]
       \/ v = "twice" /\ At(3, Open, Put(x))
       \/ v = "twice" /\ r[PC] = at[4]
       \/ v = "unloaded" /\ r[PC] = at[2]
       \/ v = "cleared" /\ At(3, Open, old)
       \/ v = "cleared" /\ r[PC] = at[4]
       \/ v = "apart" /\ At(2, Open, old) /\ r[9] = 140
       \/ v = "apart" /\ At(3, Held(140, n), old)
       \/ v = "apart" /\ r[PC] = at[4]
       \/ v \in {"moved", "spent"} /\ At(3, Held(136, n), old) /\ r[9] = 140
       \/ v = "moved" /\ At(4, Held(140, n), old)
       \/ v = "spent" /\ At(4, Open, old)
       \/ v \in {"moved", "spent"} /\ r[PC] = at[5]
       \/ v = "sized" /\ At(2, Held(136, other), old)
       \/ v = "sized" /\ r[PC] = at[3]
       \/ v = "add" /\ At(2, Held(136, n), old) /\ r[4] = L
       \/ v = "add" /\ At(3, Held(136, n), old) /\ r[4] = Low(L + x)
       \/ v = "add" /\ At(4, Open, Put(Low(L + x))) /\ r[2] = 0
       \/ v = "add" /\ r[PC] = at[5]
  BY Zenon DEF ExclusiveStage
<1>14. /\ v = "held" => r[PC] # at[3]
       /\ v \in {"twice", "cleared", "apart"} => r[PC] # at[4]
       /\ v \in {"moved", "spent", "add"} => r[PC] # at[5]
       /\ v = "unloaded" => r[PC] # at[2]
       /\ v = "sized" => r[PC] # at[3]
  <2>1. k = 2 => r[PC] # at[3]
    BY <1>1
  <2>2. k = 3 => r[PC] # at[4]
    BY <1>1
  <2>3. k = 4 => r[PC] # at[5]
    BY <1>1
  <2>4. k = 1 => r[PC] # at[2]
    BY <1>1
  <2> HIDE DEF k, at, code, load, store, apart
  <2> QED BY <1>5, <2>1, <2>2, <2>3, <2>4
<1> HIDE DEF k, at, code, load, store, apart, n, other, old, L, Put
<1>15. 1 \in 1 .. k /\ (k >= 2 => 2 \in 1 .. k) /\ (k >= 3 => 3 \in 1 .. k) /\ (k >= 4 => 4 \in 1 .. k)
  BY <1>1
<1>16. 1 + 1 = 2 /\ 2 + 1 = 3 /\ 3 + 1 = 4 /\ 4 + 1 = 5
  OBVIOUS
<1> DEFINE Next1(i, h, c) == r'[PC] = at[i] /\ monitor' = h /\ mem' = c
           Goes ==
             \/ v \in {"held", "twice", "cleared", "moved", "spent"} /\ Next1(2, Held(136, n), old)
             \/ v = "held" /\ Next1(3, Open, Put(x)) /\ r'[2] = 0
             \/ v = "twice" /\ Next1(3, Open, Put(x))
             \/ v = "twice" /\ Next1(4, Open, Put(x)) /\ r'[2] = 1
             \/ v = "unloaded" /\ Next1(2, Open, old) /\ r'[2] = 1
             \/ v = "cleared" /\ Next1(3, Open, old)
             \/ v = "cleared" /\ Next1(4, Open, old) /\ r'[2] = 1
             \/ v = "apart" /\ Next1(2, Open, old) /\ r'[9] = 140
             \/ v = "apart" /\ Next1(3, Held(140, n), old)
             \/ v = "apart" /\ Next1(4, Open, old) /\ r'[2] = 1
             \/ v \in {"moved", "spent"} /\ Next1(3, Held(136, n), old) /\ r'[9] = 140
             \/ v = "moved" /\ Next1(4, Held(140, n), old)
             \/ v = "spent" /\ Next1(4, Open, old)
             \/ v \in {"moved", "spent"} /\ Next1(5, Open, old) /\ r'[2] = 1
             \/ v = "sized" /\ Next1(2, Held(136, other), old)
             \/ v = "sized" /\ Next1(3, Open, old) /\ r'[2] = 1
             \/ v = "add" /\ Next1(2, Held(136, n), old) /\ r'[4] = L
             \/ v = "add" /\ Next1(3, Held(136, n), old) /\ r'[4] = Low(L + x)
             \/ v = "add" /\ (Next1(4, Open, Put(Low(L + x))) \/ Next1(5, Open, Put(Low(L + x)))) /\ r'[2] = 0
<1>17. SUFFICES ExclusiveReady' /\ Goes
  BY Zenon DEF ExclusiveStage, at, code, n, other, old, L, Put
<1>18. CASE At(1, Open, old)
  <2>1. CASE v \in {"held", "twice", "cleared", "moved", "spent", "add"}
    <3>1. Moved(2, Held(136, n), old) /\ r'[4] = WordOf(old, n)
      BY <1>5, <1>7, <1>15, <1>16, <1>18, <2>1, Zenon
    <3>2. CASE v = "add"
      BY <3>1, <3>2, Zenon DEF L
    <3> QED BY <2>1, <3>1, <3>2
  <2>2. CASE v = "unloaded"
    <3>1. code[1] = store /\ monitor # Held(136, n)
      BY <1>4, <1>5, <1>18, <2>2
    <3>2. Moved(2, Open, old) /\ r'[2] = 1
      BY <1>12, <1>15, <1>16, <1>18, <3>1, Zenon
    <3> QED BY <2>2, <3>2
  <2>3. CASE v = "apart"
    <3>1. Moved(2, Open, old) /\ r'[9] = 140
      BY <1>5, <1>11, <1>15, <1>16, <1>18, <2>3, Zenon
    <3> QED BY <2>3, <3>1
  <2>4. CASE v = "sized"
    <3>1. Moved(2, Held(136, other), old)
      BY <1>5, <1>9, <1>15, <1>16, <1>18, <2>4, Zenon
    <3> QED BY <2>4, <3>1
  <2> QED BY <2>1, <2>2, <2>3, <2>4 DEF ExclusiveVariants
<1>19. CASE v = "held" /\ At(2, Held(136, n), old)
  <2>1. 2 \in 1 .. k /\ code[2] = store
    BY <1>4, <1>5, <1>15, <1>19
  <2>3. Moved(3, Open, Put(x)) /\ r'[2] = 0
    BY <1>3, <1>12, <1>16, <1>19, <2>1 DEF Put
  <2> QED BY <1>19, <2>3
<1>20. CASE v = "twice" /\ At(2, Held(136, n), old)
  <2>1. 2 \in 1 .. k /\ code[2] = ExclusiveStore(size, 5, 0, 8)
    BY <1>4, <1>5, <1>15, <1>20
  <2>2. 5 \in {2, 5} /\ 0 \in {0, 1, 4} /\ 8 \in {8, 9} /\ r[8] \in Word
    BY <1>3, <1>20
  <2>3. Moved(3, Open, Put(x))
    BY <1>3, <1>10, <1>16, <1>20, <2>1, <2>2 DEF Put
  <2> QED BY <1>20, <2>3
<1>21. CASE v = "twice" /\ At(3, Open, Put(x))
  <2>1. 3 \in 1 .. k /\ code[3] = store /\ monitor # Held(136, n)
    BY <1>4, <1>5, <1>15, <1>21
  <2>3. Moved(4, Open, Put(x)) /\ r'[2] = 1
    BY <1>3, <1>12, <1>16, <1>21, <2>1
  <2> QED BY <1>21, <2>3
<1>22. CASE v = "cleared" /\ At(2, Held(136, n), old)
  <2>1. 2 \in 1 .. k /\ code[2] = Of("T32_CLREX", [imm |-> 0])
    BY <1>4, <1>5, <1>15, <1>22
  <2>3. Moved(3, Open, old)
    BY <1>3, <1>11, <1>16, <1>22, <2>1
  <2> QED BY <1>22, <2>3
<1>23. CASE v = "cleared" /\ At(3, Open, old)
  <2>1. 3 \in 1 .. k /\ code[3] = store /\ monitor # Held(136, n)
    BY <1>4, <1>5, <1>15, <1>23
  <2>3. Moved(4, Open, old) /\ r'[2] = 1
    BY <1>3, <1>12, <1>16, <1>23, <2>1
  <2> QED BY <1>23, <2>3
<1>24. CASE v = "apart" /\ At(2, Open, old) /\ r[9] = 140
  <2>1. 2 \in 1 .. k /\ code[2] = ExclusiveLoad(size, 4, 9)
    BY <1>4, <1>5, <1>15, <1>24
  <2>2. 4 \in {4, 5}
    BY <1>3, <1>24
  <2>3. Moved(3, Held(140, n), old)
    BY <1>3, <1>8, <1>16, <1>24, <2>1, <2>2
  <2> QED BY <1>24, <2>3
<1>25. CASE v = "apart" /\ At(3, Held(140, n), old)
  <2>1. 3 \in 1 .. k /\ code[3] = store /\ monitor # Held(136, n)
    BY <1>4, <1>5, <1>15, <1>25
  <2>3. Moved(4, Open, old) /\ r'[2] = 1
    BY <1>3, <1>12, <1>16, <1>25, <2>1
  <2> QED BY <1>25, <2>3
<1>26. CASE v = "moved" /\ At(2, Held(136, n), old)
  <2>1. 2 \in 1 .. k /\ code[2] = apart
    BY <1>4, <1>5, <1>15, <1>26
  <2>3. Moved(3, Held(136, n), old) /\ r'[9] = 140
    BY <1>3, <1>11, <1>16, <1>26, <2>1
  <2> QED BY <1>26, <2>3
<1>27. CASE v = "spent" /\ At(2, Held(136, n), old)
  <2>1. 2 \in 1 .. k /\ code[2] = apart
    BY <1>4, <1>5, <1>15, <1>27
  <2>3. Moved(3, Held(136, n), old) /\ r'[9] = 140
    BY <1>3, <1>11, <1>16, <1>27, <2>1
  <2> QED BY <1>27, <2>3
<1>28. CASE v = "moved" /\ At(3, Held(136, n), old) /\ r[9] = 140
  <2>1. 3 \in 1 .. k /\ code[3] = ExclusiveLoad(size, 5, 9)
    BY <1>4, <1>5, <1>15, <1>28
  <2>2. 5 \in {4, 5}
    BY <1>3, <1>28
  <2>3. Moved(4, Held(140, n), old)
    BY <1>3, <1>8, <1>16, <1>28, <2>1, <2>2
  <2> QED BY <1>28, <2>3
<1>29. CASE v = "moved" /\ At(4, Held(140, n), old)
  <2>1. 4 \in 1 .. k /\ code[4] = store /\ monitor # Held(136, n)
    BY <1>4, <1>5, <1>15, <1>29
  <2>3. Moved(5, Open, old) /\ r'[2] = 1
    BY <1>3, <1>12, <1>16, <1>29, <2>1
  <2> QED BY <1>29, <2>3
<1>30. CASE v = "spent" /\ At(3, Held(136, n), old) /\ r[9] = 140
  <2>1. 3 \in 1 .. k /\ code[3] = ExclusiveStore(size, 5, 1, 9) /\ monitor # Held(140, n)
    BY <1>4, <1>5, <1>15, <1>30
  <2>2. 5 \in {2, 5} /\ 1 \in {0, 1, 4} /\ 9 \in {8, 9} /\ r[9] \in Word
    BY <1>3, <1>30
  <2>3. Moved(4, Open, old)
    BY <1>3, <1>10, <1>16, <1>30, <2>1, <2>2
  <2> QED BY <1>30, <2>3
<1>31. CASE v = "spent" /\ At(4, Open, old)
  <2>1. 4 \in 1 .. k /\ code[4] = store /\ monitor # Held(136, n)
    BY <1>4, <1>5, <1>15, <1>31
  <2>3. Moved(5, Open, old) /\ r'[2] = 1
    BY <1>3, <1>12, <1>16, <1>31, <2>1
  <2> QED BY <1>31, <2>3
<1>32. CASE v = "sized" /\ At(2, Held(136, other), old)
  <2>1. 2 \in 1 .. k /\ code[2] = store /\ monitor # Held(136, n)
    BY <1>4, <1>5, <1>15, <1>32
  <2>3. Moved(3, Open, old) /\ r'[2] = 1
    BY <1>3, <1>12, <1>16, <1>32, <2>1
  <2> QED BY <1>32, <2>3
<1>33. CASE v = "add" /\ At(2, Held(136, n), old) /\ r[4] = L
  <2>1. 2 \in 1 .. k /\ code[2] = DNM("ADD_REG", 4, 4, 0)
    BY <1>4, <1>5, <1>15, <1>33
  <2>3. Moved(3, Held(136, n), old) /\ r'[4] = Low(L + x)
    BY <1>3, <1>11, <1>16, <1>33, <2>1
  <2> QED BY <1>33, <2>3
<1>34. CASE v = "add" /\ At(3, Held(136, n), old) /\ r[4] = Low(L + x)
  <2>1. 3 \in 1 .. k /\ code[3] = ExclusiveStore(size, 2, 4, 8)
    BY <1>4, <1>5, <1>15, <1>34
  <2>2. 2 \in {2, 5} /\ 4 \in {0, 1, 4} /\ 8 \in {8, 9} /\ r[8] \in Word
    BY <1>3, <1>34
  <2>3. Moved(4, Open, Put(Low(L + x))) /\ r'[2] = 0
    BY <1>3, <1>10, <1>16, <1>34, <2>1, <2>2 DEF Put
  <2> QED BY <1>34, <2>3
<1>35. CASE v = "add" /\ At(4, Open, Put(Low(L + x))) /\ r[2] = 0
  <2>1. 4 \in 1 .. k /\ code[4] = Of("CBNZ", [rn |-> 2, imm |-> -14])
    BY <1>4, <1>5, <1>15, <1>35
  <2>3. Moved(5, Open, Put(Low(L + x))) /\ r'[2] = 0
    BY <1>3, <1>11, <1>16, <1>35, <2>1
  <2> QED BY <1>35, <2>3
<1> QED BY <1>13, <1>14, <1>18, <1>19, <1>20, <1>21, <1>22, <1>23, <1>24, <1>25, <1>26, <1>27, <1>28, <1>29, <1>30, <1>31, <1>32, <1>33, <1>34, <1>35, Zenon

(* The programs of the group are those of the stages, over their memory. *)
LEMMA ExclusivePlaced ==
  ASSUME program \in Programs, Group = "exclusive"
  PROVE  /\ Variant \in ExclusiveVariants /\ IsSize(Third) /\ program.core = "M3"
         /\ Placed(ExclusiveLength(Variant), ExclusiveCode(Variant, Third))
         /\ Length32(Third) \in {1, 2, 4} /\ 136 .. 136 + Length32(Third) - 1 \subseteq Ram
<1>1. /\ program.name \in ExclusiveNames
      /\ program = Laid(program.name, "M3", ExclusiveCode(Variant, Third))
  BY ExclusivesAssumption, Zenon DEF Group, Variant, Third
<1>2. Variant \in ExclusiveVariants /\ IsSize(Third)
  <2>1. program.name[2] \in ExclusiveVariants /\ program.name[3] \in ExclusiveSizes
    BY <1>1 DEF ExclusiveNames, ExclusiveVariants
  <2> QED BY <2>1, Zenon DEF Variant, Third, IsSize
<1>3. program.end \in Word /\ program.core = "M3"
  <2>1. program.end \in Word
    BY NamesAssumption
  <2>2. program.core = "M3"
    BY <1>1 DEF Laid
  <2> QED BY <2>1, <2>2
<1>4. Length32(Third) \in {1, 2, 4}
  BY <1>2, ExclusiveTypes, Zenon
<1>5. 136 .. 136 + Length32(Third) - 1 \subseteq Ram
  <2> DEFINE name == <<"transfer", Third, 7, 0>>
  <2>1. name \in ModeNames
    <3>1. Third \in {"", "B", "H"} /\ 7 \in 1 .. 12
      <4>1. 7 \in 1 .. 12
        OBVIOUS
      <4> QED BY <1>2, <4>1, Zenon DEF IsSize, ExclusiveSizes
    <3> DEFINE m == <<Third, 7>>
    <3>2. m[1] = Third /\ m[2] = 7
      OBVIOUS
    <3>3. m \in {"", "B", "H"} \X (1 .. 12)
      BY <3>1, Zenon
    <3> HIDE DEF m
    <3>4. name = <<"transfer", m[1], m[2], 0>>
      BY <3>2, Zenon
    <3> QED BY <3>3, <3>4, Zenon DEF ModeNames
  <2>2. name[2] = Third /\ name[3] = 7
    OBVIOUS
  <2>3. Mode(Third, 7)[2] = 136
    <3>1. PICK k : k = 7
      OBVIOUS
    <3> DEFINE pre  == k \in {5, 6, 9, 10}
               neg  == k \in {6, 8, 10, 12}
               moved == 136 + IF neg THEN -4 ELSE 4
               at   == IF pre THEN moved ELSE 136
               first  == PrePostWith("T32_" \o Stem(Third), 0, pre, neg)
               second == DNI(T32("LDR" \o Third, "_IMM"), 2, 7, at - 119)
    <3>2. IsParts(Mode(Third, k), first, second, at, moved)
      <4>1. k \in 5 .. 8
        BY <3>1
      <4> QED BY <4>1, ModeIs, Zenon
    <3>3. at = 136
      BY <3>1
    <3> HIDE DEF at, moved, first, second
    <3>4. IsParts(Mode(Third, 7), first, second, 136, moved)
      BY <3>1, <3>2, <3>3
    <3> QED BY <3>4, Zenon DEF IsParts
  <2> HIDE DEF name
  <2>4. Mode(name[2], name[3])[2] .. Mode(name[2], name[3])[2] + Length32(name[2]) - 1 \subseteq Ram
    BY <2>1, RamAssumption, Zenon
  <2> QED BY <2>2, <2>3, <2>4, Zenon
<1> DEFINE code == ExclusiveCode(Variant, Third)
           k == ExclusiveLength(Variant)
<1>6. k \in 1 .. 6 /\ Len(code) = k /\ DOMAIN code = 1 .. k
  BY <1>2, ExclusiveCodeIs, Zenon
<1> HIDE DEF code, k
<1>7. Placed(k, code)
  BY <1>1, <1>3, <1>6, LaidIs, Zenon DEF code
<1> QED BY <1>2, <1>3, <1>4, <1>5, <1>7, Zenon DEF code, k

(* What is loaded, counted up and stored is congruent to the sum. *)
LEMMA SumOfBytes ==
  ASSUME NEW n \in {1, 2, 4}, 136 .. 136 + n - 1 \subseteq Ram, NEW X \in Word
  PROVE  LET sum == WordOf(InitialMem, n) + X
         IN  Low(sum) \in Word /\ Low(sum) % 2^(ByteBits * n) = sum % 2^(ByteBits * n)
<1> DEFINE byte(i) == IF i < n THEN InitialMem[Base8 + i] * 2^(ByteBits * i) ELSE 0
           cut == 2^(ByteBits * n)
<1>1. ByteSize \in Nat \ {0} /\ X \in Int /\ Modulus \in Nat \ {0} /\ Base8 = 136
  BY BytePowers, Sizes, InitialsAre
<1>2. \A i \in 0 .. 3 : 2^(ByteBits * i) \in Int
  <2>1. /\ 2^(ByteBits * 0) \in Int /\ 2^(ByteBits * 1) \in Int
        /\ 2^(ByteBits * 2) \in Int /\ 2^(ByteBits * 3) \in Int
    BY BytePowers
  <2>2. \A i \in 0 .. 3 : i = 0 \/ i = 1 \/ i = 2 \/ i = 3
    OBVIOUS
  <2> QED BY <2>1, <2>2, Zenon
<1>3. ASSUME NEW i \in 0 .. 3 PROVE byte(i) \in Int
  <2>1. CASE i < n
    <3>1. 136 + i \in Ram /\ 136 + i \in Int
      <4>1. 136 + i \in 136 .. 136 + n - 1
        BY <2>1
      <4> QED BY <4>1
    <3>2. InitialMem[136 + i] = (136 + i + (136 + i) \div 3) % ByteSize
      BY <3>1, Zenon DEF InitialMem, ByteSize
    <3>3. InitialMem[136 + i] \in Int
      <4> DEFINE a == 136 + i + (136 + i) \div 3
      <4>1. a \in Int
        OBVIOUS
      <4> HIDE DEF a
      <4>2. a % ByteSize \in Int
        BY <1>1, <4>1
      <4> QED BY <3>2, <4>2 DEF a
    <3>4. 2^(ByteBits * i) \in Int
      BY <1>2
    <3> QED BY <1>1, <2>1, <3>3, <3>4
  <2>2. CASE ~(i < n)
    BY <2>2
  <2> QED BY <2>1, <2>2
<1>4. WordOf(InitialMem, n) = byte(0) + byte(1) + byte(2) + byte(3)
  BY Zenon DEF WordOf
<1> DEFINE sum == WordOf(InitialMem, n) + X
<1>5. sum \in Int
  <2>1. byte(0) \in Int /\ byte(1) \in Int /\ byte(2) \in Int /\ byte(3) \in Int
    BY <1>3
  <2> HIDE DEF byte
  <2> QED BY <1>1, <1>4, <2>1
<1> HIDE DEF sum, byte
<1>6. \E l \in Nat \ {0} : Modulus = l * cut /\ cut \in Nat \ {0}
  <2> DEFINE K == ByteSize
  <2>1. 2^(ByteBits * 1) = K /\ 2^(ByteBits * 2) = K * K /\ 2^(ByteBits * 4) = Modulus /\ Modulus = K * K * K * K
    BY BytePowers
  <2>2. K \in Nat \ {0}
    BY <1>1
  <2> HIDE DEF K
  <2>3. K * K \in Nat \ {0}
    BY <2>2, DivDiv
  <2>4. (K * K) * K \in Nat \ {0}
    BY <2>2, <2>3, DivDiv
  <2>5. CASE n = 1
    <3>1. Modulus = ((K * K) * K) * cut /\ cut = K
      BY <2>1, <2>2, <2>5
    <3> QED BY <2>2, <2>4, <3>1
  <2>6. CASE n = 2
    <3>1. cut = K * K
      BY <2>1, <2>6
    <3>2. K * K * K * K = (K * K) * (K * K)
      BY <2>2
    <3> QED BY <2>1, <2>3, <3>1, <3>2
  <2>7. CASE n = 4
    <3>1. cut = Modulus /\ Modulus = 1 * Modulus
      BY <1>1, <2>1, <2>7
    <3> QED BY <1>1, <3>1
  <2> QED BY <2>5, <2>6, <2>7
<1>7. PICK l \in Nat \ {0} : Modulus = l * cut /\ cut \in Nat \ {0}
  BY <1>6
<1> HIDE DEF cut
<1>8. Low(sum) = sum % Modulus
  BY DEF Low, Modulus
<1>9. Low(sum) \in Word
  BY <1>1, <1>5, <1>8, DivMod, Sizes
<1>10. sum % (l * cut) = ((sum \div cut) % l) * cut + (sum % cut)
  BY <1>5, <1>7, DivDiv
<1>11. Low(sum) % cut = sum % cut
  <2> DEFINE q == (sum \div cut) % l
             p == sum % cut
  <2>1. sum \div cut \in Int /\ p \in 0 .. cut - 1
    BY <1>5, <1>7, DivMod
  <2>2. q \in Int
    BY <1>7, <2>1, DivMod
  <2>3. Low(sum) = q * cut + p
    BY <1>7, <1>8, <1>10
  <2> HIDE DEF q, p
  <2>4. Low(sum) % cut = p
    BY <1>7, <2>1, <2>2, <2>3, QuotientIs
  <2> QED BY <2>4 DEF p
<1> QED BY <1>9, <1>11 DEF sum, cut

(* What a program has done at its end. *)
LEMMA ExclusiveEnds ==
  ASSUME NEW v \in ExclusiveVariants, NEW size, Placed(ExclusiveLength(v), ExclusiveCode(v, size)), Done,
         ExclusiveStage(v, size, x, r[PC], monitor, mem, r)
  PROVE  LET n == Length32(size)
             Put(value) == Store(InitialMem, 136, value, n)
         IN  /\ v = "held" => mem = Put(x) /\ r[2] = 0
             /\ v = "twice" => mem = Put(x) /\ r[2] = 1
             /\ v = "add" => mem = Put(Low(WordOf(InitialMem, n) + x)) /\ r[2] = 0
             /\ v \notin {"held", "twice", "add"} => mem = InitialMem /\ r[2] = 1
<1> DEFINE k  == ExclusiveLength(v)
           at == Offsets(ExclusiveCode(v, size))
           n == Length32(size)
           Put(value) == Store(InitialMem, 136, value, n)
           sum == Low(WordOf(InitialMem, n) + x)
           y1 == mem = InitialMem /\ r[2] = 1
<1>1. \A i \in 1 .. k : r[PC] # at[i]
  BY Zenon DEF Placed
<1>2. /\ v \in {"held", "sized"} => k = 2
      /\ v \in {"twice", "cleared", "apart"} => k = 3
      /\ v = "unloaded" => k = 1
      /\ v \in {"moved", "spent", "add"} => k = 4
  BY DEF ExclusiveLength
<1> HIDE DEF k, at, n, Put, sum
<1>3. /\ v \in ExclusiveVariants => r[PC] # at[1]
      /\ v \in ExclusiveVariants /\ v # "unloaded" => r[PC] # at[2]
      /\ v \in {"twice", "cleared", "apart", "moved", "spent", "add"} => r[PC] # at[3]
      /\ v \in {"moved", "spent", "add"} => r[PC] # at[4]
  BY <1>1, <1>2 DEF ExclusiveVariants
<1>4. \/ r[PC] = at[1]
      \/ v \in {"held", "twice", "cleared", "moved", "spent", "apart", "sized", "add"} /\ r[PC] = at[2]
      \/ v = "held" /\ mem = Put(x) /\ r[2] = 0
      \/ v \in {"twice", "cleared", "apart", "moved", "spent", "add"} /\ r[PC] = at[3]
      \/ v = "twice" /\ mem = Put(x) /\ r[2] = 1
      \/ v \in {"unloaded", "cleared", "apart", "sized"} /\ y1
      \/ v \in {"moved", "spent"} /\ (r[PC] = at[4] \/ y1)
      \/ v = "add" /\ mem = Put(sum) /\ r[2] = 0
  BY Zenon DEF ExclusiveStage, at, n, Put, sum
<1>5. /\ v = "held" => mem = Put(x) /\ r[2] = 0
      /\ v = "twice" => mem = Put(x) /\ r[2] = 1
      /\ v = "add" => mem = Put(sum) /\ r[2] = 0
      /\ v \notin {"held", "twice", "add"} => y1
  BY <1>3, <1>4 DEF ExclusiveVariants
<1> QED BY <1>5, Zenon DEF n, Put, sum

(* What a store at R8 leaves for a load of the same size. *)
LEMMA WordStored ==
  ASSUME NEW n \in {1, 2, 4}, 136 .. 136 + n - 1 \subseteq Ram, NEW value \in Word,
         mem = Store(InitialMem, 136, value, n)
  PROVE  WordOf(mem, n) = value % 2^(ByteBits * n)
<1>1. PICK a \in Int : a = 136
  OBVIOUS
<1>2. a .. a + n - 1 \subseteq Ram /\ mem = Store(InitialMem, a, value, n)
  BY <1>1
<1>3. Load(a, n) = value % 2^(ByteBits * n)
  BY <1>2, StoredIs, Zenon
<1> QED BY <1>1, <1>3, LoadIsWord, Zenon

(* The stage that the program of the group has reached, and what all of them keep. *)
ExclusiveInv ==
  Group = "exclusive" =>
    program \in Programs /\ ExclusiveReady /\ ExclusiveStage(Variant, Third, x, r[PC], monitor, mem, r)

(***************************************************************************)
(* A store-exclusive stores and answers 0 exactly if the monitor still     *)
(* holds its place and size from the last exclusive access, and the loop   *)
(* of load, addition and store adds once: for words of every length, all   *)
(* operands and any memory that holds the addresses.                       *)
(***************************************************************************)
THEOREM StoresAreExclusiveCorrect == Spec => []StoresAreExclusive
<1>1. Init => ExclusiveInv
  <2> SUFFICES ASSUME Init, Group = "exclusive"
               PROVE  program \in Programs /\ ExclusiveReady /\ ExclusiveStage(Variant, Third, x, r[PC], monitor, mem, r)
    BY Zenon DEF ExclusiveInv
  <2>1. program \in Programs /\ start \in Word \X Word \X BOOLEAN
    BY NamesAssumption DEF Init
  <2>2. /\ r[PC] = 0 /\ r[0] = x /\ r[8] = 136 /\ r = [j \in 0 .. 15 |-> r[j]]
        /\ mem = InitialMem /\ monitor = Open /\ it = NoIt
    <3>1. 8 \in 2 .. 12 /\ r[8] = InitialRegister(8)
      BY DEF Init, PC, SP
    <3>2. r[8] = 136
      BY <3>1, InitialsAre
    <3>3. r[PC] = 0 /\ r[0] = x /\ r = [j \in 0 .. 15 |-> r[j]]
      BY DEF Init, PC, SP, x
    <3> QED BY <3>2, <3>3, Zenon DEF Init
  <2>3. flags \in Flags /\ x \in Word
    BY <2>1 DEF Init, Flags, x
  <2>4. program.core = "M3" /\ Offsets(ExclusiveCode(Variant, Third))[1] = 0
    BY <2>1, ExclusivePlaced, Zenon DEF Placed
  <2>5. ExclusiveReady
    BY <2>1, <2>2, <2>3, <2>4, Zenon DEF ExclusiveReady, Ready
  <2> QED BY <2>1, <2>2, <2>4, <2>5, Zenon DEF ExclusiveStage
<1>2. ExclusiveInv /\ [Next]_vars => ExclusiveInv'
  <2> SUFFICES ASSUME ExclusiveInv, [Next]_vars, Group' = "exclusive"
               PROVE  (program \in Programs /\ ExclusiveReady
                         /\ ExclusiveStage(Variant, Third, x, r[PC], monitor, mem, r))'
    BY Zenon DEF ExclusiveInv
  <2>1. program' = program /\ start' = start
    BY ProgramStays DEF vars
  <2>2. Group = "exclusive" /\ Variant' = Variant /\ Third' = Third /\ x' = x
    BY <2>1, Zenon DEF Group, Variant, Third, x
  <2>3. program \in Programs /\ ExclusiveReady /\ ExclusiveStage(Variant, Third, x, r[PC], monitor, mem, r)
    BY <2>2, Zenon DEF ExclusiveInv
  <2>4. ExclusiveReady' /\ ExclusiveStage(Variant, Third, x, r'[PC], monitor', mem', r')
    <3>1. CASE Next
      BY <2>2, <2>3, <3>1, ExclusivePlaced, ExclusiveStep, Zenon
    <3>2. CASE UNCHANGED vars
      <4>1. r' = r /\ monitor' = monitor /\ mem' = mem /\ flags' = flags /\ it' = it
        BY <3>2 DEF vars
      <4>2. ExclusiveReady'
        BY <2>1, <2>2, <2>3, <4>1, Zenon DEF ExclusiveReady, Ready
      <4> QED BY <2>3, <4>1, <4>2, Zenon
    <3> QED BY <3>1, <3>2
  <2>5. (program \in Programs)'
    BY <2>1, <2>3
  <2>6. ExclusiveStage(Variant, Third, x, r[PC], monitor, mem, r)'
    BY <2>2, <2>4, Zenon
  <2> QED BY <2>4, <2>5, <2>6, Zenon
<1>3. ExclusiveInv => StoresAreExclusive
  <2> SUFFICES ASSUME Done, Group = "exclusive", program \in Programs, ExclusiveReady,
                      ExclusiveStage(Variant, Third, x, r[PC], monitor, mem, r)
               PROVE  LET n == Length32(Third)
                          word(m) == WordOf(m, n)
                          cut == 2^(ByteBits * n)
                      IN  /\ (r[2] = 0) = (Variant \in {"held", "add"})
                          /\ Variant \in {"held", "twice"} => word(mem) = x % cut
                          /\ Variant = "add" => word(mem) = (word(InitialMem) + x) % cut
                          /\ Variant \notin {"held", "twice", "add"} => mem = InitialMem
    BY Zenon DEF ExclusiveInv, StoresAreExclusive, WordOf
  <2> DEFINE n == Length32(Third)
             v == Variant
             cut == 2^(ByteBits * n)
             sum == WordOf(InitialMem, n) + x
             Put(value) == Store(InitialMem, 136, value, n)
  <2>1. n \in {1, 2, 4} /\ 136 .. 136 + n - 1 \subseteq Ram /\ x \in Word
    BY ExclusivePlaced, Zenon DEF ExclusiveReady
  <2>2. /\ v = "held" => mem = Put(x) /\ r[2] = 0
        /\ v = "twice" => mem = Put(x) /\ r[2] = 1
        /\ v = "add" => mem = Put(Low(sum)) /\ r[2] = 0
        /\ v \notin {"held", "twice", "add"} => mem = InitialMem /\ r[2] = 1
    BY ExclusivePlaced, ExclusiveEnds, Zenon
  <2>3. Low(sum) \in Word /\ Low(sum) % cut = sum % cut
    BY <2>1, SumOfBytes, Zenon
  <2> HIDE DEF n, v
  <2>4. ASSUME NEW value \in Word, mem = Put(value) PROVE WordOf(mem, n) = value % cut
    <3>1. mem = Store(InitialMem, 136, value, n)
      BY <2>4
    <3> HIDE DEF Put
    <3> QED BY <2>1, <3>1, WordStored, ZenonT(30)
  <2>5. v \in {"held", "twice"} => WordOf(mem, n) = x % cut
    BY <2>1, <2>2, <2>4, Zenon
  <2>6. v = "add" => WordOf(mem, n) = sum % cut
    BY <2>2, <2>3, <2>4, Zenon
  <2> HIDE DEF Put, cut, sum
  <2>7. (r[2] = 0) = (v \in {"held", "add"})
    BY <2>2
  <2>8. v \notin {"held", "twice", "add"} => mem = InitialMem
    BY <2>2
  <2> QED BY <2>5, <2>6, <2>7, <2>8, Zenon DEF n, v, cut, sum
<1> QED BY <1>1, <1>2, <1>3, PTL DEF Spec

-----------------------------------------------------------------------------
(* Subroutines *)

(* Where the instructions of a longer program are: at the addresses g. *)

Follows(n, code, g) ==
  /\ Len(code) = n /\ DOMAIN code = 1 .. n /\ g = [i \in 1 .. n + 1 |-> g[i]]
  /\ g[1] = 0 /\ \A i \in 1 .. n : g[i + 1] = g[i] + Bytes(code[i])
  /\ \A i \in 1 .. n + 1 : g[i] \in Nat
  /\ \A i, j \in 1 .. n + 1 : i < j => g[i] < g[j]

(* What is at an address of the program, and its end. *)
At(address, ins) == r[PC] = address => Ins = ins /\ Fetched /\ ~Done
Ending(address)  == program.end = address /\ (r[PC] = address => Done /\ ~Fetched)

(* The offsets of Laid are those addresses. *)
LEMMA OffsetsFollow ==
  ASSUME NEW n \in 1 .. 16, NEW code, NEW g, Follows(n, code, g)
  PROVE  Length(code) = g[n + 1] /\ \A i \in 1 .. n + 1 : Offsets(code)[i] = g[i]
<1> DEFINE P(f) == f = [i \in 1 .. n + 1 |-> IF i = 1 THEN 0 ELSE f[i - 1] + Bytes(code[i - 1])]
           b(i) == Bytes(code[i])
           at == Offsets(code)
<1>1. P(g)
  <2> DEFINE h == [i \in 1 .. n + 1 |-> IF i = 1 THEN 0 ELSE g[i - 1] + b(i - 1)]
  <2>1. g[1] = 0 /\ \A i \in 1 .. n : g[i + 1] = g[i] + b(i)
    BY DEF Follows
  <2> HIDE DEF b
  <2>2. ASSUME NEW i \in 1 .. n + 1 PROVE g[i] = h[i]
    <3>1. CASE i = 1
      BY <2>1, <3>1
    <3>2. CASE i # 1
      <4>1. i - 1 \in 1 .. n /\ (i - 1) + 1 = i
        BY <3>2
      <4>2. g[(i - 1) + 1] = g[i - 1] + b(i - 1)
        BY <2>1, <4>1
      <4> QED BY <3>2, <4>1, <4>2
    <3> QED BY <3>1, <3>2
  <2>3. g = [i \in 1 .. n + 1 |-> g[i]]
    BY DEF Follows
  <2>4. g = h
    BY <2>2, <2>3
  <2> QED BY <2>4 DEF b
<1>2. P(CHOOSE f : P(f))
  BY <1>1
<1>3. Len(code) = n
  BY DEF Follows
<1>4. P(at)
  BY <1>2, <1>3 DEF Offsets
<1> HIDE DEF at
<1>5. at[1] = 0 /\ \A i \in 1 .. n : at[i + 1] = at[i] + b(i)
  <2> HIDE DEF b
  <2>1. \A i \in 1 .. n + 1 : at[i] = IF i = 1 THEN 0 ELSE at[i - 1] + b(i - 1)
    BY <1>4 DEF b
  <2> QED BY <2>1
<1>6. g[1] = 0 /\ \A i \in 1 .. n : g[i + 1] = g[i] + b(i)
  BY DEF Follows
<1> HIDE DEF b, P
<1>7. ASSUME NEW i \in 1 .. n, at[i] = g[i] PROVE at[i + 1] = g[i + 1]
  BY <1>5, <1>6, <1>7
<1>8. n >= 1 => at[2] = g[2]
  BY <1>5, <1>6, <1>7
<1>9. n >= 2 => at[3] = g[3]
  BY <1>7, <1>8
<1>10. n >= 3 => at[4] = g[4]
  BY <1>7, <1>9
<1>11. n >= 4 => at[5] = g[5]
  BY <1>7, <1>10
<1>12. n >= 5 => at[6] = g[6]
  BY <1>7, <1>11
<1>13. n >= 6 => at[7] = g[7]
  BY <1>7, <1>12
<1>14. n >= 7 => at[8] = g[8]
  BY <1>7, <1>13
<1>15. n >= 8 => at[9] = g[9]
  BY <1>7, <1>14
<1>16. n >= 9 => at[10] = g[10]
  BY <1>7, <1>15
<1>17. n >= 10 => at[11] = g[11]
  BY <1>7, <1>16
<1>18. n >= 11 => at[12] = g[12]
  BY <1>7, <1>17
<1>19. n >= 12 => at[13] = g[13]
  BY <1>7, <1>18
<1>20. n >= 13 => at[14] = g[14]
  BY <1>7, <1>19
<1>21. n >= 14 => at[15] = g[15]
  BY <1>7, <1>20
<1>22. n >= 15 => at[16] = g[16]
  BY <1>7, <1>21
<1>23. n >= 16 => at[17] = g[17]
  BY <1>7, <1>22
<1>24. \A i \in 1 .. n + 1 : at[i] = g[i]
  <2>1. \A i \in 1 .. n + 1 : \/ i = 1 \/ i = 2 \/ i = 3 \/ i = 4 \/ i = 5 \/ i = 6 \/ i = 7 \/ i = 8 \/ i = 9
                            \/ i = 10 \/ i = 11 \/ i = 12 \/ i = 13 \/ i = 14 \/ i = 15 \/ i = 16 \/ i = 17
    OBVIOUS
  <2> QED BY <1>5, <1>6, <1>8, <1>9, <1>10, <1>11, <1>12, <1>13, <1>14, <1>15, <1>16, <1>17, <1>18, <1>19, <1>20, <1>21, <1>22, <1>23, <2>1
<1> QED BY <1>3, <1>24 DEF Length, at

(* PC names the instruction at its address, and the end. *)
LEMMA FollowsIs ==
  ASSUME NEW n \in 1 .. 16, NEW name, NEW code, NEW g, Follows(n, code, g), program = Laid(name, "M3", code)
  PROVE  /\ program.end = g[n + 1]
         /\ \A i \in 1 .. n : r[PC] = g[i] => Ins = code[i] /\ Fetched /\ ~Done
         /\ r[PC] = g[n + 1] => Done /\ ~Fetched
<1> DEFINE at == Offsets(code)
<1>1. Length(code) = g[n + 1] /\ \A i \in 1 .. n + 1 : at[i] = g[i]
  BY OffsetsFollow
<1>2. /\ DOMAIN code = 1 .. n
      /\ \A i \in 1 .. n + 1 : g[i] \in Nat
      /\ \A i, j \in 1 .. n + 1 : i < j => g[i] < g[j]
  BY DEF Follows
<1>3. /\ program.end = g[n + 1]
      /\ program.code = [a \in {at[i] : i \in 1 .. n} |-> code[CHOOSE i \in 1 .. n : at[i] = a]]
  BY <1>1, <1>2 DEF Laid
<1> HIDE DEF at
<1>4. ASSUME NEW i \in 1 .. n
      PROVE  g[i] \in DOMAIN program.code /\ program.code[g[i]] = code[i] /\ g[i] # g[n + 1]
  <2>1. \A j \in 1 .. n : at[j] = g[i] => j = i
    BY <1>1, <1>2
  <2> DEFINE k == CHOOSE j \in 1 .. n : at[j] = g[i]
  <2>2. at[i] = g[i]
    BY <1>1
  <2>3. k \in 1 .. n /\ at[k] = g[i]
    BY <2>2
  <2>4. k = i
    <3> HIDE DEF k
    <3> QED BY <2>1, <2>3
  <2>5. g[i] \in {at[j] : j \in 1 .. n}
    BY <2>2
  <2>6. program.code[g[i]] = code[k]
    BY <1>3, <2>5
  <2>7. i < n + 1 /\ i \in 1 .. n + 1 /\ n + 1 \in 1 .. n + 1
    OBVIOUS
  <2>8. g[i] < g[n + 1] /\ g[i] \in Nat
    BY <1>2, <2>7
  <2>9. g[i] \in DOMAIN program.code
    BY <1>3, <2>5
  <2> HIDE DEF k
  <2> QED BY <2>4, <2>6, <2>8, <2>9
<1>5. ASSUME NEW i \in 1 .. n, r[PC] = g[i] PROVE Ins = code[i] /\ Fetched /\ ~Done
  BY <1>3, <1>4, <1>5 DEF Ins, Fetched, Done
<1>6. g[n + 1] \notin DOMAIN program.code
  <2>1. \A i \in 1 .. n : i < n + 1 /\ i \in 1 .. n + 1 /\ n + 1 \in 1 .. n + 1
    OBVIOUS
  <2>2. \A i \in 1 .. n : at[i] # g[n + 1]
    BY <1>1, <1>2, <2>1
  <2> QED BY <1>3, <2>2
<1> QED BY <1>3, <1>5, <1>6 DEF Done, Fetched

-----------------------------------------------------------------------------
(* The instructions of the subroutines, with the registers and memory that they leave. *)

Goes(pc, regs, m) ==
  /\ r' = [j \in 0 .. 15 |-> IF j = PC THEN pc ELSE regs[j]]
  /\ mem' = m /\ it' = NoIt /\ flags' \in Flags /\ UNCHANGED <<program, start>>

Outside == Ready /\ it = NoIt

(* Outside of IT blocks nothing is skipped. *)
LEMMA OutsideIs ==
  ASSUME Outside
  PROVE  ~InItBlock /\ ~Skipped /\ ~Gated /\ DOMAIN r = 0 .. 15 /\ flags \in Flags
<1>1. ~InItBlock
  BY DEF Outside, InItBlock, NoIt
<1>2. DOMAIN r = 0 .. 15 /\ flags \in Flags
  BY DEF Outside, Ready
<1>3. ~Skipped /\ ~Gated
  BY <1>1, Zenon DEF Skipped, Gated
<1> QED BY <1>1, <1>2, <1>3

(* Out of IT blocks, what a handler leaves by either of its ends. *)
LEMMA EndsAre ==
  ASSUME Outside, NEW regs, DOMAIN regs = 0 .. 15, flags' \in Flags, UNCHANGED <<program, start>>
  PROVE  /\ ~Skipped /\ ~Gated
         /\ Finish(regs) => Goes(Low(r[PC] + Bytes(Ins)), regs, mem')
         /\ \A target : Leave(regs, target) => Goes(target, regs, mem')
<1>2. ~Skipped /\ ~Gated
  BY OutsideIs
<1>3. NextPc = Low(r[PC] + Bytes(Ins))
  BY Zenon DEF NextPc, Bytes
<1>4. ASSUME NEW target, r' = [regs EXCEPT ![PC] = target], it' = NoIt
      PROVE  Goes(target, regs, mem')
  <2>1. r' = [j \in 0 .. 15 |-> IF j = PC THEN target ELSE regs[j]]
    BY <1>4 DEF PC
  <2> QED BY <1>4, <2>1, Zenon DEF Goes
<1>5. Finish(regs) => r' = [regs EXCEPT ![PC] = Low(r[PC] + Bytes(Ins))] /\ it' = NoIt
  BY <1>2, <1>3, Zenon DEF Finish, Outside
<1> QED BY <1>2, <1>4, <1>5, Zenon DEF Leave

(* The types of the branches *)
LEMMA BranchesRun ==
  ASSUME Outside
  PROVE  /\ \A t \in {"B", "BX", "BLX", "T32_BL"} : HandlerOf[program.core][t] = "execute_branch"
         /\ {"B", "BX", "BLX", "CBZ", "CBNZ"} \subseteq Narrow /\ "T32_BL" \notin Narrow
<1>1. {"B", "BX", "BLX", "T32_BL"} \subseteq BranchTypes \cup {"BLX"}
  BY DEF BranchTypes
<1> DEFINE h == <<"execute_branch", BranchTypes \cup {"BLX"}>>
<1>2. h \in CoreHandlers("M3") /\ h[1] = "execute_branch" /\ h[2] = BranchTypes \cup {"BLX"}
  BY HandlersOfM3
<1> HIDE DEF h
<1>3. ASSUME NEW t \in {"B", "BX", "BLX", "T32_BL"} PROVE HandlerOf[program.core][t] = "execute_branch"
  <2>1. t \in h[2]
    BY <1>1, <1>2
  <2> QED BY <1>2, <2>1, DispatchIs DEF Outside, Ready
<1>4. {"B", "BX", "BLX", "CBZ", "CBNZ"} \subseteq Narrow /\ "T32_BL" \notin Narrow
  BY DEF Narrow, DataProcessingTypes, LoadStoreTypes, AluTable, LoadStoreTable
<1> QED BY <1>3, <1>4

(* The unconditional branches of execute_branch and execute_t32_branch. *)
LEMMA JumpStep ==
  ASSUME Next, Outside, NEW i \in Int, r[PC] \in Int
  PROVE  /\ Ins = Jump("B", i) => Goes(Low(r[PC] + 4 + i), r, mem)
         /\ Ins = Jump("T32_BL", i) => Goes(Low(r[PC] + 4 + i), [r EXCEPT ![LR] = Low(Low(r[PC] + 4) + 1)], mem)
         /\ Ins = Return => Goes(Even(r[LR]), r, mem)
         /\ Ins = Of("BLX", [rm |-> 3]) => Goes(Even(r[3]), [r EXCEPT ![LR] = Low(Low(r[PC] + 2) + 1)], mem)
<1>1. ~Skipped /\ DOMAIN r = 0 .. 15 /\ flags \in Flags
  BY OutsideIs
<1>2. ASSUME Ins.type \in {"B", "BX", "BLX", "T32_BL"} PROVE ExecuteBranch
  BY <1>1, <1>2, BranchesRun, StepIs
<1>3. ASSUME NEW target, NEW regs, DOMAIN regs = 0 .. 15, Leave(regs, target),
             UNCHANGED <<program, flags, monitor, mem, start>>
      PROVE  Goes(target, regs, mem)
  <2>1. flags' \in Flags /\ mem' = mem
    BY <1>1, <1>3
  <2>2. Goes(target, regs, mem')
    BY <1>3, <2>1, EndsAre, Zenon
  <2> QED BY <2>1, <2>2
<1>4. ASSUME Ins = Jump("B", i) PROVE Goes(Low(r[PC] + 4 + i), r, mem)
  <2>1. Ins.type = "B" /\ Ins.imm = i
    BY <1>4 DEF Jump, Of
  <2>2. Leave(r, Low(r[PC] + 4 + i)) /\ UNCHANGED <<program, flags, monitor, mem, start>>
    BY <1>2, <2>1 DEF ExecuteBranch
  <2> QED BY <1>1, <1>3, <2>2, Zenon
<1>5. ASSUME Ins = Jump("T32_BL", i)
      PROVE  Goes(Low(r[PC] + 4 + i), [r EXCEPT ![LR] = Low(Low(r[PC] + 4) + 1)], mem)
  <2>1. Ins.type = "T32_BL" /\ Ins.imm = i /\ Ins.wide
    BY <1>5, BranchesRun DEF Jump, Of
  <2>2. NextPc = Low(r[PC] + 4)
    BY <2>1 DEF NextPc
  <2> DEFINE regs == [r EXCEPT ![LR] = Low(Low(r[PC] + 4) + 1)]
  <2>3. Leave(regs, Low(r[PC] + 4 + i)) /\ UNCHANGED <<program, flags, monitor, mem, start>>
    BY <1>2, <2>1, <2>2 DEF ExecuteBranch, Write
  <2>4. DOMAIN regs = 0 .. 15
    BY <1>1
  <2> HIDE DEF regs
  <2>5. Goes(Low(r[PC] + 4 + i), regs, mem)
    BY <1>3, <2>3, <2>4, Zenon
  <2> QED BY <2>5 DEF regs
<1>6. ASSUME Ins = Return PROVE Goes(Even(r[LR]), r, mem)
  <2>1. Ins.type = "BX" /\ Ins.rm = LR
    BY <1>6 DEF Return, Of, LR
  <2>2. Leave(r, Even(r[LR])) /\ UNCHANGED <<program, flags, monitor, mem, start>>
    BY <1>2, <2>1 DEF ExecuteBranch
  <2> QED BY <1>1, <1>3, <2>2, Zenon
<1>7. ASSUME Ins = Of("BLX", [rm |-> 3])
      PROVE  Goes(Even(r[3]), [r EXCEPT ![LR] = Low(Low(r[PC] + 2) + 1)], mem)
  <2>1. Ins.type = "BLX" /\ Ins.rm = 3 /\ ~Ins.wide
    BY <1>7, BranchesRun DEF Of
  <2>2. NextPc = Low(r[PC] + 2)
    BY <2>1 DEF NextPc
  <2> DEFINE regs == [r EXCEPT ![LR] = Low(Low(r[PC] + 2) + 1)]
  <2>3. Leave(regs, Even(r[3])) /\ UNCHANGED <<program, flags, monitor, mem, start>>
    BY <1>2, <2>1, <2>2 DEF ExecuteBranch, Write
  <2>4. DOMAIN regs = 0 .. 15
    BY <1>1
  <2> HIDE DEF regs
  <2>5. Goes(Even(r[3]), regs, mem)
    BY <1>3, <2>3, <2>4, Zenon
  <2> QED BY <2>5 DEF regs
<1> QED BY <1>4, <1>5, <1>6, <1>7

(* CBZ and CBNZ of R1, over two instructions of two bytes. *)
LEMMA CompareZeroStep ==
  ASSUME Next, Outside, NEW type \in {"CBZ", "CBNZ"}, Ins = Of(type, [rn |-> 1, imm |-> 4]), r[PC] \in Int
  PROVE  Goes(IF (r[1] = 0) = (type = "CBZ") THEN Low(r[PC] + 8) ELSE Low(r[PC] + 2), r, mem)
<1>1. ~Skipped /\ DOMAIN r = 0 .. 15 /\ flags \in Flags
  BY OutsideIs
<1>2. Ins.type = type /\ Ins.rn = 1 /\ Ins.imm = 4 /\ ~Ins.wide /\ Bytes(Ins) = 2
  BY BranchesRun DEF Of, Bytes
<1>3. ExecuteCbzCbnz
  BY <1>1, <1>2, TypesRun, StepIs DEF Outside, Ready
<1>4. r[PC] + 4 + 4 = r[PC] + 8
  OBVIOUS
<1>5. /\ IF (r[1] = 0) = (type = "CBZ") THEN Leave(r, Low(r[PC] + 8)) ELSE Finish(r)
      /\ UNCHANGED <<program, flags, monitor, mem, start>>
  BY <1>2, <1>3, <1>4, Zenon DEF ExecuteCbzCbnz
<1>6. flags' \in Flags /\ mem' = mem
  BY <1>1, <1>5
<1>7. CASE (r[1] = 0) = (type = "CBZ")
  <2>1. Leave(r, Low(r[PC] + 8))
    BY <1>5, <1>7
  <2>2. Goes(Low(r[PC] + 8), r, mem')
    BY <1>1, <1>5, <1>6, <2>1, EndsAre, Zenon
  <2> QED BY <1>6, <1>7, <2>2
<1>8. CASE ~((r[1] = 0) = (type = "CBZ"))
  <2>1. Finish(r)
    BY <1>5, <1>8
  <2>2. Goes(Low(r[PC] + Bytes(Ins)), r, mem')
    BY <1>1, <1>5, <1>6, <2>1, EndsAre, Zenon
  <2> QED BY <1>2, <1>6, <1>8, <2>2
<1> QED BY <1>7, <1>8

(* A 16-bit operation that writes register d *)
LEMMA Writes16 ==
  ASSUME Next, Outside, ~Ins.wide, Ins.type \in DataProcessingTypes, Ins.type \notin Compares16,
         NEW d \in 0 .. 14, Ins.rd = d, NEW out, Outcomes16 = {out}, out.c \in BOOLEAN, out.v \in BOOLEAN
  PROVE  Goes(Low(r[PC] + 2), [r EXCEPT ![d] = out.result], mem)
<1>1. ~Skipped /\ DOMAIN r = 0 .. 15 /\ flags \in Flags
  BY OutsideIs
<1>2. ExecuteDataProcessing
  BY <1>1, TypesRun, StepIs DEF Outside, Ready
<1> DEFINE regs == [r EXCEPT ![d] = out.result]
<1>3. /\ Finish(regs) /\ flags' = (IF Ins.type \in Silent16 THEN flags ELSE Flagged(out))
      /\ UNCHANGED <<program, monitor, mem, start>>
  BY <1>2 DEF ExecuteDataProcessing, Write
<1>4. DOMAIN regs = 0 .. 15 /\ Bytes(Ins) = 2
  BY <1>1 DEF Bytes
<1> HIDE DEF regs
<1>5. flags' \in Flags
  BY <1>1, <1>3, FlaggedIs
<1>6. Goes(Low(r[PC] + Bytes(Ins)), regs, mem')
  BY <1>3, <1>4, <1>5, EndsAre, Zenon
<1> QED BY <1>3, <1>4, <1>6 DEF regs

(* The arithmetic of the programs, none of which is seen in the flags. *)
LEMMA ArithmeticStep ==
  ASSUME Next, Outside
  PROVE  /\ Ins = DI("SUB_IMM8", 1, 1) => Goes(Low(r[PC] + 2), [r EXCEPT ![1] = Low(r[1] - 1)], mem)
         /\ \A d \in {2, 4} : Ins = DNM("ADD_REG", d, d, 0) => Goes(Low(r[PC] + 2), [r EXCEPT ![d] = Low(r[d] + r[0])], mem)
         /\ Ins = Copy(2, 4) => Goes(Low(r[PC] + 2), [r EXCEPT ![2] = r[4]], mem)
         /\ Ins = DI("SUB_SP_IMM7", 13, 12) => Goes(Low(r[PC] + 2), [r EXCEPT ![SP] = Low(r[SP] - 12)], mem)
         /\ Ins = DI("ADD_SP_IMM7", 13, 12) => Goes(Low(r[PC] + 2), [r EXCEPT ![SP] = Low(r[SP] + 12)], mem)
<1> DEFINE types == {"SUB_IMM8", "ADD_REG", "MOV_HI", "SUB_SP_IMM7", "ADD_SP_IMM7"}
<1>1. types \subseteq DataProcessingTypes /\ types \subseteq Narrow /\ types \cap Compares16 = {}
  <2>1. types \subseteq DataProcessingTypes
    BY DEF DataProcessingTypes, AluTable
  <2> QED BY <2>1 DEF Narrow, Compares16
<1>2. ASSUME NEW type \in types, NEW d \in 0 .. 14, Ins.type = type, Ins.rd = d, ~Ins.wide,
             NEW out, Outcomes16 = {out}, out.c \in BOOLEAN, out.v \in BOOLEAN
      PROVE  Goes(Low(r[PC] + 2), [r EXCEPT ![d] = out.result], mem)
  BY <1>1, <1>2, Writes16
<1>3. ASSUME NEW type \in {"SUB_IMM8", "SUB_SP_IMM7", "ADD_SP_IMM7"}, NEW d, NEW i, Ins = DI(type, d, i)
      PROVE  Ins.type = type /\ ~Ins.wide /\ Ins.rd = d /\ Operand1 = r[d] /\ Operand2 = i
  BY <1>1, <1>3 DEF DI, Of, Has, Operand1, Operand2
<1>4. ASSUME Ins = DI("SUB_IMM8", 1, 1) PROVE Goes(Low(r[PC] + 2), [r EXCEPT ![1] = Low(r[1] - 1)], mem)
  <2> DEFINE out == Subtract(r[1], 1)
  <2>1. Outcomes16 = {out} /\ Ins.type = "SUB_IMM8" /\ Ins.rd = 1 /\ ~Ins.wide
    BY <1>3, <1>4 DEF Outcomes16
  <2>2. out.c \in BOOLEAN /\ out.v \in BOOLEAN /\ out.result = Low(r[1] - 1)
    BY FlagsAreBooleans DEF Subtract, Result
  <2> HIDE DEF out
  <2>3. Goes(Low(r[PC] + 2), [r EXCEPT ![1] = out.result], mem)
    BY <1>2, <2>1, <2>2
  <2> QED BY <2>2, <2>3
<1>5. ASSUME NEW d \in {2, 4}, Ins = DNM("ADD_REG", d, d, 0)
      PROVE  Goes(Low(r[PC] + 2), [r EXCEPT ![d] = Low(r[d] + r[0])], mem)
  <2> DEFINE out == Add(r[d], r[0])
  <2>0. Ins.type = "ADD_REG" /\ ~Ins.wide /\ Ins.rd = d /\ Operand1 = r[d] /\ Operand2 = r[0]
    BY <1>1, <1>5 DEF DNM, Of, Has, Operand1, Operand2
  <2>1. Outcomes16 = {out} /\ Ins.type = "ADD_REG" /\ Ins.rd = d /\ ~Ins.wide /\ d \in 0 .. 14
    BY <2>0 DEF Outcomes16
  <2>2. out.c \in BOOLEAN /\ out.v \in BOOLEAN /\ out.result = Low(r[d] + r[0])
    BY FlagsAreBooleans DEF Add, Result
  <2> HIDE DEF out
  <2>3. Goes(Low(r[PC] + 2), [r EXCEPT ![d] = out.result], mem)
    BY <1>2, <2>1, <2>2
  <2> QED BY <2>2, <2>3
<1>6. ASSUME Ins = Copy(2, 4) PROVE Goes(Low(r[PC] + 2), [r EXCEPT ![2] = r[4]], mem)
  <2> DEFINE out == Plain(r[4])
  <2>1. Outcomes16 = {out} /\ Ins.type = "MOV_HI" /\ Ins.rd = 2 /\ ~Ins.wide
    BY <1>1, <1>6 DEF Outcomes16, Copy, Of, Has, Operand2
  <2>2. out.c \in BOOLEAN /\ out.v \in BOOLEAN /\ out.result = r[4]
    BY DEF Plain, Result
  <2> HIDE DEF out
  <2>3. Goes(Low(r[PC] + 2), [r EXCEPT ![2] = out.result], mem)
    BY <1>2, <2>1, <2>2
  <2> QED BY <2>2, <2>3
<1>7. ASSUME Ins = DI("SUB_SP_IMM7", 13, 12) PROVE Goes(Low(r[PC] + 2), [r EXCEPT ![SP] = Low(r[SP] - 12)], mem)
  <2> DEFINE out == Subtract(r[13], 12)
  <2>1. Outcomes16 = {out} /\ Ins.type = "SUB_SP_IMM7" /\ Ins.rd = 13 /\ ~Ins.wide
    BY <1>3, <1>7 DEF Outcomes16
  <2>2. out.c \in BOOLEAN /\ out.v \in BOOLEAN /\ out.result = Low(r[13] - 12)
    BY FlagsAreBooleans DEF Subtract, Result
  <2> HIDE DEF out
  <2>3. Goes(Low(r[PC] + 2), [r EXCEPT ![13] = out.result], mem)
    BY <1>2, <2>1, <2>2
  <2> QED BY <2>2, <2>3 DEF SP
<1>8. ASSUME Ins = DI("ADD_SP_IMM7", 13, 12) PROVE Goes(Low(r[PC] + 2), [r EXCEPT ![SP] = Low(r[SP] + 12)], mem)
  <2> DEFINE out == Add(r[13], 12)
  <2>1. Outcomes16 = {out} /\ Ins.type = "ADD_SP_IMM7" /\ Ins.rd = 13 /\ ~Ins.wide
    BY <1>3, <1>8 DEF Outcomes16
  <2>2. out.c \in BOOLEAN /\ out.v \in BOOLEAN /\ out.result = Low(r[13] + 12)
    BY FlagsAreBooleans DEF Add, Result
  <2> HIDE DEF out
  <2>3. Goes(Low(r[PC] + 2), [r EXCEPT ![13] = out.result], mem)
    BY <1>2, <2>1, <2>2
  <2> QED BY <2>2, <2>3 DEF SP
<1> QED BY <1>4, <1>5, <1>6, <1>7, <1>8

(* MOVW of a word. *)
LEMMA ConstantStep ==
  ASSUME Next, Outside, NEW d \in 0 .. 12, NEW i \in Word, Ins = Mov(d, i)
  PROVE  Goes(Low(r[PC] + 4), [r EXCEPT ![d] = i], mem)
<1>1. ~Skipped /\ ~InItBlock /\ DOMAIN r = 0 .. 15 /\ flags \in Flags
  BY OutsideIs
<1> DEFINE mov == T32("MOV", "_IMM")
           regs == [r EXCEPT ![d] = i]
<1>2. /\ HandlerOf[program.core][mov] = "execute_t32_data_processing"
      /\ Operation32[mov] = "MOV"
  BY TypesRun DEF Outside, Ready, Operations32
<1>3. /\ Ins.type = mov /\ Ins.wide /\ Ins.rd = d /\ Ins.imm = i /\ ~Ins.s /\ Has("imm")
  <2>1. Mov(d, i).type = mov
    BY MovIs, Zenon
  <2>2. Mov(d, i).wide /\ Mov(d, i).rd = d /\ Mov(d, i).imm = i /\ ~Mov(d, i).s /\ "imm" \in DOMAIN Mov(d, i)
    BY MovIs
  <2> QED BY <2>1, <2>2, Zenon DEF Has
<1> HIDE DEF mov
<1>4. ExecuteT32DataProcessing
  BY <1>1, <1>2, <1>3, StepIs
<1>5. Outcome32.result = i
  <2>1. Operand32 = i
    BY <1>3, Sizes, LowIs DEF Operand32
  <2> QED BY <1>2, <1>3, <2>1 DEF Outcome32, Plain, Result
<1>6. Finish(regs) /\ flags' = flags /\ UNCHANGED <<program, monitor, mem, start>>
  BY <1>2, <1>3, <1>4, <1>5 DEF ExecuteT32DataProcessing, Write
<1>7. DOMAIN regs = 0 .. 15 /\ Bytes(Ins) = 4 /\ flags' \in Flags
  BY <1>1, <1>3, <1>6 DEF Bytes
<1> HIDE DEF regs
<1>8. Goes(Low(r[PC] + Bytes(Ins)), regs, mem')
  BY <1>6, <1>7, EndsAre, Zenon
<1> QED BY <1>6, <1>7, <1>8 DEF regs

-----------------------------------------------------------------------------
(* Words in memory, and the stack *)

Reads(m, a) ==
  m[a] * 2^(ByteBits * 0) + m[a + 1] * 2^(ByteBits * 1) + m[a + 2] * 2^(ByteBits * 2) + m[a + 3] * 2^(ByteBits * 3)
Holds(m, a, v) == m[a] = ByteOf(v, 0) /\ m[a + 1] = ByteOf(v, 1) /\ m[a + 2] = ByteOf(v, 2) /\ m[a + 3] = ByteOf(v, 3)
InRam(a) == a .. a + 3 \subseteq Ram

(* The four addresses of a word in memory do not wrap. *)
LEMMA InRamIs ==
  ASSUME NEW a \in Int, InRam(a)
  PROVE  /\ \A i \in 0 .. 3 : a + i \in Ram /\ a + i \in 0 .. Modulus - 1 /\ Low(a + i) = a + i
         /\ a \in Ram /\ a \in 0 .. Modulus - 1 /\ Low(a) = a
<1>1. ASSUME NEW i \in 0 .. 3 PROVE a + i \in Ram /\ a + i \in 0 .. Modulus - 1 /\ Low(a + i) = a + i
  <2>1. a + i \in a .. a + 3 /\ a + i \in Int
    OBVIOUS
  <2>2. a + i \in Ram
    BY <2>1 DEF InRam
  <2>3. a + i \in 0 .. Modulus - 1
    BY <2>2, RamAssumption, Sizes
  <2> QED BY <2>1, <2>2, <2>3, LowIs
<1>2. 0 \in 0 .. 3 /\ a + 0 = a
  OBVIOUS
<1> QED BY <1>1, <1>2

(* A load of a word there reads its four bytes. *)
LEMMA LoadReads ==
  ASSUME NEW a \in Int, InRam(a)
  PROVE  Load(a, 4) = Reads(mem, a)
<1> DEFINE P(b, c, d, e) == b * 2^(ByteBits * 0) + c * 2^(ByteBits * 1) + d * 2^(ByteBits * 2) + e * 2^(ByteBits * 3)
<1>1. Load(a, 4) = P(mem[Low(a + 0)], mem[Low(a + 1)], mem[Low(a + 2)], mem[Low(a + 3)])
  BY 0 < 4, 1 < 4, 2 < 4, 3 < 4, Zenon DEF Load
<1>2. a + 0 = a /\ 0 \in 0 .. 3 /\ 1 \in 0 .. 3 /\ 2 \in 0 .. 3 /\ 3 \in 0 .. 3
  OBVIOUS
<1>3. Low(a + 0) = a /\ Low(a + 1) = a + 1 /\ Low(a + 2) = a + 2 /\ Low(a + 3) = a + 3
  BY <1>2, InRamIs
<1>4. Reads(mem, a) = P(mem[a], mem[a + 1], mem[a + 2], mem[a + 3])
  BY Zenon DEF Reads
<1> HIDE DEF P
<1> QED BY <1>1, <1>3, <1>4, Zenon

(* Four bytes of v read as v. *)
LEMMA HoldsReads ==
  ASSUME NEW m, NEW a, NEW v \in Word, Holds(m, a, v)
  PROVE  Reads(m, a) = v
<1>1. Reads(m, a) = v % 2^(ByteBits * 4)
  BY BytesAre, Zenon DEF Reads, Holds
<1>2. v % 2^(ByteBits * 4) = v
  BY BytesAssumption, Sizes, LowIs DEF Modulus, Low
<1> QED BY <1>1, <1>2

(* Of the addresses of memory, just those of the word are less than 4 behind it. *)
LEMMA DistanceIs ==
  ASSUME NEW a \in Int, InRam(a), NEW b \in Ram
  PROVE  /\ Low(b - a) < 4 <=> b \in a .. a + 3
         /\ b \in a .. a + 3 => Low(b - a) = b - a
<1>1. b \in 0 .. Modulus - 1 /\ a \in 0 .. Modulus - 1 /\ a + 3 \in 0 .. Modulus - 1 /\ Modulus \in Nat
  BY InRamIs, RamAssumption, Sizes
<1>2. b - a \in Int
  BY <1>1
<1>3. CASE b >= a
  BY <1>1, <1>2, <1>3, LowIs
<1>4. CASE b < a
  <2>1. Low(b - a) = b - a + Modulus
    BY <1>1, <1>2, <1>4, LowIs
  <2>2. ~(Low(b - a) < 4)
    BY <1>1, <1>4, <2>1
  <2> QED BY <1>1, <1>4, <2>2
<1> QED BY <1>1, <1>3, <1>4

(* A store of a word there writes its four bytes and no others. *)
LEMMA StoreHolds ==
  ASSUME NEW m, NEW a \in Int, InRam(a), NEW v
  PROVE  /\ Holds(Store(m, a, v, 4), a, v)
         /\ \A b \in Ram : b \notin a .. a + 3 => Store(m, a, v, 4)[b] = m[b]
<1> DEFINE S == Store(m, a, v, 4)
<1>1. \A b \in Ram : S[b] = IF Low(b - a) < 4 THEN ByteOf(v, Low(b - a)) ELSE m[b]
  BY Zenon DEF Store
<1> HIDE DEF S
<1>2. ASSUME NEW i \in 0 .. 3 PROVE S[a + i] = ByteOf(v, i)
  <2>1. a + i \in Ram /\ a + i \in a .. a + 3 /\ (a + i) - a = i
    BY InRamIs
  <2>2. Low((a + i) - a) < 4 /\ Low((a + i) - a) = i
    BY <2>1, DistanceIs
  <2> QED BY <1>1, <2>1, <2>2
<1>3. Holds(S, a, v)
  <2>1. a + 0 = a /\ 0 \in 0 .. 3 /\ 1 \in 0 .. 3 /\ 2 \in 0 .. 3 /\ 3 \in 0 .. 3
    OBVIOUS
  <2> QED BY <1>2, <2>1 DEF Holds
<1>4. \A b \in Ram : b \notin a .. a + 3 => S[b] = m[b]
  BY <1>1, DistanceIs
<1> QED BY <1>3, <1>4 DEF S

(* The places of two or three registers *)
Place(list, i) == Cardinality({j \in list : j < i})

(* The places of the registers in the lists that the programs save. *)
LEMMA PlacesAre ==
  /\ \A i \in {14, 15} :
       LET list == {4, i} IN Cardinality(list) = 2 /\ Place(list, 4) = 0 /\ Place(list, i) = 1
  /\ Cardinality({4, 5}) = 2 /\ Place({4, 5}, 4) = 0 /\ Place({4, 5}, 5) = 1
  /\ \A i \in {14, 15} :
       LET list == {4, 5, i}
       IN  Cardinality(list) = 3 /\ Place(list, 4) = 0 /\ Place(list, 5) = 1 /\ Place(list, i) = 2
<1>1. Cardinality({}) = 0
  BY FS_EmptySet
<1>2. \A a : Cardinality({a}) = 1 /\ IsFiniteSet({a})
  BY FS_Singleton
<1>3. ASSUME NEW a, NEW b, a # b PROVE Cardinality({a, b}) = 2 /\ IsFiniteSet({a, b})
  <2>1. {a, b} = {a} \cup {b} /\ b \notin {a}
    BY <1>3
  <2>2. IsFiniteSet({a} \cup {b}) /\ Cardinality({a} \cup {b}) = Cardinality({a}) + 1
    BY <1>2, <2>1, FS_AddElement, Zenon
  <2>3. Cardinality({a}) + 1 = 2
    BY <1>2
  <2> QED BY <2>1, <2>2, <2>3, Zenon
<1>4. ASSUME NEW i \in {5, 14, 15}
      PROVE  LET list == {4, i} IN Cardinality(list) = 2 /\ IsFiniteSet(list) /\ Place(list, 4) = 0 /\ Place(list, i) = 1
  <2>1. {j \in {4, i} : j < 4} = {} /\ {j \in {4, i} : j < i} = {4} /\ 4 # i
    OBVIOUS
  <2> QED BY <1>1, <1>2, <1>3, <2>1, ZenonT(30) DEF Place
<1>5. ASSUME NEW i \in {14, 15}
      PROVE  LET list == {4, 5, i}
             IN  Cardinality(list) = 3 /\ Place(list, 4) = 0 /\ Place(list, 5) = 1 /\ Place(list, i) = 2
  <2>1. {j \in {4, 5, i} : j < 4} = {} /\ {j \in {4, 5, i} : j < 5} = {4} /\ {j \in {4, 5, i} : j < i} = {4, 5}
    OBVIOUS
  <2>2. Cardinality({4, 5}) = 2 /\ IsFiniteSet({4, 5})
    BY <1>4, 5 \in {5, 14, 15}, Zenon
  <2> DEFINE pair == {4, 5}
  <2>3. {4, 5, i} = pair \cup {i} /\ i \notin pair
    OBVIOUS
  <2>4. Place({4, 5, i}, 4) = 0 /\ Place({4, 5, i}, 5) = 1 /\ Place({4, 5, i}, i) = 2
    BY <1>1, <1>2, <2>1, <2>2 DEF Place
  <2> HIDE DEF pair
  <2>5. Cardinality(pair \cup {i}) = Cardinality(pair) + 1
    BY <2>2, <2>3, FS_AddElement, Zenon DEF pair
  <2>6. Cardinality(pair) + 1 = 3
    BY <2>2 DEF pair
  <2>7. Cardinality({4, 5, i}) = 3
    BY <2>3, <2>5, <2>6, Zenon
  <2> QED BY <2>4, <2>7, Zenon
<1>6. \A i \in {14, 15} : i \in {5, 14, 15}
  OBVIOUS
<1>7. 5 \in {5, 14, 15}
  OBVIOUS
<1> QED BY <1>4, <1>5, <1>6, <1>7, Zenon

(* Registers stored one after the other are found again, and nothing else is written. *)
LEMMA StoreAllHolds ==
  ASSUME NEW list, NEW n \in Nat, NEW a \in Int, a .. a + 4 * n - 1 \subseteq Ram,
         \A i \in list : Place(list, i) \in 0 .. n - 1,
         \A i, j \in list : Place(list, i) = Place(list, j) => i = j
  PROVE  /\ \A i \in list : Holds(StoreAll(list, a), a + 4 * Place(list, i), r[i])
         /\ \A b \in Ram : b \notin a .. a + 4 * n - 1 => StoreAll(list, a)[b] = mem[b]
<1> DEFINE S == StoreAll(list, a)
           at(i) == a + 4 * Place(list, i)
           hit(b) == {i \in list : Low(b - Slot(list, a, i)) < 4}
<1>1. ASSUME NEW i \in list
      PROVE  at(i) \in Int /\ InRam(at(i)) /\ at(i) .. at(i) + 3 \subseteq a .. a + 4 * n - 1 /\ Slot(list, a, i) = at(i)
  <2> DEFINE p == Place(list, i)
  <2>1. p \in 0 .. n - 1
    OBVIOUS
  <2> HIDE DEF p
  <2>2. a + 4 * p \in Int /\ a + 4 * p .. a + 4 * p + 3 \subseteq a .. a + 4 * n - 1
    BY <2>1
  <2>3. InRam(a + 4 * p)
    BY <2>2 DEF InRam
  <2>4. Slot(list, a, i) = Low(a + 4 * p)
    BY DEF Slot, Place, p
  <2>5. Slot(list, a, i) = a + 4 * p
    BY <2>2, <2>3, <2>4, InRamIs
  <2> QED BY <2>2, <2>3, <2>5 DEF p
<1>2. \A b \in Ram : S[b] = IF hit(b) = {} THEN mem[b]
                             ELSE LET i == CHOOSE i \in hit(b) : TRUE IN ByteOf(r[i], Low(b - Slot(list, a, i)))
  BY Zenon DEF StoreAll
<1>3. ASSUME NEW b \in Ram, NEW i \in list PROVE i \in hit(b) <=> b \in at(i) .. at(i) + 3
  <2>1. Low(b - at(i)) < 4 <=> b \in at(i) .. at(i) + 3
    BY <1>1, DistanceIs
  <2> QED BY <1>1, <2>1
<1>4. ASSUME NEW i \in list, NEW k \in 0 .. 3 PROVE S[at(i) + k] = ByteOf(r[i], k)
  <2> DEFINE b == at(i) + k
  <2>1. b \in Ram /\ b \in at(i) .. at(i) + 3 /\ b - at(i) = k
    BY <1>1, InRamIs
  <2>2. i \in hit(b)
    BY <1>3, <2>1
  <2>3. ASSUME NEW j \in hit(b) PROVE j = i
    <3>1. j \in list /\ b \in at(j) .. at(j) + 3
      BY <1>3, <2>1, <2>3
    <3>2. Place(list, j) \in 0 .. n - 1 /\ Place(list, i) \in 0 .. n - 1
      BY <3>1
    <3> DEFINE p == Place(list, j)
               q == Place(list, i)
    <3>3. b \in a + 4 * p .. a + 4 * p + 3 /\ b \in a + 4 * q .. a + 4 * q + 3
      BY <2>1, <3>1
    <3>4. p \in Int /\ q \in Int
      BY <3>2
    <3> HIDE DEF p, q, b
    <3>5. p = q
      BY <3>3, <3>4
    <3>6. Place(list, j) = Place(list, i)
      BY <3>5 DEF p, q
    <3> QED BY <3>1, <3>6
  <2>4. (CHOOSE j \in hit(b) : TRUE) = i
    <3> HIDE DEF hit
    <3>1. (CHOOSE j \in hit(b) : TRUE) \in hit(b)
      BY <2>2
    <3> QED BY <2>3, <3>1
  <2>5. Low(b - at(i)) = k
    BY <1>1, <2>1, DistanceIs
  <2>6. hit(b) # {}
    BY <2>2, Zenon
  <2>7. S[b] = ByteOf(r[i], Low(b - Slot(list, a, i)))
    <3> HIDE DEF hit, S, at
    <3> QED BY <1>2, <2>1, <2>4, <2>6
  <2>8. Slot(list, a, i) = at(i)
    BY <1>1
  <2> QED BY <2>5, <2>7, <2>8, Zenon
<1>5. ASSUME NEW i \in list PROVE Holds(S, at(i), r[i])
  <2>1. at(i) + 0 = at(i) /\ 0 \in 0 .. 3 /\ 1 \in 0 .. 3 /\ 2 \in 0 .. 3 /\ 3 \in 0 .. 3
    BY <1>1
  <2> HIDE DEF S, at
  <2> QED BY <1>4, <2>1 DEF Holds
<1>6. ASSUME NEW b \in Ram, b \notin a .. a + 4 * n - 1 PROVE S[b] = mem[b]
  <2>1. hit(b) = {}
    <3> SUFFICES ASSUME NEW i \in hit(b) PROVE FALSE
      BY Zenon
    <3>1. i \in list /\ b \in at(i) .. at(i) + 3
      BY <1>3
    <3> QED BY <1>1, <1>6, <3>1, Zenon
  <2> QED BY <1>2, <2>1, Zenon
<1> QED BY <1>5, <1>6

(* The handlers of the multiple transfers. *)
LEMMA MultipleRun ==
  ASSUME Outside
  PROVE  /\ \A t \in {"PUSH", "POP"} : HandlerOf[program.core][t] = "execute_load_store_multiple" /\ t \in Narrow
         /\ \A t \in {"T32_STMDB", "T32_LDMIA", "T32_LDMDB"} :
              HandlerOf[program.core][t] = "execute_t32_multiple_load_store" /\ t \notin Narrow
<1>1. {"PUSH", "POP"} \subseteq Narrow /\ {"T32_STMDB", "T32_LDMIA", "T32_LDMDB"} \cap Narrow = {}
  BY DEF Narrow, DataProcessingTypes, LoadStoreTypes, AluTable, LoadStoreTable
<1>2. /\ \A t \in {"STMIA", "LDMIA", "PUSH", "POP"} : HandlerOf[program.core][t] = "execute_load_store_multiple"
      /\ \A t \in {"T32_LDMIA", "T32_LDMDB", "T32_STMIA", "T32_STMDB"} :
           HandlerOf[program.core][t] = "execute_t32_multiple_load_store"
  BY TypesRun, Zenon DEF Outside, Ready
<1> QED BY <1>1, <1>2

(* PUSH, and STMDB with write-back: the list is below SP, and SP below the list. *)
LEMMA SaveStep ==
  ASSUME Next, Outside, NEW type \in {"PUSH", "T32_STMDB"}, NEW list, Ins = Many(type, 13, list),
         NEW below, below = Low(r[SP] - 4 * Cardinality(list))
  PROVE  Goes(Low(r[PC] + IF type = "PUSH" THEN 2 ELSE 4), [r EXCEPT ![SP] = below], StoreAll(list, below))
<1>1. ~Skipped /\ DOMAIN r = 0 .. 15 /\ flags \in Flags
  BY OutsideIs
<1>2. Ins.type = type /\ Ins.rn = SP /\ Ins.list = list /\ Bytes(Ins) = IF type = "PUSH" THEN 2 ELSE 4
  BY MultipleRun DEF Many, Of, SP, Bytes
<1> DEFINE regs == [r EXCEPT ![SP] = below]
<1>3. /\ Finish(regs) /\ mem' = StoreAll(list, below) /\ UNCHANGED <<program, flags, monitor, start>>
  <2>1. CASE type = "PUSH"
    <3>1. ExecuteLoadStoreMultiple
      BY <1>1, <1>2, <2>1, MultipleRun, StepIs
    <3> QED BY <1>2, <2>1, <3>1 DEF ExecuteLoadStoreMultiple, Write
  <2>2. CASE type = "T32_STMDB"
    <3>1. ExecuteT32MultipleLoadStore
      BY <1>1, <1>2, <2>2, MultipleRun, StepIs
    <3> QED BY <1>2, <2>2, <3>1 DEF ExecuteT32MultipleLoadStore
  <2> QED BY <2>1, <2>2
<1>4. DOMAIN regs = 0 .. 15 /\ flags' \in Flags
  BY <1>1, <1>3
<1> HIDE DEF regs
<1>5. Goes(Low(r[PC] + Bytes(Ins)), regs, mem')
  BY <1>3, <1>4, EndsAre, Zenon
<1> QED BY <1>2, <1>3, <1>5 DEF regs

(* The registers behind a step that restores a list of them. *)
Restoring(list) == [LoadAll(list, r[SP]) EXCEPT ![SP] = Beyond(list, r[SP])]

(* POP, LDMIA and LDMDB with write-back. LDMDB is one more alternative for a list that *)
(* holds PC.                                                                           *)
LEMMA RestoreStep ==
  ASSUME Next, Outside, NEW type \in {"POP", "T32_LDMIA", "T32_LDMDB"}, NEW list, Ins = Many(type, 13, list),
         type = "T32_LDMDB" => PC \in list
  PROVE  /\ PC \in list => Goes(Even(Restoring(list)[PC]), Restoring(list), mem)
         /\ PC \notin list => Goes(Low(r[PC] + IF type = "POP" THEN 2 ELSE 4), Restoring(list), mem)
<1> DEFINE regs == Restoring(list)
<1>1. ~Skipped /\ DOMAIN r = 0 .. 15 /\ flags \in Flags
  BY OutsideIs
<1>2. Ins.type = type /\ Ins.rn = SP /\ Ins.list = list /\ Bytes(Ins) = IF type = "POP" THEN 2 ELSE 4
  BY MultipleRun DEF Many, Of, SP, Bytes
<1>3. /\ IF PC \in list THEN Leave(regs, Even(regs[PC])) ELSE Finish(regs)
      /\ mem' = mem /\ UNCHANGED <<program, flags, monitor, start>>
  <2>1. CASE type = "POP"
    <3>1. ExecuteLoadStoreMultiple
      BY <1>1, <1>2, <2>1, MultipleRun, StepIs
    <3> QED BY <1>2, <2>1, <3>1 DEF ExecuteLoadStoreMultiple, Pop, Restoring
  <2>2. CASE type \in {"T32_LDMIA", "T32_LDMDB"}
    <3>1. ExecuteT32MultipleLoadStore
      BY <1>1, <1>2, <2>2, MultipleRun, StepIs
    <3> QED BY <1>2, <2>2, <3>1 DEF ExecuteT32MultipleLoadStore, Restoring
  <2> QED BY <2>1, <2>2
<1>4. DOMAIN regs = 0 .. 15 /\ flags' \in Flags
  BY <1>1, <1>3 DEF LoadAll, Restoring
<1> HIDE DEF regs
<1>5. CASE PC \in list
  BY <1>3, <1>4, <1>5, EndsAre, Zenon DEF regs
<1>6. CASE PC \notin list
  <2>1. Goes(Low(r[PC] + Bytes(Ins)), regs, mem')
    BY <1>3, <1>4, <1>6, EndsAre, Zenon
  <2> QED BY <1>2, <1>3, <1>6, <2>1, Zenon DEF regs
<1> QED BY <1>5, <1>6

(* The transfers of one register with SP *)
LEMMA SingleTypes ==
  ASSUME Outside
  PROVE  /\ \A t \in {"STR_SP", "LDR_SP"} : HandlerOf[program.core][t] = "execute_load_store" /\ t \in Narrow
         /\ Transfer["STR_SP"] = "STR" /\ Transfer["LDR_SP"] = "LDR"
         /\ \A t \in {"T32_STR_IMM", "T32_LDR_IMM", "T32_LDR_PRE_POST"} :
              /\ HandlerOf[program.core][t] = "execute_t32_load_store"
              /\ t \notin Narrow /\ t # "T32_LDR_LIT" /\ t \notin Suffixed(TransferNames, "_REG")
              /\ t \in Suffixed(TransferNames, "_PRE_POST") <=> t = "T32_LDR_PRE_POST"
              /\ Transfer[t] = IF t = "T32_STR_IMM" THEN "STR" ELSE "LDR"
<1>1. {"STR_SP", "LDR_SP"} \subseteq LoadStoreTypes
  BY DEF LoadStoreTypes, LoadStoreTable
<1>2. {"STR_SP", "LDR_SP"} \subseteq Narrow /\ {"T32_STR_IMM", "T32_LDR_IMM", "T32_LDR_PRE_POST"} \cap Narrow = {}
  BY DEF Narrow, DataProcessingTypes, LoadStoreTypes, AluTable, LoadStoreTable
<1>3. /\ T32("STR", "_IMM") = "T32_STR_IMM" /\ T32("LDR", "_IMM") = "T32_LDR_IMM"
      /\ T32("LDR", "_PRE_POST") = "T32_LDR_PRE_POST"
  BY CallsAssumption DEF T32
<1>4. ASSUME NEW name \in {"LDR", "STR"}, NEW form \in {"_IMM", "_PRE_POST"}
      PROVE  LET t == T32(name, form)
             IN  /\ t \in LoadStore32Types /\ Transfer[t] = name
                 /\ t # "T32_LDR_LIT" /\ t \notin Suffixed(TransferNames, "_REG")
                 /\ t \in Suffixed(TransferNames, "_PRE_POST") <=> form = "_PRE_POST"
  <2>1. name \in TransferNames /\ name \notin SignedNames /\ form \in {"_IMM", "_REG", "_PRE_POST"} /\ form # "_REG"
    BY DEF TransferNames, SignedNames
  <2> QED BY <2>1, TransferNamesRun, Zenon
<1>5. ASSUME NEW name \in {"LDR", "STR"}, NEW form \in {"_IMM", "_PRE_POST"}, NEW t, t = T32(name, form)
      PROVE  /\ HandlerOf[program.core][t] = "execute_t32_load_store" /\ Transfer[t] = name
             /\ t # "T32_LDR_LIT" /\ t \notin Suffixed(TransferNames, "_REG")
             /\ t \in Suffixed(TransferNames, "_PRE_POST") <=> form = "_PRE_POST"
  <2>1. \A u \in LoadStore32Types : HandlerOf[program.core][u] = "execute_t32_load_store"
    BY TypesRun DEF Outside, Ready
  <2> QED BY <1>4, <1>5, <2>1, Zenon
<1> DEFINE TransfersBy(t, name, back) == /\ HandlerOf[program.core][t] = "execute_t32_load_store" /\ Transfer[t] = name
                                         /\ t # "T32_LDR_LIT" /\ t \notin Suffixed(TransferNames, "_REG")
                                         /\ t \in Suffixed(TransferNames, "_PRE_POST") <=> back
<1>6. TransfersBy("T32_STR_IMM", "STR", FALSE) /\ TransfersBy("T32_LDR_IMM", "LDR", FALSE) /\ TransfersBy("T32_LDR_PRE_POST", "LDR", TRUE)
  <2>1. "_IMM" # "_PRE_POST"
    OBVIOUS
  <2> QED BY <1>3, <1>5, <2>1, Zenon
<1>7. \A t \in {"STR_SP", "LDR_SP"} : HandlerOf[program.core][t] = "execute_load_store"
  BY <1>1, TypesRun DEF Outside, Ready
<1>8. Transfer["STR_SP"] = "STR" /\ Transfer["LDR_SP"] = "LDR"
  BY CallsAssumption, Zenon
<1> HIDE DEF TransfersBy
<1>9. \A t \in {"T32_STR_IMM", "T32_LDR_IMM", "T32_LDR_PRE_POST"} :
        TransfersBy(t, IF t = "T32_STR_IMM" THEN "STR" ELSE "LDR", t = "T32_LDR_PRE_POST")
  BY <1>6
<1>10. \A t \in {"T32_STR_IMM", "T32_LDR_IMM", "T32_LDR_PRE_POST"} : t \notin Narrow
  BY <1>2
<1>11. \A t \in {"STR_SP", "LDR_SP"} : t \in Narrow
  BY <1>2
<1> QED BY <1>7, <1>8, <1>9, <1>10, <1>11, Zenon DEF TransfersBy

(* The word at SP + i *)
LEMMA FrameStep ==
  ASSUME Next, Outside, NEW wide \in BOOLEAN, NEW loads \in BOOLEAN, NEW d \in 0 .. 14, NEW i \in Int,
         Ins = DNI(IF wide THEN IF loads THEN "T32_LDR_IMM" ELSE "T32_STR_IMM"
                           ELSE IF loads THEN "LDR_SP" ELSE "STR_SP", d, 13, i)
  PROVE  LET a == Low(r[SP] + i)
         IN  IF loads THEN Goes(Low(r[PC] + IF wide THEN 4 ELSE 2), [r EXCEPT ![d] = Load(a, 4)], mem)
                      ELSE Goes(Low(r[PC] + IF wide THEN 4 ELSE 2), r, Store(mem, a, r[d], 4))
<1>1. ~Skipped /\ DOMAIN r = 0 .. 15 /\ flags \in Flags
  BY OutsideIs
<1> DEFINE a == Low(r[SP] + i)
           type == IF wide THEN IF loads THEN "T32_LDR_IMM" ELSE "T32_STR_IMM"
                           ELSE IF loads THEN "LDR_SP" ELSE "STR_SP"
           regs == IF loads THEN [r EXCEPT ![d] = Load(a, 4)] ELSE r
           m == IF loads THEN mem ELSE Store(mem, a, r[d], 4)
<1>2. /\ Ins.type = type /\ Ins.rd = d /\ Ins.rn = 13 /\ Ins.imm = i /\ Has("imm") /\ ~Has("neg")
      /\ Ins.wide <=> wide
  BY SingleTypes DEF DNI, Of, Has
<1>3. Bytes(Ins) = IF wide THEN 4 ELSE 2
  BY <1>2, Zenon DEF Bytes
<1>4. Transfer[type] = (IF loads THEN "LDR" ELSE "STR")
  BY SingleTypes
<1>5. Loads = loads /\ Size = 4 /\ \A b : Loaded(b) = Load(b, 4)
  BY <1>2, <1>4 DEF Loads, Size, Loaded
<1>6. Finish(regs) /\ mem' = m /\ UNCHANGED <<program, flags, monitor, start>>
  <2>1. CASE ~wide
    <3>1. ExecuteLoadStore
      BY <1>1, <1>2, <2>1, SingleTypes, StepIs
    <3>2. Ins.rn # PC /\ Low(r[Ins.rn] + Operand2) = a
      BY <1>2 DEF PC, SP, Operand2
    <3>3. /\ Finish(IF loads THEN Write(d, Load(a, 4)) ELSE r)
          /\ mem' = IF loads THEN mem ELSE Store(mem, a, r[d], 4)
          /\ UNCHANGED <<program, flags, monitor, start>>
      BY <1>2, <1>5, <3>1, <3>2, Zenon DEF ExecuteLoadStore
    <3> QED BY <3>3 DEF Write
  <2>2. CASE wide
    <3>1. ExecuteT32LoadStore
      BY <1>1, <1>2, <2>2, SingleTypes, StepIs
    <3>2. ~PrePost /\ Address32 = a /\ d # PC
      <4>1. ~PrePost /\ Ins.type # "T32_LDR_LIT" /\ Ins.type \notin Suffixed(TransferNames, "_REG")
        BY <1>2, <2>2, SingleTypes DEF PrePost
      <4>2. Offset = i
        BY <1>2 DEF Offset
      <4> QED BY <1>2, <4>1, <4>2 DEF Address32, SP, PC
    <3>3. \A registers : WriteBack(registers) = registers
      BY <3>2 DEF WriteBack
    <3>4. /\ Finish(IF loads THEN Write(d, Load(a, 4)) ELSE r)
          /\ mem' = IF loads THEN mem ELSE Store(mem, a, r[d], 4)
          /\ UNCHANGED <<program, flags, monitor, start>>
      BY <1>2, <1>5, <3>1, <3>2, <3>3, Zenon DEF ExecuteT32LoadStore
    <3> QED BY <3>4 DEF Write
  <2> QED BY <2>1, <2>2
<1>7. DOMAIN regs = 0 .. 15 /\ flags' \in Flags
  BY <1>1, <1>6
<1> HIDE DEF regs
<1>8. Goes(Low(r[PC] + Bytes(Ins)), regs, mem')
  BY <1>6, <1>7, EndsAre, Zenon
<1>9. Goes(Low(r[PC] + IF wide THEN 4 ELSE 2), regs, m)
  BY <1>3, <1>6, <1>8, Zenon
<1> QED BY <1>9 DEF regs

(* A load into PC, with SP moved behind it. *)
LEMMA LoadPcStep ==
  ASSUME Next, Outside, Ins = Post("T32_LDR_PRE_POST", 15, 13, 4)
  PROVE  Goes(Even(Load(r[SP], 4)), [r EXCEPT ![SP] = Low(r[SP] + 4)], mem)
<1>1. ~Skipped /\ ~Gated /\ DOMAIN r = 0 .. 15 /\ flags \in Flags
  BY OutsideIs
<1>2. /\ Ins.type = "T32_LDR_PRE_POST" /\ Ins.rd = PC /\ Ins.rn = SP /\ Ins.imm = 4 /\ ~Ins.pre /\ ~Ins.neg /\ Ins.wb
  BY SingleTypes DEF Post, Of, SP, PC
<1>3. ExecuteT32LoadStore
  BY <1>1, <1>2, SingleTypes, StepIs
<1>4. PrePost /\ Ins.type # "T32_LDR_LIT" /\ Ins.type \notin Suffixed(TransferNames, "_REG") /\ Transfer[Ins.type] = "LDR"
  BY <1>2, SingleTypes DEF PrePost
<1>5. Loads /\ Size = 4 /\ \A b : Loaded(b) = Load(b, 4)
  BY <1>4 DEF Loads, Size, Loaded
<1>6. Address32 = r[SP] /\ Offset = 4
  BY <1>2, <1>4 DEF Address32, Offset
<1> DEFINE data == Even(Load(r[SP], 4))
<1>7. r' = WriteBack(Write(PC, data)) /\ it' = it /\ mem' = mem /\ UNCHANGED <<program, flags, start>>
  BY <1>1, <1>2, <1>3, <1>5, <1>6, Zenon DEF ExecuteT32LoadStore
<1> HIDE DEF data
<1>8. WriteBack(Write(PC, data)) = [[r EXCEPT ![PC] = data] EXCEPT ![SP] = Low(r[SP] + 4)]
  <2>1. WriteBack(Write(PC, data)) = [Write(PC, data) EXCEPT ![SP] = Low(Write(PC, data)[SP] + 4)]
    BY <1>2, <1>4, <1>6 DEF WriteBack
  <2>2. Write(PC, data)[SP] = r[SP]
    BY <1>1 DEF Write, SP, PC
  <2> QED BY <2>1, <2>2, Zenon DEF Write
<1>9. r' = [j \in 0 .. 15 |-> IF j = PC THEN data ELSE [r EXCEPT ![SP] = Low(r[SP] + 4)][j]]
  <2> DEFINE low == Low(r[SP] + 4)
  <2>1. r' = [[r EXCEPT ![PC] = data] EXCEPT ![SP] = low]
    BY <1>7, <1>8, Zenon
  <2> HIDE DEF low
  <2>2. r' = [j \in 0 .. 15 |-> IF j = PC THEN data ELSE [r EXCEPT ![SP] = low][j]]
    <3>1. PC \in 0 .. 15 /\ SP \in 0 .. 15 /\ SP # PC
      BY DEF SP, PC
    <3> QED BY <1>1, <2>1, <3>1
  <2> QED BY <2>2, Zenon DEF low
<1>10. it' = NoIt
  BY <1>7 DEF Outside
<1>11. flags' \in Flags
  BY <1>1, <1>7
<1>12. Goes(data, [r EXCEPT ![SP] = Low(r[SP] + 4)], mem)
  BY <1>7, <1>9, <1>10, <1>11, Zenon DEF Goes
<1> QED BY <1>12 DEF data

-----------------------------------------------------------------------------
(* Subroutines.  T is the stack's top; what all programs of the group keep. *)

Untouched(m) == \A a \in Ram : a < StackTop - 32 => m[a] = InitialMem[a]

CallBase ==
  /\ Outside /\ x \in Word /\ y \in Word /\ r[0] = x
  /\ \A i \in 5 .. 12 : r[i] = 17 * i
  /\ Untouched(mem)

(* A step that leaves R0, R5 to R12 and memory below the stack as they are keeps CallBase. *)
LEMMA Moves ==
  ASSUME CallBase, NEW pc, NEW regs, NEW m, Goes(pc, regs, m), regs[0] = x,
         \A i \in 5 .. 12 : regs[i] = 17 * i, Untouched(m)
  PROVE  CallBase' /\ r'[PC] = pc /\ (\A j \in 0 .. 14 : r'[j] = regs[j]) /\ mem' = m
<1>1. r' = [j \in 0 .. 15 |-> IF j = PC THEN pc ELSE regs[j]] /\ mem' = m /\ it' = NoIt
      /\ flags' \in Flags /\ program' = program /\ start' = start
  BY DEF Goes
<1>2. r'[PC] = pc /\ (\A j \in 0 .. 14 : r'[j] = regs[j]) /\ r' = [j \in 0 .. 15 |-> r'[j]]
  BY <1>1 DEF PC
<1>3. Outside'
  BY <1>1, <1>2 DEF CallBase, Outside, Ready, NoIt
<1>4. x' = x /\ y' = y /\ r'[0] = x /\ (\A i \in 5 .. 12 : r'[i] = 17 * i)
  BY <1>1, <1>2 DEF x, y
<1>5. Untouched(mem)'
  BY <1>1 DEF Untouched
<1> QED BY <1>1, <1>2, <1>3, <1>4, <1>5 DEF CallBase

(* A step that writes one of the registers a subroutine uses, or none. *)
CallRegs == {1, 2, 3, 4, 13, 14}
OneMoves(pc, d, value) == /\ CallBase' /\ r'[PC] = pc /\ r'[d] = value /\ mem' = mem
                          /\ \A j \in CallRegs : j # d => r'[j] = r[j]

LEMMA MovesOne ==
  ASSUME CallBase, NEW pc, NEW d \in CallRegs, NEW value, Goes(pc, [r EXCEPT ![d] = value], mem)
  PROVE  OneMoves(pc, d, value)
<1> DEFINE regs == [r EXCEPT ![d] = value]
<1>1. DOMAIN r = 0 .. 15
  BY OutsideIs DEF CallBase
<1>2. regs[0] = x /\ (\A i \in 5 .. 12 : regs[i] = 17 * i) /\ Untouched(mem)
  BY <1>1 DEF CallBase, CallRegs
<1>3. d \in 0 .. 14 /\ regs[d] = value /\ \A j \in CallRegs : j \in 0 .. 14 /\ (j # d => regs[j] = r[j])
  BY <1>1 DEF CallRegs
<1> HIDE DEF regs
<1>4. CallBase' /\ r'[PC] = pc /\ (\A j \in 0 .. 14 : r'[j] = regs[j]) /\ mem' = mem
  BY <1>2, Moves, Zenon DEF regs
<1> QED BY <1>3, <1>4, Zenon DEF OneMoves

(* The same for a step that sets no register. *)
LEMMA MovesNone ==
  ASSUME CallBase, NEW pc, NEW m, Goes(pc, r, m), Untouched(m)
  PROVE  /\ CallBase' /\ r'[PC] = pc /\ mem' = m
         /\ \A j \in {1, 2, 3, 4, 13, 14} : r'[j] = r[j]
<1>1. r[0] = x /\ \A i \in 5 .. 12 : r[i] = 17 * i
  BY DEF CallBase
<1>2. CallBase' /\ r'[PC] = pc /\ (\A j \in 0 .. 14 : r'[j] = r[j]) /\ mem' = m
  BY <1>1, Moves, Zenon
<1> QED BY <1>2

(* Places in the code, and small values *)
LEMMA SmallIs ==
  /\ \A a \in 0 .. 204 : Low(a) = a /\ a \in Word
  /\ 68 \in Word /\ 85 \in Word
<1>1. ASSUME NEW a \in 0 .. 204 PROVE Low(a) = a /\ a \in Word
  <2>1. a \in Word
    BY InitialsAre
  <2> QED BY <2>1, LowIs, Sizes
<1> QED BY <1>1

(* The stack *)
LEMMA StackIs ==
  /\ StackTop \in 0 .. Modulus - 1 /\ Low(StackTop) = StackTop
  /\ \A k \in 1 .. 32 : StackTop - k \in Ram /\ StackTop - k \in 0 .. Modulus - 1 /\ Low(StackTop - k) = StackTop - k
  /\ \A k \in 4 .. 32 : InRam(StackTop - k)
  /\ \A a \in Ram : a \in Int
<1>1. StackTop \in 0 .. Modulus - 1 /\ \A a \in Ram : a \in 0 .. Modulus - 1
  BY ExecuteAssumption, RamAssumption, Sizes
<1>2. StackTop - 32 .. StackTop - 1 \subseteq Ram
  BY CallsAssumption
<1>3. ASSUME NEW k \in 1 .. 32
      PROVE  StackTop - k \in Ram /\ StackTop - k \in 0 .. Modulus - 1 /\ Low(StackTop - k) = StackTop - k
  <2>1. StackTop - k \in StackTop - 32 .. StackTop - 1 /\ StackTop - k \in Int
    BY <1>1
  <2>2. StackTop - k \in 0 .. Modulus - 1
    BY <1>1, <1>2, <2>1
  <2> QED BY <1>2, <2>1, <2>2, LowIs
<1>4. ASSUME NEW k \in 4 .. 32 PROVE InRam(StackTop - k)
  <2>1. StackTop - k .. (StackTop - k) + 3 \subseteq StackTop - 32 .. StackTop - 1
    BY <1>1
  <2> QED BY <1>2, <2>1 DEF InRam
<1> QED BY <1>1, <1>3, <1>4, LowIs

(* Once more *)
LEMMA OnceMore ==
  ASSUME NEW a \in Word, NEW k \in Nat
  PROVE  /\ Low(Low(a * k) + a) = Low(a * (k + 1))
         /\ Low(a * 0) = 0
         /\ Low(a * k) \in Word
<1>1. a \in Int /\ Modulus \in Nat \ {0}
  BY Sizes
<1>2. a * (k + 1) = a * k + a /\ a * 0 = 0 /\ a * k \in Int
  BY <1>1
<1> DEFINE p == a * k
<1> HIDE DEF p
<1>3. Low(Low(p) + a) = Low(p + a) /\ Low(p) \in 0 .. Modulus - 1
  <2>1. p \in Int
    BY <1>2 DEF p
  <2>2. PICK q \in Int, low \in Int : p = q * Modulus + low /\ low = p % Modulus /\ low \in 0 .. Modulus - 1
    <3>1. p = (p \div Modulus) * Modulus + (p % Modulus) /\ p \div Modulus \in Int /\ p % Modulus \in 0 .. Modulus - 1
      BY <1>1, <2>1, DivMod, Zenon
    <3>2. p % Modulus \in Int
      BY <1>1, <3>1
    <3> QED BY <3>1, <3>2, Zenon
  <2>3. PICK z \in Int : z = -q
    OBVIOUS
  <2>4. low + a = (p + a) + z * Modulus /\ p + a \in Int
    <3>1. PICK w \in Int : w = q * Modulus
      BY <1>1
    <3>2. z * Modulus = -w
      BY <1>1, <2>3, <3>1
    <3>3. p = w + low
      BY <2>2, <3>1
    <3>4. low + a = (p + a) + -w
      BY <1>1, <2>1, <3>3
    <3> QED BY <1>1, <2>1, <3>2, <3>4
  <2>5. Low(low + a) = Low(p + a)
    BY <2>4, LowLoses
  <2> QED BY <2>2, <2>5 DEF Low, Modulus
<1>4. Low(0) = 0
  BY SmallIs
<1> QED BY <1>2, <1>3, <1>4, Sizes DEF p

(* What a step that restores registers from the stack loads. *)
LEMMA RestoredIs ==
  ASSUME Outside, NEW n \in Nat, NEW s \in Int, r[SP] = s, s + 4 * n \in 0 .. Modulus - 1,
         NEW list \in SUBSET (0 .. 15 \ {SP}), Cardinality(list) = n,
         \A i \in list : Place(list, i) \in Int /\ InRam(s + 4 * Place(list, i))
  PROVE  /\ DOMAIN Restoring(list) = 0 .. 15 /\ Restoring(list)[SP] = s + 4 * n
         /\ \A i \in list : Restoring(list)[i] = Reads(mem, s + 4 * Place(list, i))
         /\ \A i \in 0 .. 15 : i \notin list /\ i # SP => Restoring(list)[i] = r[i]
<1>1. Beyond(list, s) = s + 4 * n
  BY LowIs DEF Beyond
<1>2. ASSUME NEW i \in list PROVE LoadAll(list, s)[i] = Reads(mem, s + 4 * Place(list, i))
  <2>1. Slot(list, s, i) = Low(s + 4 * Place(list, i))
    BY Zenon DEF Slot, Place
  <2>2. Slot(list, s, i) = s + 4 * Place(list, i)
    <3> DEFINE a == s + 4 * Place(list, i)
    <3>1. a \in Int /\ InRam(a)
      OBVIOUS
    <3> HIDE DEF a
    <3>2. Low(a) = a
      BY <3>1, InRamIs
    <3> QED BY <2>1, <3>2 DEF a
  <2>3. Load(s + 4 * Place(list, i), 4) = Reads(mem, s + 4 * Place(list, i))
    BY LoadReads
  <2> QED BY <2>2, <2>3 DEF LoadAll
<1>3. DOMAIN LoadAll(list, s) = 0 .. 15 /\ SP \in 0 .. 15 /\ \A i \in 0 .. 15 : i \notin list => LoadAll(list, s)[i] = r[i]
  BY DEF LoadAll, SP
<1>4. \A i \in list : i \in 0 .. 15 /\ i # SP
  OBVIOUS
<1> DEFINE all == LoadAll(list, s)
<1>5. Restoring(list) = [all EXCEPT ![SP] = s + 4 * n]
  BY <1>1 DEF Restoring
<1>6. DOMAIN all = 0 .. 15 /\ \A i \in list : all[i] = Reads(mem, s + 4 * Place(list, i))
  BY <1>2, <1>3
<1>7. \A i \in 0 .. 15 : i \notin list => all[i] = r[i]
  BY <1>3
<1> HIDE DEF all
<1> QED BY <1>3, <1>4, <1>5, <1>6, <1>7

(* The loop from place l of the code on: R4 is x times what R1 has counted down. *)
TurningCode(l) ==
  /\ At(l, Mov(4, 0))
  /\ At(l + 4, Of("CBZ", [rn |-> 1, imm |-> 4]))
  /\ At(l + 6, DNM("ADD_REG", 4, 4, 0))
  /\ At(l + 8, DI("SUB_IMM8", 1, 1))
  /\ At(l + 10, Jump("B", -10))
  /\ At(l + 12, Copy(2, 4))

Turning(l) ==
  \/ r[PC] = l /\ r[1] = y
  \/ r[PC] \in {l + 4, l + 10} /\ r[1] \in 0 .. y /\ r[4] = Low(x * (y - r[1]))
  \/ r[PC] = l + 6 /\ r[1] \in 1 .. y /\ r[4] = Low(x * (y - r[1]))
  \/ r[PC] = l + 8 /\ r[1] \in 1 .. y /\ r[4] = Low(x * (y - r[1] + 1))
  \/ r[PC] = l + 12 /\ r[4] = Low(x * y)
  \/ r[PC] = l + 14 /\ r[2] = Low(x * y)

(* A step of the loop leads on in it, and touches neither the stack nor LR. *)
LEMMA LoopStep ==
  ASSUME Next, CallBase, NEW l \in {4, 6, 10}, TurningCode(l), Turning(l), r[PC] # l + 14
  PROVE  CallBase' /\ Turning(l)' /\ mem' = mem /\ r'[SP] = r[SP] /\ r'[LR] = r[LR]
<1>1. Outside /\ x \in Word /\ y \in Word /\ r[0] = x
  BY DEF CallBase
<1>2. x' = x /\ y' = y
  BY ProgramStays DEF x, y
<1>3. x \in Nat /\ y \in 0 .. Modulus - 1 /\ y \in Nat
  BY <1>1, Sizes
<1>4. /\ Low(l + 4) = l + 4 /\ Low((l + 4) + 8) = l + 12 /\ Low((l + 4) + 2) = l + 6 /\ Low((l + 6) + 2) = l + 8
      /\ Low((l + 8) + 2) = l + 10 /\ Low((l + 10) + 4 + -10) = l + 4 /\ Low((l + 12) + 2) = l + 14
  <2>1. /\ (l + 4) + 8 = l + 12 /\ (l + 4) + 2 = l + 6 /\ (l + 6) + 2 = l + 8
        /\ (l + 8) + 2 = l + 10 /\ (l + 10) + 4 + -10 = l + 4 /\ (l + 12) + 2 = l + 14
    OBVIOUS
  <2>2. /\ l + 4 \in 0 .. 204 /\ l + 12 \in 0 .. 204 /\ l + 6 \in 0 .. 204 /\ l + 8 \in 0 .. 204
        /\ l + 10 \in 0 .. 204 /\ l + 14 \in 0 .. 204
    OBVIOUS
  <2> QED BY <2>1, <2>2, SmallIs
<1> DEFINE Kept == CallBase' /\ mem' = mem /\ r'[SP] = r[SP] /\ r'[LR] = r[LR]
           Stays == Kept /\ r'[1] = r[1] /\ r'[2] = r[2] /\ r'[4] = r[4]
<1>5. ASSUME NEW pc, Goes(pc, r, mem) PROVE Stays /\ r'[PC] = pc
  <2>1. Untouched(mem)
    BY DEF CallBase
  <2> QED BY <1>5, <2>1, MovesNone DEF SP, LR
<1>6. ASSUME NEW pc, NEW d \in {1, 2, 4}, NEW value, Goes(pc, [r EXCEPT ![d] = value], mem)
      PROVE  /\ Kept /\ r'[PC] = pc /\ r'[d] = value
             /\ \A j \in {1, 2, 4} : j # d => r'[j] = r[j]
  <2> DEFINE regs == [r EXCEPT ![d] = value]
  <2>1. DOMAIN r = 0 .. 15
    BY <1>1, OutsideIs
  <2>2. regs[0] = x /\ (\A i \in 5 .. 12 : regs[i] = 17 * i) /\ Untouched(mem)
    BY <2>1 DEF CallBase
  <2>3. regs[d] = value /\ regs[SP] = r[SP] /\ regs[LR] = r[LR] /\ \A j \in {1, 2, 4} : j # d => regs[j] = r[j]
    BY <2>1 DEF SP, LR
  <2>4. SP \in 0 .. 14 /\ LR \in 0 .. 14 /\ \A j \in {1, 2, 4} : j \in 0 .. 14
    BY DEF SP, LR
  <2> HIDE DEF regs
  <2>5. CallBase' /\ r'[PC] = pc /\ (\A j \in 0 .. 14 : r'[j] = regs[j]) /\ mem' = mem
    BY <1>6, <2>2, Moves, Zenon DEF regs
  <2> QED BY <2>3, <2>4, <2>5
<1>0. 1 \in {1, 2, 4} /\ 2 \in {1, 2, 4} /\ 4 \in {1, 2, 4} /\ 1 # 4
  OBVIOUS
<1>7. CASE r[PC] = l /\ r[1] = y
  <2>1. Ins = Mov(4, 0)
    BY <1>7 DEF TurningCode, At
  <2>2. Goes(l + 4, [r EXCEPT ![4] = 0], mem)
    <3>1. 4 \in 0 .. 12 /\ 0 \in Word
      BY SmallIs
    <3>2. Goes(Low(r[PC] + 4), [r EXCEPT ![4] = 0], mem)
      BY <1>1, <2>1, <3>1, ConstantStep, Zenon
    <3> QED BY <1>4, <1>7, <3>2
  <2>3. Kept /\ r'[PC] = l + 4 /\ r'[4] = 0 /\ r'[1] = y
    BY <1>6, <1>7, <1>0, <2>2, Zenon
  <2>4. 0 = Low(x * (y - y)) /\ y \in 0 .. y
    <3>1. y - y = 0 /\ y \in 0 .. y
      BY <1>3
    <3> QED BY <1>1, <1>3, <3>1, OnceMore
  <2> QED BY <1>2, <2>3, <2>4 DEF Turning
<1>8. CASE r[PC] \in {l + 4, l + 10} /\ r[1] \in 0 .. y /\ r[4] = Low(x * (y - r[1]))
  <2>1. CASE r[PC] = l + 4
    <3>1. Ins = Of("CBZ", [rn |-> 1, imm |-> 4]) /\ r[PC] \in Int
      BY <2>1 DEF TurningCode, At
    <3>2. Goes(IF r[1] = 0 THEN l + 12 ELSE l + 6, r, mem)
      BY <1>1, <1>4, <2>1, <3>1, CompareZeroStep
    <3>3. Stays /\ r'[PC] = (IF r[1] = 0 THEN l + 12 ELSE l + 6)
      BY <1>5, <3>2
    <3>4. CASE r[1] = 0
      <4>1. y - r[1] = y
        BY <1>3, <3>4
      <4> QED BY <1>2, <1>8, <3>3, <3>4, <4>1 DEF Turning
    <3>5. CASE r[1] # 0
      <4>1. r[1] \in 1 .. y
        BY <1>3, <1>8, <3>5
      <4> QED BY <1>2, <1>8, <3>3, <3>5, <4>1 DEF Turning
    <3> QED BY <3>4, <3>5
  <2>2. CASE r[PC] = l + 10
    <3>1. Ins = Jump("B", -10) /\ r[PC] \in Int /\ -10 \in Int
      BY <2>2 DEF TurningCode, At
    <3>2. Goes(l + 4, r, mem)
      BY <1>1, <1>4, <2>2, <3>1, JumpStep
    <3>3. Stays /\ r'[PC] = l + 4
      BY <1>5, <3>2
    <3> QED BY <1>2, <1>8, <3>3 DEF Turning
  <2> QED BY <1>8, <2>1, <2>2
<1>9. CASE r[PC] = l + 6 /\ r[1] \in 1 .. y /\ r[4] = Low(x * (y - r[1]))
  <2>1. Ins = DNM("ADD_REG", 4, 4, 0)
    BY <1>9 DEF TurningCode, At
  <2>2. Goes(l + 8, [r EXCEPT ![4] = Low(r[4] + r[0])], mem)
    BY <1>1, <1>4, <1>9, <2>1, ArithmeticStep
  <2>3. Kept /\ r'[PC] = l + 8 /\ r'[4] = Low(r[4] + r[0]) /\ r'[1] = r[1]
    BY <1>6, <1>0, <2>2, Zenon
  <2>4. Low(r[4] + r[0]) = Low(x * (y - r[1] + 1))
    <3>1. y - r[1] \in Nat
      BY <1>3, <1>9
    <3> QED BY <1>1, <1>9, <3>1, OnceMore, ZenonT(30)
  <2> QED BY <1>2, <1>9, <2>3, <2>4 DEF Turning
<1>10. CASE r[PC] = l + 8 /\ r[1] \in 1 .. y /\ r[4] = Low(x * (y - r[1] + 1))
  <2>1. Ins = DI("SUB_IMM8", 1, 1)
    BY <1>10 DEF TurningCode, At
  <2>2. Goes(l + 10, [r EXCEPT ![1] = Low(r[1] - 1)], mem)
    <3>1. Goes(Low(r[PC] + 2), [r EXCEPT ![1] = Low(r[1] - 1)], mem)
      BY <1>1, <2>1, ArithmeticStep, Zenon
    <3> QED BY <1>4, <1>10, <3>1
  <2>3. Kept /\ r'[PC] = l + 10 /\ r'[1] = Low(r[1] - 1) /\ r'[4] = r[4]
    BY <1>6, <1>0, <2>2, ZenonT(30)
  <2>4. Low(r[1] - 1) = r[1] - 1 /\ r[1] - 1 \in 0 .. y /\ y - (r[1] - 1) = y - r[1] + 1
    <3>1. r[1] - 1 \in 0 .. Modulus - 1
      BY <1>3, <1>10, Sizes
    <3> QED BY <1>3, <1>10, <3>1, LowIs
  <2> QED BY <1>2, <1>10, <2>3, <2>4 DEF Turning
<1>11. CASE r[PC] = l + 12 /\ r[4] = Low(x * y)
  <2>1. Ins = Copy(2, 4)
    BY <1>11 DEF TurningCode, At
  <2>2. Goes(l + 14, [r EXCEPT ![2] = r[4]], mem)
    BY <1>1, <1>4, <1>11, <2>1, ArithmeticStep
  <2>3. Kept /\ r'[PC] = l + 14 /\ r'[2] = r[4]
    BY <1>6, <1>0, <2>2, Zenon
  <2> QED BY <1>2, <1>11, <2>3 DEF Turning
<1> QED BY <1>7, <1>8, <1>9, <1>10, <1>11 DEF Turning

-----------------------------------------------------------------------------
(* A call and its return, for code that ends at place e *)

Ends == {24, 26, 28, 40}

(* Before the call, behind it, and behind the return *)
Calling(e) ==
  /\ r[1] = y /\ r[4] = 68 /\ r[SP] = StackTop
  /\ \/ r[PC] = 0
     \/ r[PC] = e - 4 /\ e # 40
     \/ r[PC] = 34 /\ e = 40
     \/ r[PC] = 38 /\ e = 40 /\ r[3] = 3
Called(e)   == r[PC] = 2 /\ r[1] = y /\ r[4] = 68 /\ r[SP] = StackTop /\ r[LR] = e + 1
Restored    == r[2] = Low(x * y) /\ r[4] = 68 /\ r[SP] = StackTop
Returned(e) == r[PC] = e /\ Restored

CallerCode(e) ==
  /\ At(0, Jump("B", IF e = 40 THEN 30 ELSE e - 8))
  /\ e # 40 => At(e - 4, Jump("T32_BL", 2 - e))
  /\ e = 40 => At(34, Mov(3, 3)) /\ At(38, Of("BLX", [rm |-> 3]))

(* The arithmetic of the places of a caller. *)
LEMMA PlacesOf ==
  ASSUME NEW e \in Ends
  PROVE  /\ Low(0 + 4 + (e - 8)) = e - 4 /\ Low((e - 4) + 4 + (2 - e)) = 2
         /\ Low(Low((e - 4) + 4) + 1) = e + 1
         /\ Even(e + 1) = e /\ Even(3) = 2 /\ e + 1 \in Word /\ e - 8 \in Int /\ 2 - e \in Int
         /\ Low(0 + 4 + 30) = 34 /\ Low(34 + 4) = 38 /\ Low(Low(38 + 2) + 1) = 41
<1>1. e \in 0 .. 203 /\ e \in Int /\ (e + 1) % 2 = 1 /\ 3 % 2 = 1 /\ e - 8 >= 0
  BY DEF Ends
<1>2. /\ 0 + 4 + (e - 8) = e - 4 /\ (e - 4) + 4 + (2 - e) = 2 /\ (e - 4) + 4 = e
      /\ e - 4 \in 0 .. 204 /\ 2 \in 0 .. 204 /\ e \in 0 .. 204 /\ e + 1 \in 0 .. 204
  BY <1>1
<1>3. Low(e - 4) = e - 4 /\ Low(2) = 2 /\ Low(e) = e /\ Low(e + 1) = e + 1 /\ e + 1 \in Word
  BY <1>2, SmallIs
<1>4. Low(0 + 4 + 30) = 34 /\ Low(34 + 4) = 38 /\ Low(Low(38 + 2) + 1) = 41
  <2>1. 0 + 4 + 30 = 34 /\ 34 + 4 = 38 /\ 38 + 2 = 40 /\ 40 + 1 = 41
    OBVIOUS
  <2>2. 34 \in 0 .. 204 /\ 38 \in 0 .. 204 /\ 40 \in 0 .. 204 /\ 41 \in 0 .. 204
    OBVIOUS
  <2>3. Low(34) = 34 /\ Low(38) = 38 /\ Low(40) = 40 /\ Low(41) = 41
    BY <2>2, SmallIs, Zenon
  <2> QED BY <2>1, <2>3
<1>5. Even(e + 1) = e /\ Even(3) = 2
  BY <1>1 DEF Even
<1> QED BY <1>1, <1>2, <1>3, <1>4, <1>5

(* The caller branches to its call, and the call to the subroutine. *)
LEMMA CallingStep ==
  ASSUME Next, CallBase, NEW e \in Ends, CallerCode(e), Calling(e)
  PROVE  CallBase' /\ (Calling(e)' \/ Called(e)')
<1>1. Outside /\ y' = y /\ Untouched(mem) /\ DOMAIN r = 0 .. 15
  BY ProgramStays, OutsideIs DEF y, CallBase
<1>2. r[1] = y /\ r[4] = 68 /\ r[SP] = StackTop
  BY DEF Calling
<1>3. CASE r[PC] = 0
  <2>1. Goes(IF e = 40 THEN 34 ELSE e - 4, r, mem)
    <3>1. Ins = Jump("B", IF e = 40 THEN 30 ELSE e - 8)
      BY <1>3 DEF CallerCode, At
    <3>2. Goes(Low(0 + 4 + IF e = 40 THEN 30 ELSE e - 8), r, mem)
      BY <1>1, <1>3, <3>1, JumpStep, PlacesOf
    <3> QED BY <3>2, PlacesOf
  <2>2. CallBase' /\ r'[PC] = (IF e = 40 THEN 34 ELSE e - 4) /\ r'[1] = r[1] /\ r'[4] = r[4] /\ r'[SP] = r[SP]
    BY <1>1, <2>1, MovesNone DEF SP
  <2> QED BY <1>1, <1>2, <2>2 DEF Calling
<1>4. CASE r[PC] = e - 4 /\ e # 40
  <2>1. Goes(2, [r EXCEPT ![LR] = e + 1], mem)
    <3>1. Ins = Jump("T32_BL", 2 - e) /\ r[PC] \in Int
      BY <1>4 DEF CallerCode, At, Ends
    <3>2. Goes(Low(r[PC] + 4 + (2 - e)), [r EXCEPT ![LR] = Low(Low(r[PC] + 4) + 1)], mem)
      BY <1>1, <3>1, JumpStep, PlacesOf
    <3> QED BY <1>4, <3>2, PlacesOf
  <2>2. /\ CallBase' /\ r'[PC] = 2 /\ r'[LR] = e + 1
        /\ \A j \in {1, 2, 3, 4, 13, 14} : j # LR => r'[j] = r[j]
    <3>1. LR \in CallRegs
      BY DEF CallRegs, LR
    <3>2. OneMoves(2, LR, e + 1)
      BY <2>1, <3>1, MovesOne, Zenon
    <3> QED BY <3>2, Zenon DEF OneMoves, CallRegs
  <2> QED BY <1>1, <1>2, <2>2 DEF Called, SP, LR
<1>5. CASE r[PC] = 34 /\ e = 40
  <2>1. Goes(38, [r EXCEPT ![3] = 3], mem)
    <3>1. Ins = Mov(3, 3) /\ 3 \in 0 .. 12 /\ 3 \in Word
      BY <1>5, SmallIs DEF CallerCode, At
    <3>2. Goes(Low(r[PC] + 4), [r EXCEPT ![3] = 3], mem)
      BY <1>1, <3>1, ConstantStep, Zenon
    <3> QED BY <1>5, <3>2, PlacesOf
  <2>2. /\ CallBase' /\ r'[PC] = 38 /\ r'[3] = 3
        /\ \A j \in {1, 2, 3, 4, 13, 14} : j # 3 => r'[j] = r[j]
    <3>1. 3 \in CallRegs
      BY DEF CallRegs
    <3>2. OneMoves(38, 3, 3)
      BY <2>1, <3>1, MovesOne, Zenon
    <3> QED BY <3>2, Zenon DEF OneMoves, CallRegs
  <2> QED BY <1>1, <1>2, <1>5, <2>2 DEF Calling, SP
<1>6. CASE r[PC] = 38 /\ e = 40 /\ r[3] = 3
  <2>1. Goes(2, [r EXCEPT ![LR] = e + 1], mem)
    <3>1. Ins = Of("BLX", [rm |-> 3]) /\ r[PC] \in Int
      BY <1>6 DEF CallerCode, At
    <3>2. Goes(Even(r[3]), [r EXCEPT ![LR] = Low(Low(r[PC] + 2) + 1)], mem)
      BY <1>1, <3>1, JumpStep
    <3>3. Even(r[3]) = 2 /\ Low(Low(r[PC] + 2) + 1) = e + 1
      <4>1. Low(Low(38 + 2) + 1) = 41 /\ Even(3) = 2
        BY PlacesOf
      <4> QED BY <1>6, <4>1
    <3> QED BY <3>2, <3>3, Zenon
  <2>2. /\ CallBase' /\ r'[PC] = 2 /\ r'[LR] = e + 1
        /\ \A j \in {1, 2, 3, 4, 13, 14} : j # LR => r'[j] = r[j]
    <3>1. LR \in CallRegs
      BY DEF CallRegs, LR
    <3>2. OneMoves(2, LR, e + 1)
      BY <2>1, <3>1, MovesOne, Zenon
    <3> QED BY <3>2, Zenon DEF OneMoves, CallRegs
  <2> QED BY <1>1, <1>2, <2>2 DEF Called, SP, LR
<1> QED BY <1>3, <1>4, <1>5, <1>6 DEF Calling

(* BX LR of a subroutine that has restored all it saved. *)
LEMMA ReturnStep ==
  ASSUME Next, CallBase, NEW e \in Ends, Ins = Return, Restored, r[LR] = e + 1
  PROVE  CallBase' /\ Returned(e)'
<1>1. Outside /\ x' = x /\ y' = y /\ Untouched(mem)
  BY ProgramStays DEF x, y, CallBase
<1>2. Goes(e, r, mem)
  <2>1. Goes(Even(r[LR]), r, mem)
    <3>1. Ins.type = "BX" /\ Ins.rm = LR
      BY DEF Return, Of, LR
    <3>2. ExecuteBranch
      BY <1>1, <3>1, BranchesRun, StepIs, OutsideIs
    <3>3. Leave(r, Even(r[LR])) /\ UNCHANGED <<program, flags, monitor, mem, start>>
      BY <3>1, <3>2 DEF ExecuteBranch
    <3> QED BY <1>1, <3>3, EndsAre, OutsideIs
  <2> QED BY <2>1, PlacesOf
<1>3. CallBase' /\ r'[PC] = e /\ r'[2] = r[2] /\ r'[4] = r[4] /\ r'[SP] = r[SP]
  BY <1>1, <1>2, MovesNone DEF SP
<1> QED BY <1>1, <1>3 DEF Returned, Restored

(* What lies on the stack while the loop runs: R4, perhaps R5, and the return address. *)
Saved(five, e) ==
  /\ Reads(mem, StackTop - 12) = 68 /\ Reads(mem, StackTop - 4) = e + 1
  /\ five => Reads(mem, StackTop - 8) = 85
Inside(five, e) == r[SP] = StackTop - 12 /\ Saved(five, e)

(* A prologue that saves R4, R5 and LR at once. *)
LEMMA PushedStep ==
  ASSUME Next, CallBase, NEW e \in Ends, Called(e), NEW type \in {"PUSH", "T32_STMDB"}, Ins = Many(type, 13, {4, 5, 14})
  PROVE  CallBase' /\ Inside(TRUE, e)' /\ r'[1] = y' /\ r'[PC] = IF type = "PUSH" THEN 4 ELSE 6
<1> DEFINE T == StackTop
           list == {4, 5, 14}
           m == StoreAll(list, T - 12)
<1>1. Outside /\ y' = y /\ Untouched(mem) /\ DOMAIN r = 0 .. 15 /\ r[0] = x /\ \A i \in 5 .. 12 : r[i] = 17 * i
  BY ProgramStays, OutsideIs DEF y, CallBase
<1>2. r[1] = y /\ r[4] = 68 /\ r[SP] = T /\ r[LR] = e + 1 /\ r[PC] = 2 /\ r[5] = 85
  BY <1>1 DEF Called
<1>3. T \in 0 .. Modulus - 1 /\ T \in Int /\ \A a \in Ram : a \in Int
  BY StackIs, Sizes
<1>4. Cardinality(list) = 3 /\ Place(list, 4) = 0 /\ Place(list, 5) = 1 /\ Place(list, 14) = 2
  BY PlacesAre
<1>5. T - 12 .. (T - 12) + 4 * 3 - 1 \subseteq Ram
  <2>1. \A a \in T - 12 .. (T - 12) + 4 * 3 - 1 : T - a \in 1 .. 32 /\ T - (T - a) = a
    BY <1>3
  <2> QED BY <2>1, StackIs
<1>6. /\ \A i \in list : Holds(m, T - 12 + 4 * Place(list, i), r[i])
      /\ \A b \in Ram : b \notin T - 12 .. (T - 12) + 4 * 3 - 1 => m[b] = mem[b]
  <2>1. \A i \in list : Place(list, i) \in 0 .. 3 - 1
    BY <1>4
  <2>2. \A i, j \in list : Place(list, i) = Place(list, j) => i = j
    BY <1>4
  <2>3. T - 12 \in Int /\ 3 \in Nat
    BY <1>3
  <2> QED BY <1>5, <2>1, <2>2, <2>3, StoreAllHolds, Zenon
<1>7. Goes(IF type = "PUSH" THEN 4 ELSE 6, [r EXCEPT ![SP] = T - 12], m)
  <2>1. Low(r[SP] - 4 * Cardinality(list)) = T - 12
    <3>1. T - 4 * 3 = T - 12 /\ 12 \in 1 .. 32
      BY <1>3
    <3> QED BY <1>2, <1>4, <3>1, StackIs
  <2>2. Goes(Low(r[PC] + IF type = "PUSH" THEN 2 ELSE 4), [r EXCEPT ![SP] = T - 12], m)
    BY <1>1, <2>1, SaveStep, Zenon
  <2>3. Low(r[PC] + IF type = "PUSH" THEN 2 ELSE 4) = IF type = "PUSH" THEN 4 ELSE 6
    BY <1>2, SmallIs
  <2> QED BY <2>2, <2>3, Zenon
<1>8. Reads(m, T - 12) = 68 /\ Reads(m, T - 8) = 85 /\ Reads(m, T - 4) = e + 1
  <2>1. 4 \in list /\ 5 \in list /\ 14 \in list
    OBVIOUS
  <2>2. /\ Holds(m, T - 12 + 4 * 0, 68) /\ Holds(m, T - 12 + 4 * 1, 85) /\ Holds(m, T - 12 + 4 * 2, e + 1)
    BY <1>2, <1>4, <1>6, <2>1, Zenon DEF LR
  <2>3. T - 12 + 4 * 0 = T - 12 /\ T - 12 + 4 * 1 = T - 8 /\ T - 12 + 4 * 2 = T - 4
    BY <1>3
  <2> QED BY <2>2, <2>3, HoldsReads, SmallIs, PlacesOf
<1>9. Untouched(m)
  <2> SUFFICES ASSUME NEW a \in Ram, a < T - 32 PROVE m[a] = InitialMem[a]
    BY Zenon DEF Untouched
  <2>1. a \notin T - 12 .. (T - 12) + 4 * 3 - 1
    BY <1>3
  <2> QED BY <1>1, <1>6, <2>1, Zenon DEF Untouched
<1> HIDE DEF m, T
<1> DEFINE regs == [r EXCEPT ![SP] = T - 12]
<1>10. regs[0] = x /\ (\A i \in 5 .. 12 : regs[i] = 17 * i) /\ regs[1] = y /\ regs[SP] = T - 12 /\ 1 \in 0 .. 14 /\ SP \in 0 .. 14
  BY <1>1, <1>2 DEF SP
<1> HIDE DEF regs
<1>11. /\ CallBase' /\ r'[PC] = (IF type = "PUSH" THEN 4 ELSE 6) /\ (\A j \in 0 .. 14 : r'[j] = regs[j]) /\ mem' = m
  BY <1>7, <1>9, <1>10, Moves, Zenon DEF regs
<1> QED BY <1>1, <1>8, <1>10, <1>11 DEF Inside, Saved, T

(* From the place behind the loop *)
Multiplied(five, e) == r[2] = Low(x * y) /\ Inside(five, e)

(* An epilogue that restores R4, R5 and LR, or PC in its stead. *)
LEMMA PoppedStep ==
  ASSUME Next, CallBase, NEW e \in Ends, Multiplied(TRUE, e), NEW type \in {"POP", "T32_LDMIA", "T32_LDMDB"},
         NEW k \in {14, 15}, Ins = Many(type, 13, {4, 5, k}), type = "T32_LDMDB" => k = 15
  PROVE  /\ CallBase' /\ Restored'
         /\ IF k = 15 THEN r'[PC] = e ELSE r'[LR] = e + 1 /\ r'[PC] = Low(r[PC] + IF type = "POP" THEN 2 ELSE 4)
<1> DEFINE T == StackTop
           list == {4, 5, k}
           regs == Restoring(list)
<1>1. /\ Outside /\ x' = x /\ y' = y /\ Untouched(mem) /\ DOMAIN r = 0 .. 15
      /\ r[0] = x /\ \A i \in 5 .. 12 : r[i] = 17 * i
  BY ProgramStays, OutsideIs DEF x, y, CallBase
<1>2. r[2] = Low(x * y) /\ r[SP] = T - 12 /\ Reads(mem, T - 12) = 68 /\ Reads(mem, T - 8) = 85 /\ Reads(mem, T - 4) = e + 1
  BY DEF Multiplied, Inside, Saved
<1>3. T \in 0 .. Modulus - 1 /\ T \in Int
  BY StackIs, Sizes
<1>4. Cardinality(list) = 3 /\ Place(list, 4) = 0 /\ Place(list, 5) = 1 /\ Place(list, k) = 2
  BY PlacesAre, Zenon
<1>5. T - 12 + 4 * 0 = T - 12 /\ T - 12 + 4 * 1 = T - 8 /\ T - 12 + 4 * 2 = T - 4 /\ T - 12 + 4 * 3 = T
  BY <1>3
<1>6. /\ DOMAIN regs = 0 .. 15 /\ regs[SP] = T
      /\ \A i \in list : regs[i] = Reads(mem, T - 12 + 4 * Place(list, i))
      /\ \A i \in 0 .. 15 : i \notin list /\ i # SP => regs[i] = r[i]
  <2>1. list \in SUBSET (0 .. 15 \ {SP})
    BY DEF SP
  <2>2. InRam(T - 12) /\ InRam(T - 8) /\ InRam(T - 4)
    BY StackIs
  <2>3. \A i \in list : Place(list, i) \in Int /\ InRam(T - 12 + 4 * Place(list, i))
    <3>1. /\ InRam(T - 12 + 4 * 0) /\ InRam(T - 12 + 4 * 1) /\ InRam(T - 12 + 4 * 2)
      BY <1>5, <2>2, Zenon
    <3>2. \A p \in 0 .. 2 : p \in Int /\ InRam(T - 12 + 4 * p)
      <4> HIDE DEF T
      <4>1. \A p \in 0 .. 2 : p \in Int /\ (p = 0 \/ p = 1 \/ p = 2)
        OBVIOUS
      <4> QED BY <3>1, <4>1, Zenon
    <3>3. \A i \in list : Place(list, i) \in 0 .. 2
      BY <1>4
    <3> QED BY <3>2, <3>3, Zenon
  <2>4. T - 12 \in Int /\ 3 \in Nat /\ T - 12 + 4 * 3 \in 0 .. Modulus - 1
    BY <1>3
  <2>5. PICK s \in Int, n \in Nat : s = T - 12 /\ n = 3
    BY <2>4
  <2>6. r[SP] = s /\ Cardinality(list) = n /\ s + 4 * n \in 0 .. Modulus - 1
    BY <1>2, <1>4, <2>4, <2>5
  <2>7. \A i \in list : Place(list, i) \in Int /\ InRam(s + 4 * Place(list, i))
    BY <2>3, <2>5, Zenon
  <2> HIDE DEF regs, list, T
  <2>8. /\ DOMAIN Restoring(list) = 0 .. 15 /\ Restoring(list)[SP] = s + 4 * n
        /\ \A i \in list : Restoring(list)[i] = Reads(mem, s + 4 * Place(list, i))
        /\ \A i \in 0 .. 15 : i \notin list /\ i # SP => Restoring(list)[i] = r[i]
    BY <1>1, <2>1, <2>6, <2>7, RestoredIs
  <2> QED BY <1>5, <2>5, <2>8, Zenon DEF regs
<1>7. IF k = 15 THEN Goes(Even(regs[PC]), regs, mem) ELSE Goes(Low(r[PC] + IF type = "POP" THEN 2 ELSE 4), regs, mem)
  <2>1. PC \in list <=> k = 15
    BY DEF PC
  <2> HIDE DEF regs, list
  <2>2. type = "T32_LDMDB" => PC \in list
    BY <2>1
  <2>3. Ins = Many(type, 13, list)
    BY Zenon DEF list
  <2> QED BY <1>1, <2>1, <2>2, <2>3, RestoreStep, Zenon DEF regs
<1> HIDE DEF regs
<1>8. regs[4] = 68 /\ regs[5] = 85 /\ regs[k] = e + 1 /\ regs[2] = r[2] /\ regs[0] = r[0] /\ \A i \in 6 .. 12 : regs[i] = r[i]
  <2>1. 4 \in list /\ 5 \in list /\ k \in list
    OBVIOUS
  <2>2. regs[4] = Reads(mem, T - 12 + 4 * 0) /\ regs[5] = Reads(mem, T - 12 + 4 * 1) /\ regs[k] = Reads(mem, T - 12 + 4 * 2)
    BY <1>4, <1>6, <2>1, Zenon
  <2>3. \A i \in {0, 2} \cup 6 .. 12 : i \in 0 .. 15 /\ i \notin list /\ i # SP
    BY DEF SP
  <2>4. \A i \in {0, 2} \cup 6 .. 12 : regs[i] = r[i]
    BY <1>6, <2>3, Zenon
  <2> QED BY <1>2, <1>5, <2>2, <2>4
<1> HIDE DEF T
<1>9. regs[0] = x /\ \A i \in 5 .. 12 : regs[i] = 17 * i
  BY <1>1, <1>8
<1>10. \A pc : Goes(pc, regs, mem) =>
         CallBase' /\ r'[PC] = pc /\ (\A j \in 0 .. 14 : r'[j] = regs[j]) /\ mem' = mem
  BY <1>1, <1>9, Moves, Zenon
<1>11. \A pc : Goes(pc, regs, mem) => CallBase' /\ Restored' /\ r'[PC] = pc /\ (k = 14 => r'[LR] = e + 1)
  <2>1. 2 \in 0 .. 14 /\ 4 \in 0 .. 14 /\ SP \in 0 .. 14 /\ LR \in 0 .. 14 /\ LR = 14
    BY DEF SP, LR
  <2> QED BY <1>1, <1>2, <1>6, <1>8, <1>10, <2>1 DEF Restored, T
<1>12. CASE k = 15
  <2>1. Goes(Even(e + 1), regs, mem)
    BY <1>7, <1>8, <1>12 DEF PC
  <2> QED BY <1>11, <1>12, <2>1, PlacesOf
<1>13. CASE k = 14
  BY <1>7, <1>11, <1>13
<1> QED BY <1>12, <1>13

(* The return address is left on the stack, for a load into PC. *)
Popped(e) == r[2] = Low(x * y) /\ r[4] = 68 /\ r[SP] = StackTop - 4 /\ Reads(mem, StackTop - 4) = e + 1

(* An epilogue that restores R4 and R5 alone. *)
LEMMA HalfPoppedStep ==
  ASSUME Next, CallBase, NEW e \in Ends, Multiplied(TRUE, e), Ins = Many("POP", 13, {4, 5})
  PROVE  CallBase' /\ Popped(e)' /\ r'[PC] = Low(r[PC] + 2)
<1> DEFINE T == StackTop
           list == {4, 5}
           regs == Restoring(list)
<1>1. /\ Outside /\ x' = x /\ y' = y /\ Untouched(mem) /\ DOMAIN r = 0 .. 15
      /\ r[0] = x /\ \A i \in 5 .. 12 : r[i] = 17 * i
  BY ProgramStays, OutsideIs DEF x, y, CallBase
<1>2. r[2] = Low(x * y) /\ r[SP] = T - 12 /\ Reads(mem, T - 12) = 68 /\ Reads(mem, T - 8) = 85 /\ Reads(mem, T - 4) = e + 1
  BY DEF Multiplied, Inside, Saved
<1>3. T \in 0 .. Modulus - 1 /\ T \in Int
  BY StackIs, Sizes
<1>4. Cardinality(list) = 2 /\ Place(list, 4) = 0 /\ Place(list, 5) = 1
  BY PlacesAre, Zenon
<1>5. T - 12 + 4 * 0 = T - 12 /\ T - 12 + 4 * 1 = T - 8 /\ T - 12 + 4 * 2 = T - 4
  BY <1>3
<1>6. /\ DOMAIN regs = 0 .. 15 /\ regs[SP] = T - 4
      /\ \A i \in list : regs[i] = Reads(mem, T - 12 + 4 * Place(list, i))
      /\ \A i \in 0 .. 15 : i \notin list /\ i # SP => regs[i] = r[i]
  <2>1. list \in SUBSET (0 .. 15 \ {SP})
    BY DEF SP
  <2>2. InRam(T - 12) /\ InRam(T - 8)
    BY StackIs
  <2>3. \A i \in list : Place(list, i) \in Int /\ InRam(T - 12 + 4 * Place(list, i))
    <3>1. InRam(T - 12 + 4 * 0) /\ InRam(T - 12 + 4 * 1)
      BY <1>5, <2>2, Zenon
    <3>2. 0 \in Int /\ 1 \in Int /\ \A i \in list : i = 4 \/ i = 5
      OBVIOUS
    <3> HIDE DEF T, list
    <3> QED BY <1>4, <3>1, <3>2, Zenon
  <2>4. T - 12 \in Int /\ 2 \in Nat /\ T - 12 + 4 * 2 \in 0 .. Modulus - 1
    <3>1. 4 \in 1 .. 32
      OBVIOUS
    <3> QED BY <1>3, <1>5, <3>1, StackIs
  <2>5. PICK s \in Int, n \in Nat : s = T - 12 /\ n = 2
    BY <2>4
  <2>6. r[SP] = s /\ Cardinality(list) = n /\ s + 4 * n \in 0 .. Modulus - 1
    BY <1>2, <1>4, <2>4, <2>5
  <2>7. \A i \in list : Place(list, i) \in Int /\ InRam(s + 4 * Place(list, i))
    BY <2>3, <2>5, Zenon
  <2> HIDE DEF regs, list, T
  <2>8. /\ DOMAIN Restoring(list) = 0 .. 15 /\ Restoring(list)[SP] = s + 4 * n
        /\ \A i \in list : Restoring(list)[i] = Reads(mem, s + 4 * Place(list, i))
        /\ \A i \in 0 .. 15 : i \notin list /\ i # SP => Restoring(list)[i] = r[i]
    BY <1>1, <2>1, <2>6, <2>7, RestoredIs
  <2> QED BY <1>5, <2>5, <2>8, Zenon DEF regs
<1>7. Goes(Low(r[PC] + 2), regs, mem)
  <2>1. PC \notin list /\ "POP" \in {"POP", "T32_LDMIA", "T32_LDMDB"} /\ "POP" # "T32_LDMDB"
    BY DEF PC
  <2> HIDE DEF regs, list
  <2>2. Ins = Many("POP", 13, list)
    BY Zenon DEF list
  <2>3. Goes(Low(r[PC] + IF "POP" = "POP" THEN 2 ELSE 4), Restoring(list), mem)
    BY <1>1, <2>1, <2>2, RestoreStep, Zenon
  <2> QED BY <2>3, Zenon DEF regs
<1> HIDE DEF regs
<1>8. regs[4] = 68 /\ regs[5] = 85 /\ regs[2] = r[2] /\ regs[0] = r[0] /\ \A i \in 6 .. 12 : regs[i] = r[i]
  <2>1. 4 \in list /\ 5 \in list
    OBVIOUS
  <2>2. regs[4] = Reads(mem, T - 12 + 4 * 0) /\ regs[5] = Reads(mem, T - 12 + 4 * 1)
    BY <1>4, <1>6, <2>1, Zenon
  <2>3. \A i \in {0, 2} \cup 6 .. 12 : i \in 0 .. 15 /\ i \notin list /\ i # SP
    BY DEF SP
  <2>4. \A i \in {0, 2} \cup 6 .. 12 : regs[i] = r[i]
    BY <1>6, <2>3, Zenon
  <2> QED BY <1>2, <1>5, <2>2, <2>4
<1> HIDE DEF T
<1>9. regs[0] = x /\ \A i \in 5 .. 12 : regs[i] = 17 * i
  BY <1>1, <1>8
<1>10. CallBase' /\ r'[PC] = Low(r[PC] + 2) /\ (\A j \in 0 .. 14 : r'[j] = regs[j]) /\ mem' = mem
  BY <1>1, <1>7, <1>9, Moves, Zenon
<1>11. 2 \in 0 .. 14 /\ 4 \in 0 .. 14 /\ SP \in 0 .. 14
  BY DEF SP
<1> QED BY <1>1, <1>2, <1>6, <1>8, <1>10, <1>11 DEF Popped, T

(* The load into PC behind it returns. *)
LEMMA LoadedPcStep ==
  ASSUME Next, CallBase, NEW e \in Ends, Popped(e), Ins = Post("T32_LDR_PRE_POST", 15, 13, 4)
  PROVE  CallBase' /\ Returned(e)'
<1> DEFINE T == StackTop
<1>1. Outside /\ x' = x /\ y' = y
  BY ProgramStays DEF x, y, CallBase
<1>2. r[2] = Low(x * y) /\ r[4] = 68 /\ r[SP] = T - 4 /\ Reads(mem, T - 4) = e + 1
  BY DEF Popped
<1>3. Even(Load(r[SP], 4)) = e
  <2>1. InRam(T - 4) /\ T - 4 \in Int
    BY StackIs, Sizes
  <2>2. Load(T - 4, 4) = Reads(mem, T - 4)
    BY <2>1, LoadReads
  <2> QED BY <1>2, <2>2, PlacesOf
<1>4. Low(r[SP] + 4) = T
  <2>1. (T - 4) + 4 = T
    BY StackIs, Sizes
  <2> QED BY <1>2, <2>1, StackIs
<1>5. Goes(e, [r EXCEPT ![SP] = T], mem)
  BY <1>1, <1>3, <1>4, LoadPcStep
<1>6. /\ CallBase' /\ r'[PC] = e /\ r'[SP] = T
      /\ \A j \in {1, 2, 3, 4, 13, 14} : j # SP => r'[j] = r[j]
  <2>1. SP \in CallRegs
    BY DEF CallRegs, SP
  <2>2. OneMoves(e, SP, T)
    BY <1>5, <2>1, MovesOne, Zenon
  <2> QED BY <2>2, Zenon DEF OneMoves, CallRegs
<1> QED BY <1>1, <1>2, <1>6 DEF Returned, Restored, SP

(* A store leaves what is read beside it. *)
LEMMA StoreLeaves ==
  ASSUME NEW m, NEW a \in Int, InRam(a), NEW b \in Int, InRam(b), a + 3 < b \/ b + 3 < a, NEW v
  PROVE  Reads(Store(m, a, v, 4), b) = Reads(m, b)
<1>1. \A i \in 0 .. 3 : b + i \in Ram /\ b + i \notin a .. a + 3
  <2>1. \A i \in 0 .. 3 : b + i \in Ram
    BY InRamIs
  <2> QED BY <2>1
<1>2. b \in Ram /\ b \notin a .. a + 3
  <2>1. b + 0 = b /\ 0 \in 0 .. 3
    OBVIOUS
  <2> QED BY <1>1, <2>1
<1> DEFINE S == Store(m, a, v, 4)
<1>3. \A c \in Ram : c \notin a .. a + 3 => S[c] = m[c]
  BY StoreHolds
<1> HIDE DEF S
<1>4. S[b] = m[b] /\ S[b + 1] = m[b + 1] /\ S[b + 2] = m[b + 2] /\ S[b + 3] = m[b + 3]
  <2>1. 1 \in 0 .. 3 /\ 2 \in 0 .. 3 /\ 3 \in 0 .. 3
    OBVIOUS
  <2> QED BY <1>1, <1>2, <1>3, <2>1, Zenon
<1> QED BY <1>4, Zenon DEF Reads, S

(* The words below the top of the stack are part of it. *)
LEMMA StoreUntouched ==
  ASSUME Untouched(mem), NEW k \in {4, 12}, NEW v
  PROVE  Untouched(Store(mem, StackTop - k, v, 4))
<1>1. StackTop - k \in Int /\ InRam(StackTop - k) /\ StackTop \in Int /\ \A a \in Ram : a \in Int
  <2>1. k \in 4 .. 32 /\ k \in 1 .. 32
    OBVIOUS
  <2>2. StackTop \in Int /\ \A a \in Ram : a \in Int
    BY StackIs, Sizes
  <2>3. InRam(StackTop - k)
    BY <2>1, StackIs, Zenon
  <2> QED BY <2>1, <2>2, <2>3
<1> SUFFICES ASSUME NEW a \in Ram, a < StackTop - 32 PROVE Store(mem, StackTop - k, v, 4)[a] = InitialMem[a]
  BY Zenon DEF Untouched
<1>2. a \notin StackTop - k .. (StackTop - k) + 3
  BY <1>1
<1>3. Store(mem, StackTop - k, v, 4)[a] = mem[a]
  BY <1>1, <1>2, StoreHolds
<1> QED BY <1>3, Zenon DEF Untouched

(* The frame that SUB and single stores build: 40 is the end of its code. *)
FrameStage ==
  \/ Called(40)
  \/ /\ r[1] = y /\ r[SP] = StackTop - 12 /\ r[LR] = 41
     /\ \/ r[PC] = 4 /\ r[4] = 68
        \/ r[PC] = 6 /\ Reads(mem, StackTop - 12) = 68
  \/ r[PC] = 24 /\ Multiplied(FALSE, 40)
  \/ /\ r[2] = Low(x * y) /\ r[4] = 68 /\ r[SP] = StackTop - 12
     /\ \/ r[PC] = 26 /\ Reads(mem, StackTop - 4) = 41
        \/ r[PC] = 30 /\ r[LR] = 41
  \/ r[PC] = 32 /\ Restored /\ r[LR] = 41

FrameCode ==
  /\ At(2, DI("SUB_SP_IMM7", 13, 12))
  /\ At(4, DNI("STR_SP", 4, 13, 0))
  /\ At(6, DNI("T32_STR_IMM", 14, 13, 8))
  /\ At(24, DNI("LDR_SP", 4, 13, 0))
  /\ At(26, DNI("T32_LDR_IMM", 14, 13, 8))
  /\ At(30, DI("ADD_SP_IMM7", 13, 12))
  /\ At(32, Return)

(* The prologue and epilogue of single transfers, step by step. *)
LEMMA FrameStageStep ==
  ASSUME Next, CallBase, FrameCode, FrameStage
  PROVE  /\ CallBase'
         /\ \/ FrameStage'
            \/ r'[PC] = 10 /\ r'[1] = y' /\ Inside(FALSE, 40)'
            \/ Returned(40)'
<1> DEFINE T == StackTop
<1>1. /\ Outside /\ x' = x /\ y' = y /\ Untouched(mem)
  BY ProgramStays DEF x, y, CallBase
<1>2. /\ T \in Int /\ T - 12 \in Int /\ T - 4 \in Int /\ InRam(T - 12) /\ InRam(T - 4)
      /\ Low(T - 12) = T - 12 /\ Low((T - 12) + 0) = T - 12 /\ Low((T - 12) + 8) = T - 4 /\ Low((T - 12) + 12) = T
  <2>1. T \in Int
    BY StackIs, Sizes
  <2>2. (T - 12) + 0 = T - 12 /\ (T - 12) + 8 = T - 4 /\ (T - 12) + 12 = T
    BY <2>1
  <2> QED BY <2>1, <2>2, StackIs
<1>3. /\ Low(2 + 2) = 4 /\ Low(4 + 2) = 6 /\ Low(6 + 4) = 10
      /\ Low(24 + 2) = 26 /\ Low(26 + 4) = 30 /\ Low(30 + 2) = 32
  <2>1. 2 + 2 = 4 /\ 4 + 2 = 6 /\ 6 + 4 = 10 /\ 24 + 2 = 26 /\ 26 + 4 = 30 /\ 30 + 2 = 32
    OBVIOUS
  <2>2. 4 \in 0 .. 204 /\ 6 \in 0 .. 204 /\ 10 \in 0 .. 204 /\ 26 \in 0 .. 204 /\ 30 \in 0 .. 204 /\ 32 \in 0 .. 204
    OBVIOUS
  <2> QED BY <2>1, <2>2, SmallIs, ZenonT(30)
<1>4. 40 \in Ends /\ SP = 13 /\ LR = 14 /\ PC = 15
  BY DEF Ends, SP, LR, PC
<1> HIDE DEF T
<1>5. CASE Called(40)
  <2>1. r[PC] = 2 /\ r[1] = y /\ r[4] = 68 /\ r[SP] = T /\ r[LR] = 41
    BY <1>5 DEF Called, T
  <2>2. Goes(4, [r EXCEPT ![SP] = T - 12], mem)
    <3>1. Goes(Low(r[PC] + 2), [r EXCEPT ![SP] = Low(r[SP] - 12)], mem)
      BY <1>1, <2>1, ArithmeticStep DEF FrameCode, At
    <3> QED BY <1>2, <1>3, <2>1, <3>1
  <2>3. /\ CallBase' /\ r'[PC] = 4 /\ r'[SP] = T - 12
        /\ \A j \in {1, 2, 3, 4, 13, 14} : j # SP => r'[j] = r[j]
    <3>1. SP \in CallRegs
      BY DEF CallRegs, SP
    <3>2. OneMoves(4, SP, T - 12)
      BY <2>2, <3>1, MovesOne, Zenon
    <3> QED BY <3>2, Zenon DEF OneMoves, CallRegs
  <2> QED BY <1>1, <1>4, <2>1, <2>3 DEF FrameStage, T
<1>6. CASE r[1] = y /\ r[SP] = T - 12 /\ r[LR] = 41 /\ r[PC] = 4 /\ r[4] = 68
  <2> DEFINE m == Store(mem, T - 12, 68, 4)
  <2>1. Goes(6, r, m)
    <3>1. PICK wide \in BOOLEAN, loads \in BOOLEAN, d \in 0 .. 14, i \in Int : ~wide /\ ~loads /\ d = 4 /\ i = 0
      BY 4 \in 0 .. 14, 0 \in Int, Zenon
    <3>2. Ins = DNI(IF wide THEN IF loads THEN "T32_LDR_IMM" ELSE "T32_STR_IMM"
                           ELSE IF loads THEN "LDR_SP" ELSE "STR_SP", d, 13, i)
      BY <1>6, <3>1 DEF FrameCode, At
    <3>3. Goes(Low(r[PC] + 2), r, Store(mem, Low(r[SP] + i), r[d], 4))
      BY <1>1, <3>1, <3>2, FrameStep, Zenon
    <3> QED BY <1>2, <1>3, <1>6, <3>1, <3>3
  <2>2. Untouched(m)
    BY <1>1, StoreUntouched DEF T
  <2>3. Reads(m, T - 12) = 68
    <3>1. Holds(m, T - 12, 68)
      BY <1>2, StoreHolds
    <3> HIDE DEF m
    <3> QED BY <3>1, HoldsReads, SmallIs
  <2> HIDE DEF m
  <2>4. CallBase' /\ r'[PC] = 6 /\ mem' = m /\ \A j \in {1, 2, 3, 4, 13, 14} : r'[j] = r[j]
    BY <2>1, <2>2, MovesNone
  <2> QED BY <1>1, <1>4, <1>6, <2>3, <2>4 DEF FrameStage, T
<1>7. CASE r[1] = y /\ r[SP] = T - 12 /\ r[LR] = 41 /\ r[PC] = 6 /\ Reads(mem, T - 12) = 68
  <2> DEFINE m == Store(mem, T - 4, 41, 4)
  <2>1. Goes(10, r, m)
    <3>1. PICK wide \in BOOLEAN, loads \in BOOLEAN, d \in 0 .. 14, i \in Int : wide /\ ~loads /\ d = 14 /\ i = 8
      BY 14 \in 0 .. 14, 8 \in Int, Zenon
    <3>2. Ins = DNI(IF wide THEN IF loads THEN "T32_LDR_IMM" ELSE "T32_STR_IMM"
                           ELSE IF loads THEN "LDR_SP" ELSE "STR_SP", d, 13, i)
      BY <1>7, <3>1 DEF FrameCode, At
    <3>3. Goes(Low(r[PC] + 4), r, Store(mem, Low(r[SP] + i), r[d], 4))
      BY <1>1, <3>1, <3>2, FrameStep, Zenon
    <3> QED BY <1>2, <1>3, <1>4, <1>7, <3>1, <3>3
  <2>2. Untouched(m)
    BY <1>1, StoreUntouched DEF T
  <2>3. Reads(m, T - 4) = 41 /\ Reads(m, T - 12) = 68
    <3>1. 41 \in Word
      BY SmallIs
    <3>2. Reads(m, T - 4) = 41
      <4>1. Holds(m, T - 4, 41)
        BY <1>2, StoreHolds
      <4> HIDE DEF m
      <4> QED BY <3>1, <4>1, HoldsReads
    <3>3. (T - 12) + 3 < T - 4
      BY <1>2
    <3>4. Reads(m, T - 12) = Reads(mem, T - 12)
      BY <1>2, <3>3, StoreLeaves
    <3> QED BY <1>7, <3>2, <3>4
  <2> HIDE DEF m
  <2>4. CallBase' /\ r'[PC] = 10 /\ mem' = m /\ \A j \in {1, 2, 3, 4, 13, 14} : r'[j] = r[j]
    BY <2>1, <2>2, MovesNone
  <2> QED BY <1>1, <1>4, <1>7, <2>3, <2>4 DEF Inside, Saved, T
<1>8. CASE r[PC] = 24 /\ Multiplied(FALSE, 40)
  <2>1. r[2] = Low(x * y) /\ r[SP] = T - 12 /\ Reads(mem, T - 12) = 68 /\ Reads(mem, T - 4) = 41
    BY <1>8 DEF Multiplied, Inside, Saved, T
  <2>2. Goes(26, [r EXCEPT ![4] = 68], mem)
    <3>1. PICK wide \in BOOLEAN, loads \in BOOLEAN, d \in 0 .. 14, i \in Int : ~wide /\ loads /\ d = 4 /\ i = 0
      BY 4 \in 0 .. 14, 0 \in Int, Zenon
    <3>2. Ins = DNI(IF wide THEN IF loads THEN "T32_LDR_IMM" ELSE "T32_STR_IMM"
                           ELSE IF loads THEN "LDR_SP" ELSE "STR_SP", d, 13, i)
      BY <1>8, <3>1 DEF FrameCode, At
    <3>3. Goes(Low(r[PC] + 2), [r EXCEPT ![d] = Load(Low(r[SP] + i), 4)], mem)
      BY <1>1, <3>1, <3>2, FrameStep, Zenon
    <3>4. Load(T - 12, 4) = 68
      BY <1>2, <2>1, LoadReads
    <3> QED BY <1>2, <1>3, <1>8, <2>1, <3>1, <3>3, <3>4
  <2>3. /\ CallBase' /\ r'[PC] = 26 /\ r'[4] = 68 /\ mem' = mem
        /\ \A j \in {1, 2, 3, 4, 13, 14} : j # 4 => r'[j] = r[j]
    <3>1. 4 \in CallRegs
      BY DEF CallRegs
    <3>2. OneMoves(26, 4, 68)
      BY <2>2, <3>1, MovesOne, Zenon
    <3> QED BY <3>2, Zenon DEF OneMoves, CallRegs
  <2> QED BY <1>1, <1>4, <2>1, <2>3 DEF FrameStage, T
<1>9. CASE r[2] = Low(x * y) /\ r[4] = 68 /\ r[SP] = T - 12 /\ r[PC] = 26 /\ Reads(mem, T - 4) = 41
  <2>2. Goes(30, [r EXCEPT ![LR] = 41], mem)
    <3>1. PICK wide \in BOOLEAN, loads \in BOOLEAN, d \in 0 .. 14, i \in Int : wide /\ loads /\ d = 14 /\ i = 8
      BY 14 \in 0 .. 14, 8 \in Int, Zenon
    <3>2. Ins = DNI(IF wide THEN IF loads THEN "T32_LDR_IMM" ELSE "T32_STR_IMM"
                           ELSE IF loads THEN "LDR_SP" ELSE "STR_SP", d, 13, i)
      BY <1>9, <3>1 DEF FrameCode, At
    <3>3. Goes(Low(r[PC] + 4), [r EXCEPT ![d] = Load(Low(r[SP] + i), 4)], mem)
      BY <1>1, <3>1, <3>2, FrameStep, Zenon
    <3>4. Load(T - 4, 4) = 41
      BY <1>2, <1>9, LoadReads
    <3> QED BY <1>2, <1>3, <1>4, <1>9, <3>1, <3>3, <3>4
  <2>3. /\ CallBase' /\ r'[PC] = 30 /\ r'[LR] = 41
        /\ \A j \in {1, 2, 3, 4, 13, 14} : j # LR => r'[j] = r[j]
    <3>1. LR \in CallRegs
      BY DEF CallRegs, LR
    <3>2. OneMoves(30, LR, 41)
      BY <2>2, <3>1, MovesOne, Zenon
    <3> QED BY <3>2, Zenon DEF OneMoves, CallRegs
  <2> QED BY <1>1, <1>4, <1>9, <2>3 DEF FrameStage, T
<1>10. CASE r[2] = Low(x * y) /\ r[4] = 68 /\ r[SP] = T - 12 /\ r[PC] = 30 /\ r[LR] = 41
  <2>2. Goes(32, [r EXCEPT ![SP] = T], mem)
    <3>1. Goes(Low(r[PC] + 2), [r EXCEPT ![SP] = Low(r[SP] + 12)], mem)
      BY <1>1, <1>10, ArithmeticStep DEF FrameCode, At
    <3> QED BY <1>2, <1>3, <1>10, <3>1
  <2>3. /\ CallBase' /\ r'[PC] = 32 /\ r'[SP] = T
        /\ \A j \in {1, 2, 3, 4, 13, 14} : j # SP => r'[j] = r[j]
    <3>1. SP \in CallRegs
      BY DEF CallRegs, SP
    <3>2. OneMoves(32, SP, T)
      BY <2>2, <3>1, MovesOne, Zenon
    <3> QED BY <3>2, Zenon DEF OneMoves, CallRegs
  <2> QED BY <1>1, <1>4, <1>10, <2>3 DEF FrameStage, Restored, T
<1>11. CASE r[PC] = 32 /\ Restored /\ r[LR] = 41
  <2>1. Ins = Return /\ r[LR] = 40 + 1
    BY <1>11 DEF FrameCode, At
  <2> QED BY <1>4, <1>11, <2>1, ReturnStep
<1> QED BY <1>5, <1>6, <1>7, <1>8, <1>9, <1>10, <1>11 DEF FrameStage, T

(* The recursion: d calls deep, d frames of R4 and a return address lie on the stack. *)
Back(d) == IF d = 0 THEN 27 ELSE 19
Frames(m, d) ==
  \A k \in 1 .. d : Reads(m, StackTop - 8 * k) = 68 /\ Reads(m, StackTop - 8 * k + 4) = Back(k - 1)
Deep(d) == r[4] = 68 /\ r[SP] = StackTop - 8 * d /\ Frames(mem, d)

RecursiveStage ==
  \E d \in 0 .. y :
    /\ Deep(d)
    /\ \/ r[LR] = Back(d) /\ \/ r[PC] = 2 /\ r[1] = y - d
                             \/ r[PC] = 4 /\ d = y
                             \/ r[PC] = 8 /\ d = y /\ r[2] = 0
                             \/ r[PC] = 10 /\ d < y /\ r[1] = y - d
       \/ d > 0 /\ \/ r[PC] = 12 /\ r[1] = y - d + 1
                   \/ r[PC] = 14 /\ r[1] = y - d
                   \/ r[PC] = 18 /\ r[2] = Low(x * (y - d))
                   \/ r[PC] = 20 /\ r[2] = Low(x * (y - d + 1))

RecursiveCode ==
  /\ At(2, Of("CBNZ", [rn |-> 1, imm |-> 4]))
  /\ At(4, Mov(2, 0))
  /\ At(8, Return)
  /\ At(10, Many("PUSH", 13, {4, 14}))
  /\ At(12, DI("SUB_IMM8", 1, 1))
  /\ At(14, Jump("T32_BL", -16))
  /\ At(18, DNM("ADD_REG", 2, 2, 0))
  /\ At(20, Many("POP", 13, {4, 15}))

(* A word above two written ones reads as before. *)
LEMMA ReadsBeside ==
  ASSUME NEW m, NEW a \in Int, NEW b \in Int, InRam(b), b > a + 7,
         \A c \in Ram : c \notin a .. a + 7 => m[c] = mem[c]
  PROVE  Reads(m, b) = Reads(mem, b)
<1>1. \A i \in 0 .. 3 : b + i \in Ram /\ b + i \notin a .. a + 7
  <2>1. \A i \in 0 .. 3 : b + i \in Ram
    BY InRamIs
  <2> QED BY <2>1
<1>2. b + 0 = b /\ 0 \in 0 .. 3 /\ 1 \in 0 .. 3 /\ 2 \in 0 .. 3 /\ 3 \in 0 .. 3
  OBVIOUS
<1>3. m[b] = mem[b] /\ m[b + 1] = mem[b + 1] /\ m[b + 2] = mem[b + 2] /\ m[b + 3] = mem[b + 3]
  BY <1>1, <1>2, Zenon
<1> QED BY <1>3, Zenon DEF Reads

(* A frame pushed below d frames makes d + 1. *)
LEMMA FramesPushed ==
  ASSUME NEW d \in 0 .. 3, NEW m, NEW s \in Int, s = StackTop - 8 * (d + 1), Untouched(mem), Frames(mem, d),
         Holds(m, s, 68), Holds(m, s + 4, Back(d)),
         \A c \in Ram : c \notin s .. s + 7 => m[c] = mem[c]
  PROVE  Frames(m, d + 1) /\ Untouched(m)
<1> DEFINE T == StackTop
<1>1. T \in Int /\ \A a \in Ram : a \in Int
  BY StackIs, Sizes
<1>2. ASSUME NEW k \in 1 .. d + 1 PROVE Reads(m, T - 8 * k) = 68 /\ Reads(m, T - 8 * k + 4) = Back(k - 1)
  <2>1. CASE k = d + 1
    <3>1. T - 8 * k = s /\ k - 1 = d
      BY <1>1, <2>1
    <3>2. Back(d) \in Word /\ 68 \in Word
      BY SmallIs DEF Back
    <3>3. Reads(m, s) = 68 /\ Reads(m, s + 4) = Back(d)
      BY <3>2, HoldsReads
    <3> QED BY <3>1, <3>3
  <2>2. CASE k \in 1 .. d
    <3>1. /\ 8 * k \in 4 .. 32 /\ 8 * k - 4 \in 4 .. 32 /\ T - 8 * k + 4 = T - (8 * k - 4)
          /\ T - 8 * k > s + 7 /\ T - 8 * k + 4 > s + 7 /\ T - 8 * k \in Int /\ T - 8 * k + 4 \in Int
      BY <1>1, <2>2
    <3>2. InRam(T - 8 * k) /\ InRam(T - (8 * k - 4))
      BY <3>1, StackIs, Zenon
    <3>3. Reads(m, T - 8 * k) = Reads(mem, T - 8 * k)
      BY <3>1, <3>2, ReadsBeside
    <3>4. Reads(m, T - 8 * k + 4) = Reads(mem, T - 8 * k + 4)
      BY <3>1, <3>2, ReadsBeside
    <3> QED BY <2>2, <3>3, <3>4, Zenon DEF Frames
  <2> QED BY <2>1, <2>2
<1>3. ASSUME NEW a \in Ram, a < T - 32 PROVE m[a] = InitialMem[a]
  <2>1. a \notin s .. s + 7
    BY <1>1, <1>3
  <2> QED BY <1>3, <2>1, Zenon DEF Untouched
<1> QED BY <1>2, <1>3, Zenon DEF Frames, Untouched

(* PUSH of R4 and LR, d calls deep. *)
LEMMA PushFrameStep ==
  ASSUME Next, CallBase, Ins = Many("PUSH", 13, {4, 14}), NEW d \in 0 .. 3, Deep(d), r[LR] = Back(d), r[PC] = 10
  PROVE  CallBase' /\ Deep(d + 1)' /\ r'[PC] = 12 /\ r'[1] = r[1]
<1>1. /\ Outside /\ Untouched(mem) /\ DOMAIN r = 0 .. 15 /\ r[0] = x /\ \A i \in 5 .. 12 : r[i] = 17 * i
  BY OutsideIs DEF CallBase
<1>2. StackTop \in Int
  BY StackIs, Sizes
<1>3. PICK s \in Int : s = StackTop - 8 * (d + 1)
  BY <1>2
<1> DEFINE list == {4, 14}
           m == StoreAll(list, s)
<1>4. Cardinality(list) = 2 /\ Place(list, 4) = 0 /\ Place(list, 14) = 1
  BY PlacesAre
<1>5. s .. s + 4 * 2 - 1 \subseteq Ram
  <2>1. \A a \in s .. s + 4 * 2 - 1 : StackTop - a \in 1 .. 32 /\ StackTop - (StackTop - a) = a
    BY <1>2, <1>3
  <2> QED BY <2>1, StackIs
<1>6. /\ \A i \in list : Holds(m, s + 4 * Place(list, i), r[i])
      /\ \A b \in Ram : b \notin s .. s + 4 * 2 - 1 => m[b] = mem[b]
  <2>1. \A i \in list : Place(list, i) \in 0 .. 2 - 1
    BY <1>4
  <2>2. \A i, j \in list : Place(list, i) = Place(list, j) => i = j
    BY <1>4
  <2> QED BY <1>5, <2>1, <2>2, 2 \in Nat, StoreAllHolds, Zenon
<1>7. Goes(12, [r EXCEPT ![SP] = s], m)
  <2>1. Low(r[SP] - 4 * Cardinality(list)) = s
    <3>1. (StackTop - 8 * d) - 4 * 2 = s /\ 8 * (d + 1) \in 1 .. 32
      BY <1>2, <1>3
    <3> QED BY <1>3, <1>4, <3>1, StackIs DEF Deep
  <2>2. "PUSH" \in {"PUSH", "T32_STMDB"}
    OBVIOUS
  <2>3. Goes(Low(r[PC] + IF "PUSH" = "PUSH" THEN 2 ELSE 4), [r EXCEPT ![SP] = s], m)
    BY <1>1, <2>1, <2>2, SaveStep, Zenon
  <2>4. Low(r[PC] + IF "PUSH" = "PUSH" THEN 2 ELSE 4) = 12
    BY SmallIs
  <2> QED BY <2>3, <2>4, Zenon
<1>8. Holds(m, s, 68) /\ Holds(m, s + 4, Back(d)) /\ s .. s + 4 * 2 - 1 = s .. s + 7
  <2>1. Holds(m, s + 4 * 0, 68) /\ Holds(m, s + 4 * 1, Back(d))
    <3>1. 4 \in list /\ 14 \in list /\ r[4] = 68 /\ r[14] = Back(d)
      BY DEF Deep, LR
    <3> QED BY <1>4, <1>6, <3>1, Zenon
  <2>2. s + 4 * 0 = s /\ s + 4 * 1 = s + 4 /\ s + 4 * 2 - 1 = s + 7
    OBVIOUS
  <2> QED BY <2>1, <2>2, Zenon
<1>9. Frames(m, d + 1) /\ Untouched(m)
  <2> HIDE DEF m
  <2>1. (\A c \in Ram : c \notin s .. s + 7 => m[c] = mem[c]) /\ Frames(mem, d)
    BY <1>6, <1>8, Zenon DEF Deep
  <2> QED BY <1>1, <1>3, <1>8, <2>1, FramesPushed
<1> HIDE DEF m
<1> DEFINE regs == [r EXCEPT ![SP] = s]
<1>10. regs[0] = x /\ (\A i \in 5 .. 12 : regs[i] = 17 * i) /\ regs[1] = r[1] /\ regs[4] = 68 /\ regs[SP] = s
       /\ 1 \in 0 .. 14 /\ 4 \in 0 .. 14 /\ SP \in 0 .. 14
  BY <1>1 DEF Deep, SP
<1> HIDE DEF regs
<1>11. CallBase' /\ r'[PC] = 12 /\ (\A j \in 0 .. 14 : r'[j] = regs[j]) /\ mem' = m
  BY <1>7, <1>9, <1>10, Moves, Zenon DEF regs
<1> QED BY <1>3, <1>9, <1>10, <1>11, Zenon DEF Deep

(* POP of R4 and PC, into the caller of depth d - 1. *)
LEMMA PopFrameStep ==
  ASSUME Next, CallBase, Ins = Many("POP", 13, {4, 15}), NEW d \in 1 .. 4, Deep(d)
  PROVE  CallBase' /\ Deep(d - 1)' /\ r'[PC] = Even(Back(d - 1)) /\ r'[2] = r[2]
<1>1. /\ Outside /\ Untouched(mem) /\ DOMAIN r = 0 .. 15 /\ r[0] = x /\ \A i \in 5 .. 12 : r[i] = 17 * i
  BY OutsideIs DEF CallBase
<1>2. StackTop \in 0 .. Modulus - 1 /\ StackTop \in Int
  BY StackIs, Sizes
<1>3. PICK s \in Int, n \in Nat : s = StackTop - 8 * d /\ n = 2
  BY <1>2
<1> DEFINE list == {4, 15}
           regs == Restoring(list)
<1>4. Cardinality(list) = 2 /\ Place(list, 4) = 0 /\ Place(list, 15) = 1
  BY PlacesAre
<1>5. s + 4 * 0 = s /\ s + 4 * 1 = s + 4 /\ s + 4 * n = s + 8
  BY <1>3
<1>6. Reads(mem, s) = 68 /\ Reads(mem, s + 4) = Back(d - 1)
  <2>1. d \in 1 .. d
    OBVIOUS
  <2> QED BY <1>3, <2>1, Zenon DEF Deep, Frames
<1>7. /\ DOMAIN regs = 0 .. 15 /\ regs[SP] = s + 8
      /\ \A i \in list : regs[i] = Reads(mem, s + 4 * Place(list, i))
      /\ \A i \in 0 .. 15 : i \notin list /\ i # SP => regs[i] = r[i]
  <2>1. list \in SUBSET (0 .. 15 \ {SP})
    BY DEF SP
  <2>2. InRam(s) /\ InRam(s + 4)
    <3>1. 8 * d \in 4 .. 32 /\ 8 * d - 4 \in 4 .. 32 /\ s = StackTop - 8 * d /\ s + 4 = StackTop - (8 * d - 4)
      BY <1>2, <1>3
    <3> QED BY <3>1, StackIs, Zenon
  <2>3. \A i \in list : Place(list, i) \in Int /\ InRam(s + 4 * Place(list, i))
    <3>1. InRam(s + 4 * 0) /\ InRam(s + 4 * 1)
      BY <1>5, <2>2, Zenon
    <3>2. 0 \in Int /\ 1 \in Int /\ \A i \in list : i = 4 \/ i = 15
      OBVIOUS
    <3> HIDE DEF list
    <3> QED BY <1>4, <3>1, <3>2, Zenon
  <2>4. s + 4 * n \in 0 .. Modulus - 1 /\ r[SP] = s /\ Cardinality(list) = n
    <3>1. CASE d = 1
      <4>1. s + 4 * n = StackTop
        BY <1>2, <1>3, <3>1
      <4> QED BY <1>2, <1>3, <1>4, <4>1 DEF Deep
    <3>2. CASE d # 1
      <4>1. s + 4 * n = StackTop - 8 * (d - 1) /\ 8 * (d - 1) \in 1 .. 32
        BY <1>2, <1>3, <3>2
      <4> QED BY <1>3, <1>4, <4>1, StackIs DEF Deep
    <3> QED BY <3>1, <3>2
  <2> HIDE DEF regs, list
  <2>5. /\ DOMAIN Restoring(list) = 0 .. 15 /\ Restoring(list)[SP] = s + 4 * n
        /\ \A i \in list : Restoring(list)[i] = Reads(mem, s + 4 * Place(list, i))
        /\ \A i \in 0 .. 15 : i \notin list /\ i # SP => Restoring(list)[i] = r[i]
    BY <1>1, <2>1, <2>3, <2>4, RestoredIs
  <2> QED BY <1>5, <2>5, Zenon DEF regs
<1>8. Goes(Even(regs[PC]), regs, mem)
  <2>1. PC \in list /\ "POP" \in {"POP", "T32_LDMIA", "T32_LDMDB"}
    BY DEF PC
  <2> HIDE DEF regs, list
  <2>2. Ins = Many("POP", 13, list)
    BY Zenon DEF list
  <2> QED BY <1>1, <2>1, <2>2, RestoreStep, Zenon DEF regs
<1> HIDE DEF regs
<1>9. regs[4] = 68 /\ regs[PC] = Back(d - 1) /\ regs[2] = r[2] /\ regs[0] = r[0] /\ \A i \in 5 .. 12 : regs[i] = r[i]
  <2>1. 4 \in list /\ 15 \in list /\ PC = 15
    BY DEF PC
  <2>2. regs[4] = Reads(mem, s + 4 * 0) /\ regs[15] = Reads(mem, s + 4 * 1)
    BY <1>4, <1>7, <2>1, Zenon
  <2>3. \A i \in {0, 2} \cup 5 .. 12 : i \in 0 .. 15 /\ i \notin list /\ i # SP
    BY DEF SP
  <2>4. \A i \in {0, 2} \cup 5 .. 12 : regs[i] = r[i]
    BY <1>7, <2>3, Zenon
  <2> QED BY <1>5, <1>6, <2>1, <2>2, <2>4
<1>10. regs[0] = x /\ \A i \in 5 .. 12 : regs[i] = 17 * i
  BY <1>1, <1>9
<1>11. CallBase' /\ r'[PC] = Even(regs[PC]) /\ (\A j \in 0 .. 14 : r'[j] = regs[j]) /\ mem' = mem
  BY <1>1, <1>8, <1>10, Moves, Zenon
<1>12. 2 \in 0 .. 14 /\ 4 \in 0 .. 14 /\ SP \in 0 .. 14
  BY DEF SP
<1>13. s + 8 = StackTop - 8 * (d - 1)
  BY <1>2, <1>3
<1>14. Frames(mem, d - 1)
  <2>1. 1 .. d - 1 \subseteq 1 .. d
    OBVIOUS
  <2> QED BY <2>1 DEF Deep, Frames
<1> QED BY <1>7, <1>9, <1>11, <1>12, <1>13, <1>14, Zenon DEF Deep

(* The recursion, step by step: down to R1 = 0, and back up with R2 a product. *)
LEMMA RecursiveStageStep ==
  ASSUME Next, CallBase, 8 * y <= 32, RecursiveCode, RecursiveStage
  PROVE  CallBase' /\ (RecursiveStage' \/ Returned(26)')
<1>1. /\ Outside /\ x \in Word /\ y \in Word /\ x \in Nat /\ y \in 0 .. 4 /\ r[0] = x
      /\ x' = x /\ y' = y /\ Untouched(mem)
  <2>1. Outside /\ x \in Word /\ y \in Word /\ r[0] = x /\ Untouched(mem)
    BY DEF CallBase
  <2>2. x' = x /\ y' = y
    BY ProgramStays DEF x, y
  <2>3. x \in Nat /\ y \in Nat
    BY <2>1, Sizes
  <2> QED BY <2>1, <2>2, <2>3
<1>2. /\ Low(2 + 8) = 10 /\ Low(2 + 2) = 4 /\ Low(4 + 4) = 8 /\ Low(12 + 2) = 14 /\ Low(14 + 4 + -16) = 2
      /\ Low(Low(14 + 4) + 1) = 19 /\ Low(18 + 2) = 20 /\ 0 \in Word
  <2>1. /\ 2 + 8 = 10 /\ 2 + 2 = 4 /\ 4 + 4 = 8 /\ 12 + 2 = 14 /\ 14 + 4 + -16 = 2
        /\ 14 + 4 = 18 /\ 18 + 1 = 19 /\ 18 + 2 = 20
    OBVIOUS
  <2>2. Low(10) = 10 /\ Low(4) = 4 /\ Low(8) = 8 /\ Low(14) = 14 /\ Low(2) = 2 /\ Low(18) = 18 /\ Low(19) = 19 /\ Low(20) = 20
        /\ 0 \in Word
    BY SmallIs
  <2> QED BY <2>1, <2>2
<1>3. SP = 13 /\ LR = 14 /\ Even(27) = 26 /\ Even(19) = 18
  <2>1. 27 % 2 = 1 /\ 19 % 2 = 1
    OBVIOUS
  <2> QED BY <2>1 DEF SP, LR, Even
<1>4. PICK d \in 0 .. y :
        /\ Deep(d)
        /\ \/ r[LR] = Back(d) /\ \/ r[PC] = 2 /\ r[1] = y - d
                                 \/ r[PC] = 4 /\ d = y
                                 \/ r[PC] = 8 /\ d = y /\ r[2] = 0
                                 \/ r[PC] = 10 /\ d < y /\ r[1] = y - d
           \/ d > 0 /\ \/ r[PC] = 12 /\ r[1] = y - d + 1
                       \/ r[PC] = 14 /\ r[1] = y - d
                       \/ r[PC] = 18 /\ r[2] = Low(x * (y - d))
                       \/ r[PC] = 20 /\ r[2] = Low(x * (y - d + 1))
  BY Zenon DEF RecursiveStage
<1>5. d \in 0 .. 4 /\ d \in Int /\ r[4] = 68 /\ r[SP] = StackTop - 8 * d /\ Frames(mem, d)
  BY <1>1, <1>4 DEF Deep
<1>6. ASSUME r'[4] = r[4], r'[SP] = r[SP], mem' = mem PROVE Deep(d)'
  BY <1>5, <1>6, Zenon DEF Deep
<1>7. ASSUME NEW pc, Goes(pc, r, mem)
      PROVE  CallBase' /\ r'[PC] = pc /\ Deep(d)' /\ r'[LR] = r[LR] /\ r'[1] = r[1] /\ r'[2] = r[2]
  <2>1. CallBase' /\ r'[PC] = pc /\ mem' = mem /\ \A j \in {1, 2, 3, 4, 13, 14} : r'[j] = r[j]
    BY <1>1, <1>7, MovesNone
  <2> QED BY <1>3, <1>6, <2>1
<1>8. ASSUME NEW pc, NEW i \in {1, 2, 14}, NEW value, Goes(pc, [r EXCEPT ![i] = value], mem)
      PROVE  CallBase' /\ r'[PC] = pc /\ Deep(d)' /\ r'[i] = value /\ \A j \in {1, 2, 14} : j # i => r'[j] = r[j]
  <2>1. i \in {1, 2, 3, 4, 13, 14} /\ i # 4 /\ i # SP
    BY <1>3
  <2>2. PICK k \in {1, 2, 3, 4, 13, 14} : k = i
    BY <2>1
  <2>3. Goes(pc, [r EXCEPT ![k] = value], mem)
    BY <1>8, <2>2
  <2>4. /\ CallBase' /\ r'[PC] = pc /\ r'[k] = value /\ mem' = mem
        /\ \A j \in {1, 2, 3, 4, 13, 14} : j # k => r'[j] = r[j]
    <3>1. k \in CallRegs
      BY DEF CallRegs
    <3>2. OneMoves(pc, k, value)
      BY <2>3, <3>1, MovesOne, Zenon
    <3> QED BY <3>2, Zenon DEF OneMoves, CallRegs
  <2>5. Deep(d)'
    BY <1>3, <1>6, <2>1, <2>2, <2>4
  <2> QED BY <2>2, <2>4, <2>5
<1>9. 1 \in {1, 2, 14} /\ 2 \in {1, 2, 14} /\ 14 \in {1, 2, 14} /\ 1 # 2 /\ 1 # 14 /\ 2 # 14
  OBVIOUS
<1>10. CASE r[PC] = 2 /\ r[LR] = Back(d) /\ r[1] = y - d
  <2>1. Goes(IF r[1] = 0 THEN 4 ELSE 10, r, mem)
    <3>1. Ins = Of("CBNZ", [rn |-> 1, imm |-> 4]) /\ r[PC] \in Int
      BY <1>10 DEF RecursiveCode, At
    <3>2. Goes(IF (r[1] = 0) = ("CBNZ" = "CBZ") THEN Low(r[PC] + 8) ELSE Low(r[PC] + 2), r, mem)
      BY <1>1, <3>1, CompareZeroStep
    <3> QED BY <1>2, <1>10, <3>2
  <2>2. CallBase' /\ Deep(d)' /\ r'[LR] = Back(d) /\ r'[1] = y - d /\ r'[PC] = (IF r[1] = 0 THEN 4 ELSE 10)
    BY <1>7, <1>10, <2>1
  <2>3. RecursiveStage'
    <3>1. CASE r[1] = 0
      <4>1. d = y
        BY <1>1, <1>5, <1>10, <3>1
      <4> QED BY <1>1, <1>4, <2>2, <3>1, <4>1 DEF RecursiveStage
    <3>2. CASE r[1] # 0
      <4>1. d < y
        BY <1>1, <1>4, <1>5, <1>10, <3>2
      <4> QED BY <1>1, <1>4, <2>2, <3>2, <4>1 DEF RecursiveStage
    <3> QED BY <3>1, <3>2
  <2> QED BY <2>2, <2>3
<1>11. CASE r[PC] = 4 /\ r[LR] = Back(d) /\ d = y
  <2>1. Goes(8, [r EXCEPT ![2] = 0], mem)
    <3>1. Ins = Mov(2, 0) /\ 2 \in 0 .. 12
      BY <1>11 DEF RecursiveCode, At
    <3>2. Goes(Low(r[PC] + 4), [r EXCEPT ![2] = 0], mem)
      BY <1>1, <1>2, <3>1, ConstantStep, Zenon
    <3> QED BY <1>2, <1>11, <3>2
  <2>2. CallBase' /\ Deep(d)' /\ r'[LR] = Back(d) /\ r'[2] = 0 /\ r'[PC] = 8
    <3>1. 2 \in CallRegs
      BY DEF CallRegs
    <3>2. OneMoves(8, 2, 0)
      BY <2>1, <3>1, MovesOne, Zenon
    <3>3. 4 \in CallRegs /\ LR \in CallRegs /\ SP \in CallRegs /\ 4 # 2 /\ LR # 2 /\ SP # 2
      BY DEF CallRegs, SP, LR
    <3> QED BY <1>6, <1>11, <3>2, <3>3, Zenon DEF OneMoves
  <2> QED BY <1>1, <1>4, <1>11, <2>2 DEF RecursiveStage
<1>12. CASE r[PC] = 8 /\ r[LR] = Back(d) /\ d = y /\ r[2] = 0
  <2>1. Goes(Even(r[LR]), r, mem)
    <3>1. Ins = Return /\ r[PC] \in Int /\ 0 \in Int
      BY <1>12 DEF RecursiveCode, At
    <3> QED BY <1>1, <3>1, JumpStep
  <2>2. CallBase' /\ Deep(d)' /\ r'[2] = 0 /\ r'[PC] = Even(Back(d))
    BY <1>7, <1>12, <2>1
  <2>3. Low(x * (y - d)) = 0
    <3>1. y - d = 0
      BY <1>1, <1>12
    <3> QED BY <1>1, <3>1, OnceMore
  <2>4. CASE d = 0
    <3>1. y - d = y /\ StackTop - 8 * d = StackTop
      BY <1>1, <2>4, StackIs, Sizes
    <3> QED BY <1>1, <1>3, <2>2, <2>3, <2>4, <3>1 DEF Deep, Back, Returned, Restored
  <2>5. CASE d # 0
    <3>1. d > 0 /\ Back(d) = 19
      BY <1>5, <2>5 DEF Back
    <3> QED BY <1>1, <1>3, <1>4, <2>2, <2>3, <3>1 DEF RecursiveStage
  <2> QED BY <2>4, <2>5
<1>13. CASE r[PC] = 10 /\ r[LR] = Back(d) /\ d < y /\ r[1] = y - d
  <2>1. Ins = Many("PUSH", 13, {4, 14}) /\ d \in 0 .. 3
    BY <1>1, <1>5, <1>13 DEF RecursiveCode, At
  <2>2. CallBase' /\ Deep(d + 1)' /\ r'[PC] = 12 /\ r'[1] = y - d
    BY <1>4, <1>13, <2>1, PushFrameStep
  <2>3. d + 1 \in 0 .. y /\ d + 1 > 0 /\ y - (d + 1) + 1 = y - d
    BY <1>1, <1>5, <1>13
  <2> QED BY <1>1, <2>2, <2>3 DEF RecursiveStage
<1>14. CASE d > 0 /\ r[PC] = 12 /\ r[1] = y - d + 1
  <2>1. Goes(14, [r EXCEPT ![1] = Low(r[1] - 1)], mem)
    <3>1. Ins = DI("SUB_IMM8", 1, 1)
      BY <1>14 DEF RecursiveCode, At
    <3>2. Goes(Low(r[PC] + 2), [r EXCEPT ![1] = Low(r[1] - 1)], mem)
      BY <1>1, <3>1, ArithmeticStep, Zenon
    <3> QED BY <1>2, <1>14, <3>2
  <2>2. Low(r[1] - 1) = y - d
    <3>1. r[1] - 1 = y - d /\ y - d \in 0 .. 204
      BY <1>1, <1>4, <1>5, <1>14
    <3> QED BY <3>1, SmallIs
  <2>3. CallBase' /\ Deep(d)' /\ r'[1] = y - d /\ r'[PC] = 14
    BY <1>8, <1>9, <2>1, <2>2, Zenon
  <2> QED BY <1>1, <1>4, <1>14, <2>3 DEF RecursiveStage
<1>15. CASE d > 0 /\ r[PC] = 14 /\ r[1] = y - d
  <2>1. Goes(2, [r EXCEPT ![LR] = 19], mem)
    <3>1. Ins = Jump("T32_BL", -16) /\ r[PC] \in Int /\ -16 \in Int
      BY <1>15 DEF RecursiveCode, At
    <3>2. Goes(Low(r[PC] + 4 + -16), [r EXCEPT ![LR] = Low(Low(r[PC] + 4) + 1)], mem)
      BY <1>1, <3>1, JumpStep
    <3> QED BY <1>2, <1>15, <3>2
  <2>2. CallBase' /\ Deep(d)' /\ r'[LR] = 19 /\ r'[1] = y - d /\ r'[PC] = 2
    <3>1. LR \in CallRegs
      BY DEF CallRegs, LR
    <3>2. OneMoves(2, LR, 19)
      BY <2>1, <3>1, MovesOne, Zenon
    <3>3. 1 \in CallRegs /\ 4 \in CallRegs /\ SP \in CallRegs /\ 1 # LR /\ 4 # LR /\ SP # LR
      BY DEF CallRegs, SP, LR
    <3> QED BY <1>6, <1>15, <3>2, <3>3, Zenon DEF OneMoves
  <2>3. Back(d) = 19
    BY <1>5, <1>15 DEF Back
  <2> QED BY <1>1, <1>4, <2>2, <2>3 DEF RecursiveStage
<1>16. CASE d > 0 /\ r[PC] = 18 /\ r[2] = Low(x * (y - d))
  <2>1. Goes(20, [r EXCEPT ![2] = Low(r[2] + r[0])], mem)
    <3>1. Ins = DNM("ADD_REG", 2, 2, 0)
      BY <1>16 DEF RecursiveCode, At
    <3>2. Goes(Low(r[PC] + 2), [r EXCEPT ![2] = Low(r[2] + r[0])], mem)
      BY <1>1, <3>1, ArithmeticStep
    <3> QED BY <1>2, <1>16, <3>2
  <2>2. Low(r[2] + r[0]) = Low(x * (y - d + 1))
    <3>1. x \in Word /\ y - d \in Nat
      BY <1>1, <1>4
    <3>2. Low(Low(x * (y - d)) + x) = Low(x * (y - d + 1))
      BY <3>1, OnceMore, Zenon
    <3>3. r[0] = x
      BY <1>1 DEF CallBase
    <3> QED BY <1>16, <3>2, <3>3, Zenon
  <2>3. CallBase' /\ Deep(d)' /\ r'[2] = Low(x * (y - d + 1)) /\ r'[PC] = 20
    BY <1>8, <1>9, <2>1, <2>2, Zenon
  <2> QED BY <1>1, <1>4, <1>16, <2>3 DEF RecursiveStage
<1>17. CASE d > 0 /\ r[PC] = 20 /\ r[2] = Low(x * (y - d + 1))
  <2>1. Ins = Many("POP", 13, {4, 15}) /\ d \in 1 .. 4
    BY <1>5, <1>17 DEF RecursiveCode, At
  <2>2. CallBase' /\ Deep(d - 1)' /\ r'[PC] = Even(Back(d - 1)) /\ r'[2] = Low(x * (y - d + 1))
    BY <1>4, <1>17, <2>1, PopFrameStep
  <2>3. CASE d = 1
    <3>1. y - d + 1 = y /\ StackTop - 8 * (d - 1) = StackTop /\ Even(Back(d - 1)) = 26
      BY <1>1, <1>3, <2>3, StackIs, Sizes DEF Back
    <3> QED BY <1>1, <1>3, <2>2, <3>1 DEF Deep, Returned, Restored
  <2>4. CASE d # 1
    <3>1. d - 1 \in 0 .. y /\ d - 1 > 0 /\ Even(Back(d - 1)) = 18 /\ y - (d - 1) = y - d + 1
      BY <1>1, <1>3, <1>4, <1>17, <2>4 DEF Back
    <3> QED BY <1>1, <2>2, <3>1 DEF RecursiveStage
  <2> QED BY <2>3, <2>4
<1> QED BY <1>4, <1>10, <1>11, <1>12, <1>13, <1>14, <1>15, <1>16, <1>17

(* Which of the instructions have 16 bits. *)
LEMMA BranchesAre == {"B", "BLX", "BX", "CBZ", "CBNZ", "PUSH", "POP"} \subseteq Narrow /\ "T32_BL" \notin Narrow
BY DEF Narrow, DataProcessingTypes, LoadStoreTypes, AluTable, LoadStoreTable

(* A sequence with something before and behind it *)
Encloses(code, n, first, body, last) ==
  /\ Len(code) = n + 2 /\ DOMAIN code = 1 .. n + 2 /\ code[1] = first /\ code[n + 2] = last
  /\ \A i \in 1 .. n : code[i + 1] = body[i]

(* The concatenations that Call builds enclose the body. *)
LEMMA EnclosesIs ==
  ASSUME NEW n \in Nat, NEW body, Len(body) = n, DOMAIN body = 1 .. n, NEW first, NEW a, NEW b
  PROVE  /\ Encloses(<<first>> \o body \o <<a>>, n, first, body, a)
         /\ Encloses(<<first>> \o body \o <<a, b>>, n + 1, first, body \o <<a>>, b)
         /\ LET more == body \o <<a>>
            IN  Len(more) = n + 1 /\ DOMAIN more = 1 .. n + 1 /\ more[n + 1] = a /\ \A i \in 1 .. n : more[i] = body[i]
<1> DEFINE one  == <<first>> \o body \o <<a>>
           two  == <<first>> \o body \o <<a, b>>
           more == body \o <<a>>
<1>1. Len(one) = n + 2 /\ DOMAIN one = 1 .. n + 2 /\ one[1] = first /\ one[n + 2] = a /\ \A i \in 1 .. n : one[i + 1] = body[i]
  OBVIOUS
<1>2. /\ Len(two) = n + 3 /\ DOMAIN two = 1 .. n + 3 /\ two[1] = first /\ two[n + 2] = a /\ two[n + 3] = b
      /\ \A i \in 1 .. n : two[i + 1] = body[i]
  OBVIOUS
<1>3. Len(more) = n + 1 /\ DOMAIN more = 1 .. n + 1 /\ more[n + 1] = a /\ \A i \in 1 .. n : more[i] = body[i]
  OBVIOUS
<1> HIDE DEF one, two, more
<1>4. (n + 1) + 2 = n + 3 /\ (n + 1) + 1 = n + 2 /\ \A i \in 1 .. n + 1 : i = n + 1 \/ i \in 1 .. n
  OBVIOUS
<1>5. Encloses(one, n, first, body, a)
  BY <1>1 DEF Encloses
<1>6. Encloses(two, n + 1, first, more, b)
  BY <1>2, <1>3, <1>4 DEF Encloses
<1> QED BY <1>3, <1>5, <1>6 DEF one, two, more

(* Where a body lies behind a first instruction of two bytes. *)
LEMMA EnclosedIs ==
  ASSUME NEW n \in 1 .. 14, NEW body, NEW g, Follows(n, body, g), NEW first, NEW last, NEW name,
         NEW code, Encloses(code, n, first, body, last),
         Bytes(first) = 2, program = Laid(name, "M3", code)
  PROVE  /\ At(0, first) /\ At(g[n + 1] + 2, last) /\ Ending(g[n + 1] + 2 + Bytes(last))
         /\ \A i \in 1 .. n : At(g[i] + 2, body[i])
<1> DEFINE h == [i \in 1 .. n + 3 |-> IF i = 1 THEN 0 ELSE IF i = n + 3 THEN g[n + 1] + 2 + Bytes(last) ELSE g[i - 1] + 2]
<1>3. /\ Len(body) = n /\ DOMAIN body = 1 .. n /\ g[1] = 0
      /\ \A i \in 1 .. n : g[i + 1] = g[i] + Bytes(body[i])
      /\ \A i \in 1 .. n + 1 : g[i] \in Nat
      /\ \A i, j \in 1 .. n + 1 : i < j => g[i] < g[j]
  BY DEF Follows
<1>4. Bytes(last) \in 2 .. 4
  BY DEF Bytes
<1>5. /\ Len(code) = n + 2 /\ DOMAIN code = 1 .. n + 2 /\ code[1] = first /\ code[n + 2] = last
      /\ \A i \in 1 .. n : code[i + 1] = body[i]
  BY DEF Encloses
<1>6. /\ h[1] = 0 /\ h[n + 3] = g[n + 1] + 2 + Bytes(last)
      /\ \A i \in 1 .. n + 1 : h[i + 1] = g[i] + 2
  BY <1>3
<1>7. \A i \in 1 .. n + 3 : i = 1 \/ i = n + 3 \/ (\E j \in 1 .. n + 1 : i = j + 1)
  <2>1. \A i \in 1 .. n + 3 : i = 1 \/ i = n + 3 \/ (i - 1 \in 1 .. n + 1 /\ i = (i - 1) + 1)
    OBVIOUS
  <2> QED BY <2>1, Zenon
<1>8. Follows(n + 2, code, h)
  <2>1. h = [i \in 1 .. (n + 2) + 1 |-> h[i]]
    BY <1>6
  <2> HIDE DEF h
  <2>2. \A i \in 1 .. (n + 2) + 1 : h[i] \in Nat
    <3>1. (n + 2) + 1 = n + 3 /\ n + 1 \in 1 .. n + 1
      OBVIOUS
    <3>2. \A j \in 1 .. n + 1 : g[j] + 2 \in Nat
      BY <1>3
    <3>3. h[1] \in Nat /\ h[n + 3] \in Nat
      BY <1>4, <1>3, <1>6, <3>1, SMTT(20)
    <3>4. \A j \in 1 .. n + 1 : h[j + 1] \in Nat
      BY <1>6, <3>2
    <3> QED BY <1>7, <3>1, <3>3, <3>4, Zenon
  <2>3. \A i \in 1 .. n + 2 : h[i + 1] = h[i] + Bytes(code[i])
    <3>1. h[1 + 1] = h[1] + Bytes(code[1])
      BY <1>3, <1>4, <1>5, <1>6
    <3>2. h[(n + 2) + 1] = h[n + 2] + Bytes(code[n + 2])
      BY <1>3, <1>4, <1>5, <1>6
    <3>3. ASSUME NEW j \in 1 .. n PROVE h[(j + 1) + 1] = h[j + 1] + Bytes(code[j + 1])
      <4>1. g[j + 1] = g[j] + Bytes(body[j]) /\ g[j] \in Nat /\ g[j + 1] \in Nat /\ Bytes(body[j]) \in Int
        BY <1>3 DEF Bytes
      <4>2. h[(j + 1) + 1] = g[j + 1] + 2 /\ h[j + 1] = g[j] + 2 /\ code[j + 1] = body[j]
        <5>1. j \in 1 .. n + 1 /\ j + 1 \in 1 .. n + 1
          OBVIOUS
        <5> QED BY <1>5, <1>6, <5>1, Zenon
      <4> QED BY <4>1, <4>2
    <3>4. \A i \in 1 .. n + 2 : i = 1 \/ i = n + 2 \/ (i - 1 \in 1 .. n /\ i = (i - 1) + 1)
      OBVIOUS
    <3> QED BY <3>1, <3>2, <3>3, <3>4
  <2>4. ASSUME NEW i \in 1 .. (n + 2) + 1, NEW j \in 1 .. (n + 2) + 1, i < j PROVE h[i] < h[j]
    <3>1. n + 1 \in 1 .. n + 1 /\ \A k \in 1 .. n + 1 : k = n + 1 \/ k < n + 1
      OBVIOUS
    <3>2. \A k \in 1 .. n + 1 : g[k] \in Nat /\ g[k] <= g[n + 1]
      BY <1>3, <3>1
    <3>3. i \in 1 .. n + 3 /\ j \in 1 .. n + 3 /\ n + 1 \in 1 .. n + 1
      OBVIOUS
    <3>4. ASSUME NEW k \in 1 .. n + 1 PROVE h[k + 1] < h[n + 3] /\ h[1] < h[k + 1]
      <4>1. g[k] \in Nat /\ g[n + 1] \in Nat /\ g[k] <= g[n + 1]
        BY <3>2, <3>3
      <4>2. h[k + 1] = g[k] + 2 /\ h[n + 3] = g[n + 1] + 2 + Bytes(last) /\ h[1] = 0
        BY <1>6
      <4> QED BY <1>4, <4>1, <4>2
    <3>5. h[1] < h[n + 3]
      BY <1>4, <1>3, <1>6, <3>3
    <3>6. ASSUME NEW k \in 1 .. n + 1, NEW l \in 1 .. n + 1, k < l PROVE h[k + 1] < h[l + 1]
      <4>1. g[k] < g[l] /\ g[k] \in Nat /\ g[l] \in Nat
        BY <1>3, <3>6
      <4>2. h[k + 1] = g[k] + 2 /\ h[l + 1] = g[l] + 2
        BY <1>6
      <4> QED BY <4>1, <4>2
    <3>7. CASE i = 1
      BY <1>7, <2>4, <3>3, <3>4, <3>5, <3>7
    <3>8. CASE \E k \in 1 .. n + 1 : i = k + 1
      <4>1. PICK k \in 1 .. n + 1 : i = k + 1
        BY <3>8
      <4>2. CASE j = n + 3
        BY <3>4, <4>1, <4>2
      <4>3. CASE \E l \in 1 .. n + 1 : j = l + 1
        <5>1. PICK l \in 1 .. n + 1 : j = l + 1
          BY <4>3
        <5>2. k < l
          BY <2>4, <4>1, <5>1
        <5> QED BY <3>6, <4>1, <5>1, <5>2
      <4> QED BY <1>7, <2>4, <3>3, <4>1, <4>2, <4>3
    <3> QED BY <1>7, <2>4, <3>3, <3>7, <3>8
  <2>5. (n + 2) + 1 = n + 3
    OBVIOUS
  <2> QED BY <1>5, <1>6, <2>1, <2>2, <2>3, <2>4 DEF Follows
<1> HIDE DEF h
<1>9. n + 2 \in 1 .. 16 /\ program = Laid(name, "M3", code)
  OBVIOUS
<1>10. /\ program.end = h[(n + 2) + 1]
       /\ \A i \in 1 .. n + 2 : r[PC] = h[i] => Ins = code[i] /\ Fetched /\ ~Done
       /\ r[PC] = h[(n + 2) + 1] => Done /\ ~Fetched
  BY <1>8, <1>9, FollowsIs
<1>11. At(0, first) /\ At(g[n + 1] + 2, last) /\ Ending(g[n + 1] + 2 + Bytes(last))
  <2>1. 1 \in 1 .. n + 2 /\ n + 2 \in 1 .. n + 2 /\ n + 1 \in 1 .. n + 1 /\ (n + 1) + 1 = n + 2 /\ (n + 2) + 1 = n + 3
    OBVIOUS
  <2>2. h[n + 2] = g[n + 1] + 2
    BY <1>6, <2>1
  <2> QED BY <1>5, <1>6, <1>10, <2>1, <2>2, Zenon DEF At, Ending
<1>12. ASSUME NEW i \in 1 .. n PROVE At(g[i] + 2, body[i])
  <2>1. i + 1 \in 1 .. n + 2 /\ i \in 1 .. n + 1
    OBVIOUS
  <2> QED BY <1>5, <1>6, <1>10, <2>1, Zenon DEF At
<1> QED BY <1>11, <1>12

(* The lengths of the instructions. *)
LEMMA LoopBytes ==
  /\ Bytes(Mov(4, 0)) = 4 /\ Bytes(Mov(2, 0)) = 4 /\ Bytes(Mov(3, 3)) = 4
  /\ Bytes(Of("CBZ", [rn |-> 1, imm |-> 4])) = 2 /\ Bytes(Of("CBNZ", [rn |-> 1, imm |-> 4])) = 2
  /\ Bytes(DNM("ADD_REG", 4, 4, 0)) = 2 /\ Bytes(DNM("ADD_REG", 2, 2, 0)) = 2
  /\ Bytes(DI("SUB_IMM8", 1, 1)) = 2 /\ Bytes(Copy(2, 4)) = 2
  /\ Bytes(Return) = 2 /\ Bytes(Of("BLX", [rm |-> 3])) = 2
  /\ \A i : Bytes(Jump("B", i)) = 2 /\ Bytes(Jump("T32_BL", i)) = 4
  /\ \A list : Bytes(Many("PUSH", 13, list)) = 2 /\ Bytes(Many("POP", 13, list)) = 2
               /\ \A t \in {"T32_STMDB", "T32_LDMIA", "T32_LDMDB"} : Bytes(Many(t, 13, list)) = 4
  /\ Bytes(DI("SUB_SP_IMM7", 13, 12)) = 2 /\ Bytes(DI("ADD_SP_IMM7", 13, 12)) = 2
  /\ Bytes(DNI("STR_SP", 4, 13, 0)) = 2 /\ Bytes(DNI("LDR_SP", 4, 13, 0)) = 2
  /\ Bytes(DNI("T32_STR_IMM", 14, 13, 8)) = 4 /\ Bytes(DNI("T32_LDR_IMM", 14, 13, 8)) = 4
  /\ Bytes(Post("T32_LDR_PRE_POST", 15, 13, 4)) = 4
<1>1. /\ {"CBZ", "CBNZ", "ADD_REG", "SUB_IMM8", "MOV_HI", "BX", "BLX", "B", "PUSH", "POP",
          "SUB_SP_IMM7", "ADD_SP_IMM7", "STR_SP", "LDR_SP"} \subseteq Narrow
      /\ {"T32_BL", "T32_STMDB", "T32_LDMIA", "T32_LDMDB", "T32_STR_IMM", "T32_LDR_IMM", "T32_LDR_PRE_POST"} \cap Narrow = {}
  BY DEF Narrow, DataProcessingTypes, LoadStoreTypes, AluTable, LoadStoreTable
<1>2. \A t, fields : {"type", "wide"} \cap DOMAIN fields = {} => Of(t, fields).wide = (t \notin Narrow)
  BY DEF Of
<1>3. \A t, fields : {"type", "wide"} \cap DOMAIN fields = {} => Bytes(Of(t, fields)) = IF t \in Narrow THEN 2 ELSE 4
  BY <1>2, Zenon DEF Bytes
<1>4. \A d, i : Bytes(Mov(d, i)) = 4
  BY MovIs DEF Bytes
<1>5. /\ \A t, d, i : Bytes(DI(t, d, i)) = IF t \in Narrow THEN 2 ELSE 4
      /\ \A t, d, n, i : Bytes(DNI(t, d, n, i)) = IF t \in Narrow THEN 2 ELSE 4
      /\ \A t, d, n, m : Bytes(DNM(t, d, n, m)) = IF t \in Narrow THEN 2 ELSE 4
      /\ \A t, n, list : Bytes(Many(t, n, list)) = IF t \in Narrow THEN 2 ELSE 4
      /\ \A t, i : Bytes(Jump(t, i)) = IF t \in Narrow THEN 2 ELSE 4
      /\ \A t, d, n, i : Bytes(Post(t, d, n, i)) = IF t \in Narrow THEN 2 ELSE 4
      /\ \A d, m : Bytes(Copy(d, m)) = IF "MOV_HI" \in Narrow THEN 2 ELSE 4
      /\ \A t, m : Bytes(Of(t, [rm |-> m])) = IF t \in Narrow THEN 2 ELSE 4
      /\ \A t, n, i : Bytes(Of(t, [rn |-> n, imm |-> i])) = IF t \in Narrow THEN 2 ELSE 4
  BY <1>3 DEF DI, DNI, DNM, Many, Jump, Post, Copy
<1> QED BY <1>1, <1>4, <1>5 DEF Return

(* The subroutine lies behind a branch over it and before its call. *)
LEMMA CallIs ==
  ASSUME NEW n \in 1 .. 14, NEW body, NEW g, NEW l, Follows(n, body, g), g[n + 1] = l,
         NEW name, program = Laid(name, "M3", Call(body))
  PROVE  /\ At(0, Jump("B", l - 2)) /\ At(l + 2, Jump("T32_BL", -l - 4)) /\ Ending(l + 6)
         /\ \A i \in 1 .. n : At(g[i] + 2, body[i])
<1>1. Length(body) = l
  BY OffsetsFollow
<1> DEFINE first == Jump("B", l - 2)
           last  == Jump("T32_BL", -l - 4)
           code  == <<first>> \o body \o <<last>>
<1>2. program = Laid(name, "M3", code)
  BY <1>1 DEF Call
<1>3. Bytes(first) = 2 /\ Bytes(last) = 4
  BY LoopBytes
<1> HIDE DEF first, last
<1>4. /\ At(0, first) /\ At(g[n + 1] + 2, last) /\ Ending(g[n + 1] + 2 + Bytes(last))
      /\ \A i \in 1 .. n : At(g[i] + 2, body[i])
  <2>1. Len(body) = n /\ DOMAIN body = 1 .. n
    BY DEF Follows
  <2>2. Encloses(code, n, first, body, last)
    BY <2>1, n \in Nat, EnclosesIs, Zenon
  <2> HIDE DEF code
  <2> QED BY <1>2, <1>3, <2>2, EnclosedIs
<1>5. l \in Nat /\ l + 2 + 4 = l + 6
  <2>1. n + 1 \in 1 .. n + 1 /\ g[n + 1] \in Nat
    BY DEF Follows
  <2> QED BY <2>1
<1> QED BY <1>3, <1>4, <1>5, Zenon DEF first, last

(* A loop between what saves registers and what restores them *)
LEMMA SavedLoopIs ==
  ASSUME NEW p, NEW q, NEW name, program = Laid(name, "M3", Call(<<p>> \o Loop \o <<q>>)),
         NEW b \in {2, 4}, b = Bytes(p), NEW k \in {2, 4}, k = Bytes(q)
  PROVE  /\ At(0, Jump("B", b + 12 + k)) /\ At(2, p) /\ TurningCode(b + 2) /\ At(b + 16, q)
         /\ At(b + 16 + k, Jump("T32_BL", -(b + 14 + k) - 4)) /\ Ending(b + 20 + k)
<1> DEFINE c2 == Mov(4, 0)
           c3 == Of("CBZ", [rn |-> 1, imm |-> 4])
           c4 == DNM("ADD_REG", 4, 4, 0)
           c5 == DI("SUB_IMM8", 1, 1)
           c6 == Jump("B", -10)
           c7 == Copy(2, 4)
           body == <<p>> \o Loop \o <<q>>
           g == <<0, b, b + 4, b + 6, b + 8, b + 10, b + 12, b + 14, b + 14 + k>>
<1>1. Bytes(c2) = 4 /\ Bytes(c3) = 2 /\ Bytes(c4) = 2 /\ Bytes(c5) = 2 /\ Bytes(c6) = 2 /\ Bytes(c7) = 2
  BY LoopBytes
<1>2. Loop = <<c2, c3, c4, c5, c6, c7>>
  BY Zenon DEF Loop
<1> HIDE DEF c2, c3, c4, c5, c6, c7
<1>3. body = (<<p>> \o <<c2, c3, c4, c5, c6, c7>>) \o <<q>>
  BY <1>2, Zenon
<1>4. /\ Len(body) = 8 /\ DOMAIN body = 1 .. 8
      /\ body[1] = p /\ body[2] = c2 /\ body[3] = c3 /\ body[4] = c4
      /\ body[5] = c5 /\ body[6] = c6 /\ body[7] = c7 /\ body[8] = q
  BY <1>3, SMTT(20)
<1> HIDE DEF body
<1>5. g = [i \in 1 .. 8 + 1 |-> g[i]]
  OBVIOUS
<1>6. \A i \in 1 .. 8 + 1 : g[i] \in Nat
  OBVIOUS
<1>7. \A i \in 1 .. 8 : g[i + 1] = g[i] + Bytes(body[i])
  BY <1>1, <1>4
<1>8. \A i, j \in 1 .. 8 + 1 : i < j => g[i] < g[j]
  OBVIOUS
<1>9. Follows(8, body, g) /\ g[8 + 1] = b + 14 + k
  BY <1>4, <1>5, <1>6, <1>7, <1>8 DEF Follows
<1>10. /\ At(0, Jump("B", b + 14 + k - 2)) /\ At(b + 14 + k + 2, Jump("T32_BL", -(b + 14 + k) - 4))
       /\ Ending(b + 14 + k + 6)
       /\ \A i \in 1 .. 8 : At(g[i] + 2, body[i])
  <2>1. program = Laid(name, "M3", Call(body)) /\ 8 \in 1 .. 14
    BY DEF body
  <2> HIDE DEF g
  <2> QED BY <1>9, <2>1, CallIs
<1>11. /\ At(0 + 2, p) /\ At(b + 2, c2) /\ At(b + 4 + 2, c3) /\ At(b + 6 + 2, c4) /\ At(b + 8 + 2, c5)
       /\ At(b + 10 + 2, c6) /\ At(b + 12 + 2, c7) /\ At(b + 14 + 2, q)
  BY <1>4, <1>10
<1>12. /\ b + 14 + k - 2 = b + 12 + k /\ b + 14 + k + 2 = b + 16 + k /\ b + 14 + k + 6 = b + 20 + k
       /\ 0 + 2 = 2 /\ b + 4 + 2 = (b + 2) + 4 /\ b + 6 + 2 = (b + 2) + 6 /\ b + 8 + 2 = (b + 2) + 8
       /\ b + 10 + 2 = (b + 2) + 10 /\ b + 12 + 2 = (b + 2) + 12 /\ b + 14 + 2 = b + 16
  OBVIOUS
<1>13. TurningCode(b + 2)
  BY <1>11, <1>12, Zenon DEF TurningCode, c2, c3, c4, c5, c6, c7
<1> QED BY <1>10, <1>11, <1>12, <1>13

(* The same with two instructions that restore *)
LEMMA TwoEndsIs ==
  ASSUME NEW p, NEW q1, NEW q2, NEW name, program = Laid(name, "M3", Call(<<p>> \o Loop \o <<q1, q2>>)),
         Bytes(p) = 2, NEW k \in {2, 4}, k = Bytes(q1), 6 - k = Bytes(q2)
  PROVE  /\ At(0, Jump("B", 20)) /\ At(2, p) /\ TurningCode(4) /\ At(18, q1) /\ At(18 + k, q2)
         /\ At(24, Jump("T32_BL", -26)) /\ Ending(28)
<1> DEFINE c2 == Mov(4, 0)
           c3 == Of("CBZ", [rn |-> 1, imm |-> 4])
           c4 == DNM("ADD_REG", 4, 4, 0)
           c5 == DI("SUB_IMM8", 1, 1)
           c6 == Jump("B", -10)
           c7 == Copy(2, 4)
           body == <<p>> \o Loop \o <<q1, q2>>
           g == <<0, 2, 6, 8, 10, 12, 14, 16, 16 + k, 22>>
<1>1. Bytes(c2) = 4 /\ Bytes(c3) = 2 /\ Bytes(c4) = 2 /\ Bytes(c5) = 2 /\ Bytes(c6) = 2 /\ Bytes(c7) = 2
  BY LoopBytes
<1>2. Loop = <<c2, c3, c4, c5, c6, c7>>
  BY Zenon DEF Loop
<1> HIDE DEF c2, c3, c4, c5, c6, c7
<1>3. body = (<<p>> \o <<c2, c3, c4, c5, c6, c7>>) \o <<q1, q2>>
  BY <1>2, Zenon
<1>4. /\ Len(body) = 9 /\ DOMAIN body = 1 .. 9
      /\ body[1] = p /\ body[2] = c2 /\ body[3] = c3 /\ body[4] = c4
      /\ body[5] = c5 /\ body[6] = c6 /\ body[7] = c7 /\ body[8] = q1 /\ body[9] = q2
  BY <1>3, SMTT(20)
<1> HIDE DEF body
<1>5. g = [i \in 1 .. 9 + 1 |-> g[i]]
  OBVIOUS
<1>6. \A i \in 1 .. 9 + 1 : g[i] \in Nat
  OBVIOUS
<1>7. \A i \in 1 .. 9 : g[i + 1] = g[i] + Bytes(body[i])
  BY <1>1, <1>4
<1>8. \A i, j \in 1 .. 9 + 1 : i < j => g[i] < g[j]
  OBVIOUS
<1>9. Follows(9, body, g) /\ g[9 + 1] = 22
  BY <1>4, <1>5, <1>6, <1>7, <1>8 DEF Follows
<1>10. /\ At(0, Jump("B", 22 - 2)) /\ At(22 + 2, Jump("T32_BL", -22 - 4)) /\ Ending(22 + 6)
       /\ \A i \in 1 .. 9 : At(g[i] + 2, body[i])
  <2>1. program = Laid(name, "M3", Call(body)) /\ 9 \in 1 .. 14
    BY DEF body
  <2> HIDE DEF g
  <2> QED BY <1>9, <2>1, CallIs
<1>11. /\ At(0 + 2, p) /\ At(2 + 2, c2) /\ At(6 + 2, c3) /\ At(8 + 2, c4) /\ At(10 + 2, c5)
       /\ At(12 + 2, c6) /\ At(14 + 2, c7) /\ At(16 + 2, q1) /\ At(16 + k + 2, q2)
  BY <1>4, <1>10
<1>12. /\ 0 + 2 = 2 /\ 2 + 2 = 4 /\ 6 + 2 = 4 + 4 /\ 8 + 2 = 4 + 6 /\ 10 + 2 = 4 + 8 /\ 12 + 2 = 4 + 10
       /\ 14 + 2 = 4 + 12 /\ 16 + 2 = 18 /\ 16 + k + 2 = 18 + k
       /\ 22 - 2 = 20 /\ 22 + 2 = 24 /\ -22 - 4 = -26 /\ 22 + 6 = 28
  OBVIOUS
<1>13. TurningCode(4)
  BY <1>11, <1>12, Zenon DEF TurningCode, c2, c3, c4, c5, c6, c7
<1> QED BY <1>10, <1>11, <1>12, <1>13

(* The layout of the recursive program. *)
LEMMA RecursiveIs ==
  ASSUME NEW name, program = Laid(name, "M3", CallCode["recursive"])
  PROVE  CallerCode(26) /\ RecursiveCode /\ Ending(26)
<1> DEFINE c1 == Of("CBNZ", [rn |-> 1, imm |-> 4])
           c2 == Mov(2, 0)
           c3 == Return
           c4 == Many("PUSH", 13, {4, 14})
           c5 == DI("SUB_IMM8", 1, 1)
           c6 == Jump("T32_BL", -16)
           c7 == DNM("ADD_REG", 2, 2, 0)
           c8 == Many("POP", 13, {4, 15})
           body == <<c1, c2, c3, c4, c5, c6, c7, c8>>
           g == <<0, 2, 6, 8, 10, 12, 16, 18, 20>>
<1>1. /\ Bytes(c1) = 2 /\ Bytes(c2) = 4 /\ Bytes(c3) = 2 /\ Bytes(c4) = 2 /\ Bytes(c5) = 2
      /\ Bytes(c6) = 4 /\ Bytes(c7) = 2 /\ Bytes(c8) = 2
  BY LoopBytes
<1>2. CallCode["recursive"] = Call(body)
  BY DEF CallCode
<1> HIDE DEF c1, c2, c3, c4, c5, c6, c7, c8
<1>4. /\ Len(body) = 8 /\ DOMAIN body = 1 .. 8
      /\ body[1] = c1 /\ body[2] = c2 /\ body[3] = c3 /\ body[4] = c4
      /\ body[5] = c5 /\ body[6] = c6 /\ body[7] = c7 /\ body[8] = c8
  OBVIOUS
<1> HIDE DEF body
<1>5. g = [i \in 1 .. 8 + 1 |-> g[i]]
  OBVIOUS
<1>6. \A i \in 1 .. 8 + 1 : g[i] \in Nat
  OBVIOUS
<1>7. \A i \in 1 .. 8 : g[i + 1] = g[i] + Bytes(body[i])
  BY <1>1, <1>4
<1>8. \A i, j \in 1 .. 8 + 1 : i < j => g[i] < g[j]
  OBVIOUS
<1>9. Follows(8, body, g) /\ g[8 + 1] = 20
  BY <1>4, <1>5, <1>6, <1>7, <1>8 DEF Follows
<1>10. /\ At(0, Jump("B", 20 - 2)) /\ At(20 + 2, Jump("T32_BL", -20 - 4)) /\ Ending(20 + 6)
       /\ \A i \in 1 .. 8 : At(g[i] + 2, body[i])
  <2>1. program = Laid(name, "M3", Call(body)) /\ 8 \in 1 .. 14
    BY <1>2
  <2> HIDE DEF g
  <2> QED BY <1>9, <2>1, CallIs
<1>11. /\ At(0 + 2, c1) /\ At(2 + 2, c2) /\ At(6 + 2, c3) /\ At(8 + 2, c4) /\ At(10 + 2, c5)
       /\ At(12 + 2, c6) /\ At(16 + 2, c7) /\ At(18 + 2, c8)
  BY <1>4, <1>10
<1>12. /\ 0 + 2 = 2 /\ 2 + 2 = 4 /\ 6 + 2 = 8 /\ 8 + 2 = 10 /\ 10 + 2 = 12 /\ 12 + 2 = 14
       /\ 16 + 2 = 18 /\ 18 + 2 = 20
       /\ 20 - 2 = 18 /\ 20 + 2 = 22 /\ -20 - 4 = -24 /\ 20 + 6 = 26
  OBVIOUS
<1>13. RecursiveCode
  BY <1>11, <1>12, Zenon DEF RecursiveCode, c1, c2, c3, c4, c5, c6, c7, c8
<1>14. CallerCode(26) /\ Ending(26)
  <2>1. 26 - 8 = 18 /\ 26 - 4 = 22 /\ 2 - 26 = -24 /\ 26 # 40
    OBVIOUS
  <2>2. At(0, Jump("B", IF 26 = 40 THEN 30 ELSE 26 - 8)) /\ At(26 - 4, Jump("T32_BL", 2 - 26))
    BY <1>10, <1>12, <2>1
  <2> QED BY <1>10, <1>12, <2>1, <2>2 DEF CallerCode
<1> QED BY <1>13, <1>14

(* The layout of the program that saves with single transfers. *)
LEMMA FrameIs ==
  ASSUME NEW name, program = Laid(name, "M3", CallCode["frame"])
  PROVE  CallerCode(40) /\ FrameCode /\ TurningCode(10) /\ Ending(40)
<1> DEFINE p1 == DI("SUB_SP_IMM7", 13, 12)
           p2 == DNI("STR_SP", 4, 13, 0)
           p3 == DNI("T32_STR_IMM", 14, 13, 8)
           c2 == Mov(4, 0)
           c3 == Of("CBZ", [rn |-> 1, imm |-> 4])
           c4 == DNM("ADD_REG", 4, 4, 0)
           c5 == DI("SUB_IMM8", 1, 1)
           c6 == Jump("B", -10)
           c7 == Copy(2, 4)
           q1 == DNI("LDR_SP", 4, 13, 0)
           q2 == DNI("T32_LDR_IMM", 14, 13, 8)
           q3 == DI("ADD_SP_IMM7", 13, 12)
           q4 == Return
           m == Mov(3, 3)
           last == Of("BLX", [rm |-> 3])
           body == <<p1, p2, p3>> \o Loop \o <<q1, q2, q3, q4>>
           more == body \o <<m>>
           code == <<Jump("B", 30)>> \o body \o <<m, last>>
           g == <<0, 2, 4, 8, 12, 14, 16, 18, 20, 22, 24, 28, 30, 32>>
           h == <<0, 2, 4, 8, 12, 14, 16, 18, 20, 22, 24, 28, 30, 32, 36>>
<1>1. /\ Bytes(p1) = 2 /\ Bytes(p2) = 2 /\ Bytes(p3) = 4
      /\ Bytes(c2) = 4 /\ Bytes(c3) = 2 /\ Bytes(c4) = 2 /\ Bytes(c5) = 2 /\ Bytes(c6) = 2 /\ Bytes(c7) = 2
      /\ Bytes(q1) = 2 /\ Bytes(q2) = 4 /\ Bytes(q3) = 2 /\ Bytes(q4) = 2 /\ Bytes(m) = 4 /\ Bytes(last) = 2
      /\ \A i : Bytes(Jump("B", i)) = 2
  BY LoopBytes
<1>2. Loop = <<c2, c3, c4, c5, c6, c7>>
  BY Zenon DEF Loop
<1>3. CallCode["frame"] = <<Jump("B", Length(body) - 2)>> \o body \o <<m, last>>
  BY DEF CallCode, CallRegister
<1> HIDE DEF p1, p2, p3, c2, c3, c4, c5, c6, c7, q1, q2, q3, q4, m, last
<1>4. body = (<<p1, p2, p3>> \o <<c2, c3, c4, c5, c6, c7>>) \o <<q1, q2, q3, q4>>
  BY <1>2, Zenon
<1>5. /\ Len(body) = 13 /\ DOMAIN body = 1 .. 13
      /\ body[1] = p1 /\ body[2] = p2 /\ body[3] = p3 /\ body[4] = c2 /\ body[5] = c3 /\ body[6] = c4
      /\ body[7] = c5 /\ body[8] = c6 /\ body[9] = c7 /\ body[10] = q1 /\ body[11] = q2 /\ body[12] = q3 /\ body[13] = q4
  BY <1>4
<1> HIDE DEF body
<1>6. Length(body) = 32
  <2>1. g = [i \in 1 .. 13 + 1 |-> g[i]] /\ \A i \in 1 .. 13 + 1 : g[i] \in Nat
    OBVIOUS
  <2>2. \A i \in 1 .. 13 : g[i + 1] = g[i] + Bytes(body[i])
    BY <1>1, <1>5
  <2>3. \A i, j \in 1 .. 13 + 1 : i < j => g[i] < g[j]
    OBVIOUS
  <2>4. Follows(13, body, g) /\ 13 \in 1 .. 16 /\ g[13 + 1] = 32
    BY <1>5, <2>1, <2>2, <2>3 DEF Follows
  <2> HIDE DEF g
  <2> QED BY <2>4, OffsetsFollow
<1>7. /\ Len(more) = 14 /\ DOMAIN more = 1 .. 14
      /\ more[14] = m /\ \A i \in 1 .. 13 : more[i] = body[i]
  <2>1. PICK n \in Nat : n = 13
    OBVIOUS
  <2>2. Len(body) = n /\ DOMAIN body = 1 .. n
    BY <1>5, <2>1
  <2>3. Len(more) = n + 1 /\ DOMAIN more = 1 .. n + 1 /\ more[n + 1] = m /\ \A i \in 1 .. n : more[i] = body[i]
    BY <2>2, EnclosesIs
  <2> QED BY <2>1, <2>3, SMTT(20)
<1>8. Encloses(code, 14, Jump("B", 30), more, last)
  <2>1. PICK n \in Nat : n = 13
    OBVIOUS
  <2>2. Len(body) = n /\ DOMAIN body = 1 .. n
    BY <1>5, <2>1
  <2>3. Encloses(code, n + 1, Jump("B", 30), more, last)
    BY <2>2, EnclosesIs, ZenonT(30)
  <2> QED BY <2>1, <2>3
<1> HIDE DEF more, code
<1>9. Follows(14, more, h) /\ h[14 + 1] = 36
  <2>1. h = [i \in 1 .. 14 + 1 |-> h[i]] /\ \A i \in 1 .. 14 + 1 : h[i] \in Nat
    OBVIOUS
  <2>2. \A i \in 1 .. 14 : h[i + 1] = h[i] + Bytes(more[i])
    BY <1>1, <1>5, <1>7
  <2>3. \A i, j \in 1 .. 14 + 1 : i < j => h[i] < h[j]
    OBVIOUS
  <2> QED BY <1>7, <2>1, <2>2, <2>3 DEF Follows
<1>10. /\ At(0, Jump("B", 30)) /\ At(36 + 2, last) /\ Ending(36 + 2 + 2)
       /\ \A i \in 1 .. 14 : At(h[i] + 2, more[i])
  <2>1. program = Laid(name, "M3", code)
    <3>1. 32 - 2 = 30
      OBVIOUS
    <3> QED BY <1>3, <1>6, <3>1 DEF code
  <2>2. 14 \in 1 .. 14 /\ Bytes(Jump("B", 30)) = 2
    BY <1>1
  <2> HIDE DEF h
  <2>3. /\ At(0, Jump("B", 30)) /\ At(h[14 + 1] + 2, last) /\ Ending(h[14 + 1] + 2 + Bytes(last))
        /\ \A i \in 1 .. 14 : At(h[i] + 2, more[i])
    BY <1>8, <1>9, <2>1, <2>2, EnclosedIs
  <2> QED BY <1>1, <1>9, <2>3
<1>11. /\ At(0 + 2, p1) /\ At(2 + 2, p2) /\ At(4 + 2, p3) /\ At(8 + 2, c2) /\ At(12 + 2, c3) /\ At(14 + 2, c4)
       /\ At(16 + 2, c5) /\ At(18 + 2, c6) /\ At(20 + 2, c7) /\ At(22 + 2, q1) /\ At(24 + 2, q2)
       /\ At(28 + 2, q3) /\ At(30 + 2, q4) /\ At(32 + 2, m)
  BY <1>5, <1>7, <1>10
<1>12. /\ 0 + 2 = 2 /\ 2 + 2 = 4 /\ 4 + 2 = 6 /\ 8 + 2 = 10 /\ 12 + 2 = 10 + 4 /\ 14 + 2 = 10 + 6 /\ 16 + 2 = 10 + 8
       /\ 18 + 2 = 10 + 10 /\ 20 + 2 = 10 + 12 /\ 22 + 2 = 24 /\ 24 + 2 = 26 /\ 28 + 2 = 30 /\ 30 + 2 = 32
       /\ 32 + 2 = 34 /\ 36 + 2 = 38 /\ 38 + 2 = 40
  OBVIOUS
<1>13. TurningCode(10)
  BY <1>11, <1>12, Zenon DEF TurningCode, c2, c3, c4, c5, c6, c7
<1>14. FrameCode
  BY <1>11, <1>12, Zenon DEF FrameCode, p1, p2, p3, q1, q2, q3, q4
<1>15. CallerCode(40) /\ Ending(40)
  BY <1>10, <1>11, <1>12 DEF CallerCode, m, last
<1> QED BY <1>13, <1>14, <1>15

(* The subroutines that save with one instruction at 2 and loop from l on *)
SaverStage(e, l) == Calling(e) \/ Called(e) \/ (Turning(l) /\ Inside(TRUE, e)) \/ Returned(e)
SaverCode(type, e, l) == CallerCode(e) /\ At(2, Many(type, 13, {4, 5, 14})) /\ TurningCode(l) /\ Ending(e)
Settled(e) == (Fetched /\ ~Done) \/ (Done /\ ~Fetched /\ Returned(e))

(* Every stage but the place behind a loop is settled. *)
LEMMA SettledAre ==
  /\ \A e : CallerCode(e) /\ Calling(e) => Settled(e)
  /\ \A e : Ending(e) /\ Returned(e) => Settled(e)
  /\ \A e, a, ins : At(a, ins) /\ r[PC] = a => Settled(e)
  /\ \A e, l : TurningCode(l) /\ Turning(l) => r[PC] = l + 14 \/ Settled(e)
  /\ \A e : FrameCode /\ FrameStage => Settled(e)
  /\ \A e : RecursiveCode /\ RecursiveStage => Settled(e)
<1>1. \A e : CallerCode(e) /\ Calling(e) => Settled(e)
  BY DEF CallerCode, Calling, At, Settled
<1>2. \A e : Ending(e) /\ Returned(e) => Settled(e)
  BY DEF Ending, Returned, Settled
<1>3. \A e, a, ins : At(a, ins) /\ r[PC] = a => Settled(e)
  BY DEF At, Settled
<1>4. \A e, l : TurningCode(l) /\ Turning(l) => r[PC] = l + 14 \/ Settled(e)
  BY <1>3 DEF TurningCode, Turning
<1>5. \A e : FrameCode /\ FrameStage => Settled(e)
  BY DEF FrameCode, FrameStage, Called, At, Settled
<1>6. \A e : RecursiveCode /\ RecursiveStage => Settled(e)
  BY <1>3 DEF RecursiveCode, RecursiveStage
<1> QED BY <1>1, <1>2, <1>3, <1>4, <1>5, <1>6

(* The same of the subroutines that save with one instruction. *)
LEMMA SaverSettled ==
  ASSUME NEW e, NEW type, NEW l, SaverCode(type, e, l), SaverStage(e, l), r[PC] # l + 14
  PROVE  Settled(e)
<1>1. CallerCode(e) /\ At(2, Many(type, 13, {4, 5, 14})) /\ TurningCode(l) /\ Ending(e)
  BY DEF SaverCode
<1>2. CASE Calling(e)
  BY <1>1, <1>2, SettledAre, Zenon
<1>3. CASE Called(e)
  <2>1. r[PC] = 2
    BY <1>3 DEF Called
  <2> QED BY <1>1, <2>1, SettledAre, Zenon
<1>4. CASE Turning(l)
  BY <1>1, <1>4, SettledAre, Zenon
<1>5. CASE Returned(e)
  BY <1>1, <1>5, SettledAre, Zenon
<1> QED BY <1>2, <1>3, <1>4, <1>5, Zenon DEF SaverStage

(* A step of such a program, except behind its loop. *)
LEMMA SaverStep ==
  ASSUME Next, CallBase, NEW e \in Ends, NEW type \in {"PUSH", "T32_STMDB"}, NEW l, l = IF type = "PUSH" THEN 4 ELSE 6,
         SaverCode(type, e, l), SaverStage(e, l), r[PC] # l + 14
  PROVE  CallBase' /\ SaverStage(e, l)'
<1>1. CallerCode(e) /\ At(2, Many(type, 13, {4, 5, 14})) /\ TurningCode(l) /\ Ending(e) /\ l \in {4, 6, 10}
  BY DEF SaverCode
<1>2. CASE Calling(e)
  BY <1>1, <1>2, CallingStep DEF SaverStage
<1>3. CASE Called(e)
  <2>1. Ins = Many(type, 13, {4, 5, 14})
    BY <1>1, <1>3 DEF Called, At
  <2>2. CallBase' /\ Inside(TRUE, e)' /\ r'[1] = y' /\ r'[PC] = l
    BY <1>3, <2>1, PushedStep
  <2> QED BY <2>2 DEF SaverStage, Turning
<1>4. CASE Turning(l) /\ Inside(TRUE, e)
  <2>1. CallBase' /\ Turning(l)' /\ mem' = mem /\ r'[SP] = r[SP]
    BY <1>1, <1>4, LoopStep
  <2>2. Inside(TRUE, e)'
    BY <1>4, <2>1, Zenon DEF Inside, Saved
  <2> QED BY <2>1, <2>2 DEF SaverStage
<1>5. ~Returned(e)
  BY <1>1, StepIs DEF Returned, Ending
<1> QED BY <1>2, <1>3, <1>4, <1>5 DEF SaverStage

(* Behind the loop R2 is the product and the stack is as saved. *)
LEMMA BehindLoop ==
  ASSUME NEW e \in {24, 28}, NEW l \in {4, 6}, l = 6 => e = 28, SaverStage(e, l), r[PC] = l + 14
  PROVE  Multiplied(TRUE, e)
<1>1. ~Calling(e) /\ ~Called(e) /\ ~Returned(e)
  BY DEF Calling, Called, Returned
<1>2. Turning(l) /\ Inside(TRUE, e)
  BY <1>1 DEF SaverStage
<1>3. r[2] = Low(x * y)
  BY <1>2 DEF Turning
<1> QED BY <1>2, <1>3 DEF Multiplied

(* One instruction restores everything. *)
LEMMA PopStep ==
  ASSUME NEW e \in {24, 28}, NEW save \in {"PUSH", "T32_STMDB"}, NEW restore \in {"POP", "T32_LDMIA", "T32_LDMDB"},
         NEW l, l = IF save = "PUSH" THEN 4 ELSE 6, l = 6 => e = 28,
         SaverCode(save, e, l), At(l + 14, Many(restore, 13, {4, 5, 15})), SaverStage(e, l)
  PROVE  Settled(e) /\ (Next /\ CallBase => CallBase' /\ SaverStage(e, l)')
<1>1. l \in {4, 6} /\ e \in Ends
  BY DEF Ends
<1>2. Settled(e)
  <2>1. r[PC] = l + 14 => Settled(e)
    BY SettledAre, Zenon
  <2> QED BY <2>1, SaverSettled, Zenon
<1>3. ASSUME Next, CallBase, r[PC] = l + 14 PROVE CallBase' /\ SaverStage(e, l)'
  <2>1. Multiplied(TRUE, e) /\ Ins = Many(restore, 13, {4, 5, 15})
    BY <1>1, <1>3, BehindLoop DEF At
  <2>2. CallBase' /\ Restored' /\ r'[PC] = e
    <3>1. PICK k \in {14, 15} : k = 15
      OBVIOUS
    <3>2. Ins = Many(restore, 13, {4, 5, k})
      BY <2>1, <3>1
    <3>3. CallBase' /\ Restored' /\ IF k = 15 THEN r'[PC] = e ELSE r'[LR] = e + 1 /\ r'[PC] = Low(r[PC] + IF restore = "POP" THEN 2 ELSE 4)
      BY <1>1, <1>3, <2>1, <3>1, <3>2, PoppedStep, Zenon
    <3> QED BY <3>1, <3>3
  <2> QED BY <2>2 DEF SaverStage, Returned
<1> QED BY <1>1, <1>2, <1>3, SaverStep

(* The program that restores LR and returns with BX. *)
LEMMA BxStep ==
  ASSUME SaverCode("PUSH", 28, 4), At(18, Many("T32_LDMIA", 13, {4, 5, 14})), At(22, Return),
         SaverStage(28, 4) \/ (r[PC] = 22 /\ Restored /\ r[LR] = 29)
  PROVE  /\ Settled(28)
         /\ Next /\ CallBase => CallBase' /\ (SaverStage(28, 4) \/ (r[PC] = 22 /\ Restored /\ r[LR] = 29))'
<1>1. 28 \in {24, 28} /\ 28 \in Ends /\ 4 \in {4, 6} /\ 4 + 14 = 18 /\ 28 + 1 = 29
  BY DEF Ends
<1>2. Settled(28)
  <2>1. r[PC] \in {18, 22} => Settled(28)
    BY SettledAre, Zenon
  <2>2. SaverStage(28, 4) /\ r[PC] # 18 => Settled(28)
    BY <1>1, SaverSettled
  <2> QED BY <2>1, <2>2
<1>3. ASSUME Next, CallBase, SaverStage(28, 4), r[PC] = 18
      PROVE  CallBase' /\ (r[PC] = 22 /\ Restored /\ r[LR] = 29)'
  <2>1. Multiplied(TRUE, 28) /\ Ins = Many("T32_LDMIA", 13, {4, 5, 14})
    BY <1>1, <1>3, BehindLoop DEF At
  <2>2. PICK k \in {14, 15} : k = 14
    OBVIOUS
  <2>3. "T32_LDMIA" \in {"POP", "T32_LDMIA", "T32_LDMDB"} /\ "T32_LDMIA" # "T32_LDMDB" /\ "T32_LDMIA" # "POP" /\ k # 15
    BY <2>2
  <2>4. Ins = Many("T32_LDMIA", 13, {4, 5, k})
    BY <2>1, <2>2
  <2>5. CallBase' /\ Restored' /\ IF k = 15 THEN r'[PC] = 28
          ELSE r'[LR] = 28 + 1 /\ r'[PC] = Low(r[PC] + IF "T32_LDMIA" = "POP" THEN 2 ELSE 4)
    BY <1>1, <1>3, <2>1, <2>3, <2>4, PoppedStep
  <2>6. Low(18 + 4) = 22
    <3>1. 18 + 4 = 22 /\ 22 \in 0 .. 204
      OBVIOUS
    <3> QED BY <3>1, SmallIs
  <2> QED BY <1>1, <1>3, <2>3, <2>5, <2>6
<1>4. ASSUME Next, CallBase, r[PC] = 22, Restored, r[LR] = 29 PROVE CallBase' /\ SaverStage(28, 4)'
  <2>1. Ins = Return /\ r[LR] = 28 + 1
    BY <1>4 DEF At
  <2> QED BY <1>1, <1>4, <2>1, ReturnStep DEF SaverStage
<1>5. ASSUME Next, CallBase, SaverStage(28, 4), r[PC] # 18 PROVE CallBase' /\ SaverStage(28, 4)'
  BY <1>1, <1>5, SaverStep
<1> QED BY <1>2, <1>3, <1>4, <1>5

(* The program that returns with a load of PC. *)
LEMMA LdrStep ==
  ASSUME SaverCode("PUSH", 28, 4), At(18, Many("POP", 13, {4, 5})), At(20, Post("T32_LDR_PRE_POST", 15, 13, 4)),
         SaverStage(28, 4) \/ (r[PC] = 20 /\ Popped(28))
  PROVE  /\ Settled(28)
         /\ Next /\ CallBase => CallBase' /\ (SaverStage(28, 4) \/ (r[PC] = 20 /\ Popped(28)))'
<1>1. 28 \in {24, 28} /\ 28 \in Ends /\ 4 \in {4, 6} /\ 4 + 14 = 18
  BY DEF Ends
<1>2. Settled(28)
  <2>1. r[PC] \in {18, 20} => Settled(28)
    BY SettledAre, Zenon
  <2>2. SaverStage(28, 4) /\ r[PC] # 18 => Settled(28)
    BY <1>1, SaverSettled
  <2> QED BY <2>1, <2>2
<1>3. ASSUME Next, CallBase, SaverStage(28, 4), r[PC] = 18 PROVE CallBase' /\ (r[PC] = 20 /\ Popped(28))'
  <2>1. Multiplied(TRUE, 28) /\ Ins = Many("POP", 13, {4, 5})
    BY <1>1, <1>3, BehindLoop DEF At
  <2>2. Low(18 + 2) = 20
    <3>1. 18 + 2 = 20 /\ 20 \in 0 .. 204
      OBVIOUS
    <3> QED BY <3>1, SmallIs
  <2> QED BY <1>1, <1>3, <2>1, <2>2, HalfPoppedStep
<1>4. ASSUME Next, CallBase, r[PC] = 20, Popped(28) PROVE CallBase' /\ SaverStage(28, 4)'
  <2>1. Ins = Post("T32_LDR_PRE_POST", 15, 13, 4)
    BY <1>4 DEF At
  <2> QED BY <1>1, <1>4, <2>1, LoadedPcStep DEF SaverStage
<1>5. ASSUME Next, CallBase, SaverStage(28, 4), r[PC] # 18 PROVE CallBase' /\ SaverStage(28, 4)'
  BY <1>1, <1>5, SaverStep
<1> QED BY <1>2, <1>3, <1>4, <1>5

FramedStage == Calling(40) \/ FrameStage \/ (Turning(10) /\ Inside(FALSE, 40)) \/ Returned(40)

(* The program that saves with single transfers. *)
LEMMA FramedStep ==
  ASSUME CallerCode(40), FrameCode, TurningCode(10), Ending(40), FramedStage
  PROVE  Settled(40) /\ (Next /\ CallBase => CallBase' /\ FramedStage')
<1>1. 40 \in Ends /\ 10 + 14 = 24 /\ 10 \in {4, 6, 10}
  BY DEF Ends
<1>2. ASSUME Turning(10), Inside(FALSE, 40), r[PC] = 24 PROVE FrameStage
  <2>1. r[2] = Low(x * y)
    BY <1>2 DEF Turning
  <2> QED BY <1>2, <2>1 DEF FrameStage, Multiplied
<1>3. Settled(40)
  BY <1>1, <1>2, SettledAre, Zenon DEF FramedStage
<1>4. ASSUME Next, CallBase, Calling(40) PROVE CallBase' /\ FramedStage'
  <2>1. CallBase' /\ (Calling(40)' \/ Called(40)')
    BY <1>1, <1>4, CallingStep
  <2> QED BY <2>1 DEF FramedStage, FrameStage
<1>5. ASSUME Next, CallBase, FrameStage PROVE CallBase' /\ FramedStage'
  <2>1. /\ CallBase'
        /\ \/ FrameStage'
           \/ r'[PC] = 10 /\ r'[1] = y' /\ Inside(FALSE, 40)'
           \/ Returned(40)'
    BY <1>5, FrameStageStep
  <2> QED BY <2>1 DEF FramedStage, Turning
<1>6. ASSUME Next, CallBase, Turning(10), Inside(FALSE, 40), r[PC] # 24 PROVE CallBase' /\ FramedStage'
  <2>1. CallBase' /\ Turning(10)' /\ mem' = mem /\ r'[SP] = r[SP]
    BY <1>1, <1>6, LoopStep
  <2>2. Inside(FALSE, 40)'
    BY <1>6, <2>1, Zenon DEF Inside, Saved
  <2> QED BY <2>1, <2>2 DEF FramedStage
<1>7. Next => ~Returned(40)
  BY StepIs DEF Returned, Ending
<1> QED BY <1>2, <1>3, <1>4, <1>5, <1>6, <1>7 DEF FramedStage

RecursingStage == Calling(26) \/ RecursiveStage \/ Returned(26)

(* The recursive program. *)
LEMMA RecursingStep ==
  ASSUME CallerCode(26), RecursiveCode, Ending(26), RecursingStage
  PROVE  Settled(26) /\ (Next /\ CallBase /\ 8 * y <= 32 => CallBase' /\ RecursingStage')
<1>1. 26 \in Ends
  BY DEF Ends
<1>2. Settled(26)
  BY SettledAre, Zenon DEF RecursingStage
<1>3. ASSUME Next, CallBase, Calling(26) PROVE CallBase' /\ RecursingStage'
  <2>1. CallBase' /\ (Calling(26)' \/ Called(26)')
    BY <1>1, <1>3, CallingStep
  <2>2. Called(26)' => RecursiveStage'
    <3> SUFFICES ASSUME CallBase', Called(26)' PROVE RecursiveStage'
      BY <2>1
    <3>1. y' \in Nat /\ StackTop \in Int
      BY StackIs, Sizes DEF CallBase
    <3>2. 0 \in 0 .. y' /\ y' - 0 = y' /\ StackTop - 8 * 0 = StackTop /\ 1 .. 0 = {} /\ 26 + 1 = 27
      <4>1. PICK n \in Nat, s \in Int : n = y' /\ s = StackTop
        BY <3>1
      <4>2. 0 \in 0 .. n /\ n - 0 = n /\ s - 8 * 0 = s /\ 1 .. 0 = {} /\ 26 + 1 = 27
        OBVIOUS
      <4> QED BY <4>1, <4>2
    <3>3. Deep(0)' /\ r'[LR] = Back(0) /\ r'[PC] = 2 /\ r'[1] = y' - 0
      BY <3>2 DEF Called, Deep, Frames, Back
    <3> QED BY <3>2, <3>3 DEF RecursiveStage
  <2> QED BY <2>1, <2>2 DEF RecursingStage
<1>4. ASSUME Next, CallBase, 8 * y <= 32, RecursiveStage PROVE CallBase' /\ RecursingStage'
  BY <1>4, RecursiveStageStep DEF RecursingStage
<1>5. Next => ~Returned(26)
  BY StepIs DEF Returned, Ending
<1> QED BY <1>2, <1>3, <1>4, <1>5 DEF RecursingStage

(* Every program of the group *)
CallLaid(v) ==
  /\ v = "pop" => SaverCode("PUSH", 24, 4) /\ At(18, Many("POP", 13, {4, 5, 15}))
  /\ v = "ldm" => SaverCode("T32_STMDB", 28, 6) /\ At(20, Many("T32_LDMIA", 13, {4, 5, 15}))
  /\ v = "ldmdb" => SaverCode("T32_STMDB", 28, 6) /\ At(20, Many("T32_LDMDB", 13, {4, 5, 15}))
  /\ v = "bx" => SaverCode("PUSH", 28, 4) /\ At(18, Many("T32_LDMIA", 13, {4, 5, 14})) /\ At(22, Return)
  /\ v = "ldr" => SaverCode("PUSH", 28, 4) /\ At(18, Many("POP", 13, {4, 5})) /\ At(20, Post("T32_LDR_PRE_POST", 15, 13, 4))
  /\ v = "frame" => CallerCode(40) /\ FrameCode /\ TurningCode(10) /\ Ending(40)
  /\ v = "recursive" => CallerCode(26) /\ RecursiveCode /\ Ending(26)

CallStage(v) ==
  /\ v = "pop" => SaverStage(24, 4)
  /\ v \in {"ldm", "ldmdb"} => SaverStage(28, 6)
  /\ v = "bx" => SaverStage(28, 4) \/ (r[PC] = 22 /\ Restored /\ r[LR] = 29)
  /\ v = "ldr" => SaverStage(28, 4) \/ (r[PC] = 20 /\ Popped(28))
  /\ v = "frame" => FramedStage
  /\ v = "recursive" => RecursingStage /\ 8 * y <= 32

CallInv == Group = "call" => CallBase /\ CallStage(Variant)

(* Its programs by name. *)
LEMMA CallVariants == DOMAIN CallCode = {"pop", "bx", "ldm", "ldmdb", "ldr", "frame", "recursive"}
BY DEF CallCode

(* Every step of a program leads from one of its stages to the next. *)
LEMMA CallStageStep ==
  ASSUME NEW v \in DOMAIN CallCode, CallLaid(v), CallStage(v)
  PROVE  /\ \E e : Settled(e)
         /\ Next /\ CallBase => CallBase' /\ CallStage(v)'
<1>0. y' = y \/ ~Next
  BY ProgramStays DEF y
<1>1. CASE v = "pop"
  <2>1. 24 \in {24, 28} /\ 4 + 14 = 18
    OBVIOUS
  <2>2. Settled(24) /\ (Next /\ CallBase => CallBase' /\ SaverStage(24, 4)')
    BY <1>1, <2>1, PopStep DEF CallLaid, CallStage
  <2> QED BY <1>1, <2>2 DEF CallStage
<1>2. CASE v \in {"ldm", "ldmdb"}
  <2>1. PICK restore \in {"POP", "T32_LDMIA", "T32_LDMDB"} : At(20, Many(restore, 13, {4, 5, 15}))
    BY <1>2 DEF CallLaid
  <2>2. 28 \in {24, 28} /\ 6 + 14 = 20 /\ SaverCode("T32_STMDB", 28, 6) /\ SaverStage(28, 6)
    BY <1>2 DEF CallLaid, CallStage
  <2>3. Settled(28) /\ (Next /\ CallBase => CallBase' /\ SaverStage(28, 6)')
    BY <2>1, <2>2, PopStep
  <2> QED BY <1>2, <2>3 DEF CallStage
<1>3. CASE v = "bx"
  BY <1>3, BxStep DEF CallLaid, CallStage
<1>4. CASE v = "ldr"
  BY <1>4, LdrStep DEF CallLaid, CallStage
<1>5. CASE v = "frame"
  BY <1>5, FramedStep DEF CallLaid, CallStage
<1>6. CASE v = "recursive"
  BY <1>0, <1>6, RecursingStep DEF CallLaid, CallStage
<1> QED BY <1>1, <1>2, <1>3, <1>4, <1>5, <1>6, CallVariants

(* The programs of the group are those laid out here, and the one of recursion is bounded. *)
LEMMA CallPlaced ==
  ASSUME IsNamed, Group = "call"
  PROVE  /\ Variant \in DOMAIN CallCode /\ CallLaid(Variant)
         /\ Variant = "recursive" => program.name = <<"call", "recursive", 0, 0>>
<1>1. program.name[2] \in DOMAIN CallCode /\ program = Laid(program.name, "M3", CallCode[Variant])
  BY NameIs DEF IsNamed, Group, Variant
<1>2. Variant = "recursive" => program.name = <<"call", "recursive", 0, 0>>
  <2>1. program.name \in CallNames
    BY NameIs DEF IsNamed, Group
  <2> QED BY <2>1 DEF CallNames, Variant
<1>3. PICK v \in DOMAIN CallCode : v = Variant
  BY <1>1 DEF Variant
<1>4. program = Laid(program.name, "M3", CallCode[v])
  BY <1>1, <1>3
<1>5. /\ 2 + 12 + 2 = 16 /\ 2 + 2 = 4 /\ 2 + 16 = 18 /\ 2 + 16 + 2 = 20 /\ -(2 + 14 + 2) - 4 = -22 /\ 2 + 20 + 2 = 24
      /\ 4 + 12 + 4 = 20 /\ 4 + 2 = 6 /\ 4 + 16 = 20 /\ 4 + 16 + 4 = 24 /\ -(4 + 14 + 4) - 4 = -26 /\ 4 + 20 + 4 = 28
      /\ 24 - 8 = 16 /\ 24 - 4 = 20 /\ 2 - 24 = -22 /\ 28 - 8 = 20 /\ 28 - 4 = 24 /\ 2 - 28 = -26
  OBVIOUS
<1>6. ASSUME v = "pop" PROVE SaverCode("PUSH", 24, 4) /\ At(18, Many("POP", 13, {4, 5, 15}))
  <2> DEFINE p == Many("PUSH", 13, {4, 5, 14})
             q == Many("POP", 13, {4, 5, 15})
  <2>1. CallCode[v] = Call(<<p>> \o Loop \o <<q>>)
    BY <1>6 DEF CallCode, Push
  <2>2. PICK b \in {2, 4}, k \in {2, 4} : b = 2 /\ k = 2 /\ b = Bytes(p) /\ k = Bytes(q)
    BY LoopBytes
  <2> HIDE DEF p, q
  <2>3. /\ At(0, Jump("B", b + 12 + k)) /\ At(2, p) /\ TurningCode(b + 2) /\ At(b + 16, q)
        /\ At(b + 16 + k, Jump("T32_BL", -(b + 14 + k) - 4)) /\ Ending(b + 20 + k)
    BY <1>4, <2>1, <2>2, SavedLoopIs, Zenon
  <2>4. CallerCode(24)
    BY <1>5, <2>2, <2>3 DEF CallerCode
  <2>5. At(2, p) /\ TurningCode(4) /\ At(18, q) /\ Ending(24)
    BY <1>5, <2>2, <2>3
  <2> QED BY <2>4, <2>5 DEF SaverCode, p, q
<1>7. ASSUME v \in {"ldm", "ldmdb"}, NEW restore, restore = IF v = "ldm" THEN "T32_LDMIA" ELSE "T32_LDMDB"
      PROVE  SaverCode("T32_STMDB", 28, 6) /\ At(20, Many(restore, 13, {4, 5, 15}))
  <2> DEFINE p == Many("T32_STMDB", 13, {4, 5, 14})
             q == Many(restore, 13, {4, 5, 15})
  <2>1. CallCode[v] = Call(<<p>> \o Loop \o <<q>>)
    BY <1>7 DEF CallCode
  <2>2. PICK b \in {2, 4}, k \in {2, 4} : b = 4 /\ k = 4 /\ b = Bytes(p) /\ k = Bytes(q)
    <3>1. restore \in {"T32_STMDB", "T32_LDMIA", "T32_LDMDB"}
      BY <1>7
    <3> QED BY <3>1, LoopBytes
  <2> HIDE DEF p, q
  <2>3. /\ At(0, Jump("B", b + 12 + k)) /\ At(2, p) /\ TurningCode(b + 2) /\ At(b + 16, q)
        /\ At(b + 16 + k, Jump("T32_BL", -(b + 14 + k) - 4)) /\ Ending(b + 20 + k)
    BY <1>4, <2>1, <2>2, SavedLoopIs, Zenon
  <2>4. CallerCode(28)
    BY <1>5, <2>2, <2>3 DEF CallerCode
  <2>5. At(2, p) /\ TurningCode(6) /\ At(20, q) /\ Ending(28)
    BY <1>5, <2>2, <2>3
  <2> QED BY <2>4, <2>5 DEF SaverCode, p, q
<1>8. ASSUME v = "bx"
      PROVE  SaverCode("PUSH", 28, 4) /\ At(18, Many("T32_LDMIA", 13, {4, 5, 14})) /\ At(22, Return)
  <2> DEFINE p  == Many("PUSH", 13, {4, 5, 14})
             q1 == Many("T32_LDMIA", 13, {4, 5, 14})
             q2 == Return
  <2>1. CallCode[v] = Call(<<p>> \o Loop \o <<q1, q2>>)
    BY <1>8 DEF CallCode, Push
  <2>2. PICK k \in {2, 4} : k = 4 /\ Bytes(p) = 2 /\ k = Bytes(q1) /\ 6 - k = Bytes(q2)
    BY LoopBytes
  <2> HIDE DEF p, q1, q2
  <2>3. /\ At(0, Jump("B", 20)) /\ At(2, p) /\ TurningCode(4) /\ At(18, q1) /\ At(18 + k, q2)
        /\ At(24, Jump("T32_BL", -26)) /\ Ending(28)
    BY <1>4, <2>1, <2>2, TwoEndsIs, Zenon
  <2>4. CallerCode(28) /\ 18 + k = 22
    BY <1>5, <2>2, <2>3 DEF CallerCode
  <2> QED BY <2>3, <2>4 DEF SaverCode, p, q1, q2
<1>9. ASSUME v = "ldr"
      PROVE  /\ SaverCode("PUSH", 28, 4) /\ At(18, Many("POP", 13, {4, 5}))
             /\ At(20, Post("T32_LDR_PRE_POST", 15, 13, 4))
  <2> DEFINE p  == Many("PUSH", 13, {4, 5, 14})
             q1 == Many("POP", 13, {4, 5})
             q2 == Post("T32_LDR_PRE_POST", 15, 13, 4)
  <2>1. CallCode[v] = Call(<<p>> \o Loop \o <<q1, q2>>)
    BY <1>9 DEF CallCode, Push
  <2>2. PICK k \in {2, 4} : k = 2 /\ Bytes(p) = 2 /\ k = Bytes(q1) /\ 6 - k = Bytes(q2)
    BY LoopBytes
  <2> HIDE DEF p, q1, q2
  <2>3. /\ At(0, Jump("B", 20)) /\ At(2, p) /\ TurningCode(4) /\ At(18, q1) /\ At(18 + k, q2)
        /\ At(24, Jump("T32_BL", -26)) /\ Ending(28)
    BY <1>4, <2>1, <2>2, TwoEndsIs, Zenon
  <2>4. CallerCode(28) /\ 18 + k = 20
    BY <1>5, <2>2, <2>3 DEF CallerCode
  <2> QED BY <2>3, <2>4 DEF SaverCode, p, q1, q2
<1>10. v = "frame" => CallerCode(40) /\ FrameCode /\ TurningCode(10) /\ Ending(40)
  BY <1>4, FrameIs, Zenon
<1>11. v = "recursive" => CallerCode(26) /\ RecursiveCode /\ Ending(26)
  BY <1>4, RecursiveIs, Zenon
<1>12. CallLaid(v)
  <2>1. v = "ldm" => At(20, Many("T32_LDMIA", 13, {4, 5, 15}))
    BY <1>7
  <2>2. v = "ldmdb" => At(20, Many("T32_LDMDB", 13, {4, 5, 15}))
    BY <1>7
  <2>3. v \in {"ldm", "ldmdb"} => SaverCode("T32_STMDB", 28, 6)
    BY <1>7, Zenon
  <2> QED BY <1>6, <1>8, <1>9, <1>10, <1>11, <2>1, <2>2, <2>3, Zenon DEF CallLaid
<1> QED BY <1>1, <1>2, <1>3, <1>12 DEF Variant

(***************************************************************************)
(* Calls nest and return: with every pair of prologue and epilogue of      *)
(* execute_load_store_multiple, execute_t32_multiple_load_store and the    *)
(* single transfers, a subroutine that loops or calls itself comes back    *)
(* behind its call with SP and the registers it saved as they were, memory *)
(* below its stack untouched and R2 their product, and no step leaves the  *)
(* code: for words of every length and all operands.                       *)
(***************************************************************************)
THEOREM CallsReturnCorrect == Spec => []CallsReturn
<1> DEFINE Named == Group = "call" => IsNamed
<1>1. Init => Named /\ CallInv
  <2> SUFFICES ASSUME Init, Group = "call" PROVE IsNamed /\ CallBase /\ CallStage(Variant)
    BY Zenon DEF CallInv
  <2>1. IsNamed
    BY Initially, Zenon DEF IsNamed
  <2>2. /\ Ready /\ x \in Word /\ y \in Word
        /\ r[PC] = 0 /\ it = NoIt /\ r[0] = x /\ r[1] = y
        /\ \A i \in 2 .. 12 : r[i] = 17 * i
        /\ r[SP] = StackTop /\ mem = InitialMem
    BY Initially DEF InitialRegister
  <2>3. CallBase
    BY <2>2 DEF CallBase, Outside, Untouched
  <2>4. \A e : Calling(e)
    BY <2>2 DEF Calling
  <2>5. Variant = "recursive" => 8 * y <= 32
    <3>1. Variant = "recursive" => start \in Starts(<<"call", "recursive", 0, 0>>)
      BY <2>1, CallPlaced DEF Init
    <3> QED BY <3>1, CallsAssumption DEF y
  <2> QED BY <2>1, <2>3, <2>4, <2>5 DEF CallStage, SaverStage, FramedStage, RecursingStage
<1>2. Named /\ CallInv /\ [Next]_vars => Named' /\ CallInv'
  <2> SUFFICES ASSUME Named, CallInv, [Next]_vars, Group' = "call" PROVE Named' /\ CallBase' /\ CallStage(Variant)'
    BY Zenon DEF CallInv
  <2>1. program' = program /\ start' = start
    BY ProgramStays DEF vars
  <2>2. Group = "call" /\ IsNamed /\ Named' /\ Variant' = Variant
    BY <2>1, Zenon DEF Group, IsNamed, Variant
  <2>3. PICK v : v = Variant
    OBVIOUS
  <2>4. v \in DOMAIN CallCode /\ CallLaid(v) /\ CallStage(v) /\ CallBase
    BY <2>2, <2>3, CallPlaced, Zenon DEF CallInv
  <2>5. CallBase' /\ CallStage(v)'
    <3>1. CASE Next
      BY <2>4, <3>1, CallStageStep, Zenon
    <3>2. CASE UNCHANGED vars
      <4>1. CallBase'
        BY <2>4, <3>2, Zenon DEF vars, CallBase, Outside, Ready, Untouched, x, y
      <4>2. UNCHANGED <<r, mem, start>>
        BY <3>2 DEF vars
      <4>3. UNCHANGED <<x, y, Restored>>
        BY <4>2, Zenon DEF Restored, x, y
      <4>4. \A e : UNCHANGED <<Calling(e), Called(e), Returned(e), Popped(e)>>
        BY <4>2, <4>3, Zenon DEF Calling, Called, Returned, Popped
      <4>5. \A l : UNCHANGED Turning(l)
        BY <4>2, <4>3, ZenonT(30) DEF Turning
      <4>6. \A five, e : UNCHANGED Inside(five, e)
        BY <4>2, Zenon DEF Inside, Saved
      <4>7. \A e, l : UNCHANGED SaverStage(e, l)
        BY <4>4, <4>5, <4>6, Zenon DEF SaverStage
      <4>8. UNCHANGED FramedStage
        <5>1. UNCHANGED FrameStage
          BY <4>2, <4>3, <4>4, <4>6, Zenon DEF FrameStage, Multiplied
        <5> QED BY <4>4, <4>5, <4>6, <5>1, Zenon DEF FramedStage
      <4>9. UNCHANGED RecursingStage
        <5>1. UNCHANGED RecursiveStage
          BY <4>2, <4>3, Zenon DEF RecursiveStage, Deep
        <5> QED BY <4>4, <5>1, Zenon DEF RecursingStage
      <4> QED BY <2>4, <4>1, <4>2, <4>3, <4>4, <4>7, <4>8, <4>9, Zenon DEF CallStage
    <3> QED BY <3>1, <3>2
  <2> QED BY <2>2, <2>3, <2>5, Zenon
<1>3. Named /\ CallInv => CallsReturn
  <2> SUFFICES ASSUME IsNamed, CallBase, CallStage(Variant), Group = "call" PROVE CallsReturn
    BY Zenon DEF CallInv, CallsReturn
  <2>1. PICK e : Settled(e)
    BY CallPlaced, CallStageStep, Zenon
  <2>2. Fetched \/ Done
    BY <2>1 DEF Settled
  <2>3. Done => r[2] = Low(x * y) /\ r[4] = 17 * 4 /\ r[SP] = StackTop
    <3>1. 17 * 4 = 68
      OBVIOUS
    <3> QED BY <2>1, <3>1 DEF Settled, Returned, Restored
  <2>4. (\A i \in 5 .. 12 : r[i] = 17 * i) /\ \A a \in Ram : a < StackTop - 32 => mem[a] = InitialMem[a]
    BY DEF CallBase, Untouched
  <2>5. \A i \in 4 .. 12 : i = 4 \/ i \in 5 .. 12
    OBVIOUS
  <2>6. Done => \A i \in 4 .. 12 : r[i] = InitialRegister(i)
    BY <2>3, <2>4, <2>5, Zenon DEF InitialRegister
  <2> QED BY <2>2, <2>3, <2>4, <2>6, Zenon DEF CallsReturn
<1> QED BY <1>1, <1>2, <1>3, PTL DEF Spec
=============================================================================
