----------------------------- MODULE MemoryProofs -----------------------------
(***************************************************************************)
(* Proofs about MemoryBus.  Offset maps flash and SRAM into the store one  *)
(* to one, a cached pointer is always that of a whole region (TypeOK says  *)
(* so), and so whichever way an access takes it meets the bytes at Offset. *)
(* What the loader has stored up to a line is what the lines before it say. *)
(***************************************************************************)
EXTENDS MemoryBus, TLAPS

LEMMA Constants ==
  /\ FlashSize \in Nat \ {0} /\ SramBase \in Nat /\ SramSize \in Nat /\ StoreSize \in Nat
  /\ Window \in Nat /\ Top \in Nat /\ WordBytes \in Nat \ {0} /\ 0 \in Byte
  /\ FlashSize < SramBase /\ SramBase + SramSize <= Window /\ Window <= Top
  /\ FlashSize + SramSize + WordBytes <= StoreSize
BY MemoryAssumption

LEMMA PeripheralApart == \A a \in Peripherals : a >= Window /\ a \in Int
BY MemoryAssumption

LEMMA RegionApart == Flash \cap Sram = {} /\ Mapped \subseteq Memory /\ Mapped \subseteq 0..(Top - 1)
BY Constants DEF Flash, Sram, Mapped, Memory

(* Offset stays in the store, also for the longest access. *)
LEMMA OffsetRange ==
  ASSUME NEW a \in Mapped
  PROVE  /\ a \in Int /\ Offset(a) \in 0..(StoreSize - 1) /\ Offset(a) + WordBytes <= StoreSize
         /\ Offset(a) < SramOffset + SramSize /\ Resident(Offset(a)) = a
BY Constants DEF Mapped, Flash, Sram, Offset, SramOffset, Resident

LEMMA MappedServed ==
  ASSUME NEW a \in Mapped, NEW n \in 1..WordBytes
  PROVE  Served(a, n) /\ There(a)
BY OffsetRange, RegionApart, Constants DEF Served, There

-----------------------------------------------------------------------------
(* Types *)

LEMMA InitType == Init => TypeOK
BY Constants DEF Init, TypeOK, User

LEMMA PeekType ==
  ASSUME TypeOK, NEW n \in 1..WordBytes, NEW o \in Nat, o + n <= StoreSize
  PROVE  Peek(o, n) \in Data(n)
BY Constants DEF TypeOK, Peek, Data

LEMMA PokeType ==
  ASSUME TypeOK, NEW n \in Nat, NEW o \in Nat, NEW data \in Data(n)
  PROVE  Poke(o, data, n) \in [0..(StoreSize - 1) -> Byte]
BY Constants DEF TypeOK, Poke, Data

(* A pointer that serves an access leads to the bytes at Offset. *)
LEMMA PointerType ==
  ASSUME TypeOK, NEW u \in User, NEW a, NEW n, NEW w
  PROVE  Pointer(u, a, n, w) \in {NoDmi, FlashDmi, SramDmi}
BY DEF TypeOK, Pointer, DirectRegion

LEMMA DirectOffset ==
  ASSUME NEW d \in {NoDmi, FlashDmi, SramDmi}, NEW a \in Nat, NEW n \in 1..WordBytes, Covers(d, a, n)
  PROVE  a \in Mapped /\ d.at + (a - d.first) = Offset(a)
<1>1. CASE d = NoDmi
  BY <1>1 DEF Covers, NoDmi
<1>2. CASE d = FlashDmi
  BY <1>2, Constants DEF Covers, FlashDmi, Mapped, Flash, Offset
<1>3. CASE d = SramDmi
  BY <1>3, Constants DEF Covers, SramDmi, Mapped, Flash, Sram, Offset
<1> QED BY <1>1, <1>2, <1>3

LEMMA ReadAnswers ==
  ASSUME TypeOK, NEW u \in User, NEW a \in 0..(Top - 1), NEW n \in 1..WordBytes, Read(u, a, n)
  PROVE  \E data \in Data(n) : /\ reply' = Answer(a, data, TRUE)
                               /\ a \in Mapped => data = Peek(Offset(a), n)
<1> DEFINE d == Pointer(u, a, n, FALSE)
<1>1. a \in Nat /\ n \in Nat
  BY Constants
<1>2. d \in {NoDmi, FlashDmi, SramDmi}
  BY PointerType
<1>3. ASSUME a \in Mapped PROVE Peek(Offset(a), n) \in Data(n)
  <2>1. Offset(a) \in Nat /\ Offset(a) + n <= StoreSize
    BY <1>1, <1>3, OffsetRange, Constants
  <2> QED BY <2>1, PeekType
<1>4. CASE Covers(d, a, n)
  <2>1. a \in Mapped /\ d.at + (a - d.first) = Offset(a)
    BY <1>1, <1>2, <1>4, DirectOffset
  <2>2. reply' = Answer(a, Peek(d.at + (a - d.first), n), TRUE)
    BY <1>4 DEF Read
  <2> QED BY <1>3, <2>1, <2>2
<1>5. CASE ~Covers(d, a, n)
  <2>1. PICK data \in ReadThrough(a, n) : reply' = Answer(a, data, TRUE)
    BY <1>5 DEF Read
  <2>2. CASE a \in Mapped
    <3>1. a \notin Peripherals /\ a \in Memory /\ Served(a, n)
      BY <2>2, MappedServed, RegionApart, PeripheralApart, Constants DEF Memory
    <3> QED BY <1>3, <2>1, <2>2, <3>1 DEF ReadThrough
  <2>3. CASE a \notin Mapped
    <3>1. [i \in 0..(n - 1) |-> 0] \in Data(n)
      BY Constants DEF Data
    <3>2. data \in Data(n)
      BY <2>1, <2>3, <3>1 DEF ReadThrough, Served
    <3> QED BY <2>1, <2>3, <3>2
  <2> QED BY <2>2, <2>3
<1> QED BY <1>4, <1>5

LEMMA WriteStores ==
  ASSUME TypeOK, NEW u \in User, NEW a \in 0..(Top - 1), NEW n \in 1..WordBytes, Write(u, a, n)
  PROVE  \E data \in Data(n) : /\ reply' = Answer(a, data, TRUE)
                               /\ store' = IF a \in Mapped THEN Poke(Offset(a), data, n) ELSE store
<1> DEFINE d == Pointer(u, a, n, TRUE)
<1>1. PICK data \in Data(n) :
        /\ reply' = Answer(a, data, TRUE)
        /\ store' = IF Covers(d, a, n) /\ d.writable THEN Poke(d.at + (a - d.first), data, n)
                                                     ELSE WriteThrough(a, data, n)
  BY DEF Write
<1>2. a \in Nat /\ n \in Nat
  BY Constants
<1>3. d \in {NoDmi, FlashDmi, SramDmi}
  BY PointerType
<1>4. CASE Covers(d, a, n) /\ d.writable
  <2>1. a \in Mapped /\ d.at + (a - d.first) = Offset(a)
    BY <1>2, <1>3, <1>4, DirectOffset
  <2> QED BY <1>1, <1>4, <2>1
<1>5. CASE ~(Covers(d, a, n) /\ d.writable)
  <2>1. store' = WriteThrough(a, data, n)
    BY <1>1, <1>5
  <2>2. a \in Mapped => a \in Memory /\ Served(a, n)
    BY MappedServed, RegionApart
  <2>3. a \notin Mapped => ~Served(a, n)
    BY DEF Served
  <2> QED BY <1>1, <2>1, <2>2, <2>3 DEF WriteThrough
<1> QED BY <1>4, <1>5

-----------------------------------------------------------------------------
(* TypeOK is inductive. *)

ReplyType == \/ reply = None
             \/ \E a \in 0..(Top - 1), data \in {<<>>} \cup UNION {Data(n) : n \in 1..WordBytes}, ok \in BOOLEAN :
                  reply = Answer(a, data, ok)

LEMMA ReadType ==
  ASSUME TypeOK, NEW u \in User, NEW a \in 0..(Top - 1), NEW n \in 1..WordBytes, Read(u, a, n)
  PROVE  TypeOK'
<1>1. dmi' \in [User -> {NoDmi, FlashDmi, SramDmi}]
  <2>1. dmi' = [dmi EXCEPT ![u] = Pointer(u, a, n, FALSE)]
    BY DEF Read
  <2> QED BY <2>1, PointerType DEF TypeOK
<1>2. ReplyType'
  <2>1. PICK data \in Data(n) : reply' = Answer(a, data, TRUE)
    BY ReadAnswers
  <2> QED BY <2>1 DEF ReplyType
<1> QED BY <1>1, <1>2 DEF Read, TypeOK, ReplyType

LEMMA WriteType ==
  ASSUME TypeOK, NEW u \in User, NEW a \in 0..(Top - 1), NEW n \in 1..WordBytes, Write(u, a, n)
  PROVE  TypeOK'
<1>1. dmi' \in [User -> {NoDmi, FlashDmi, SramDmi}]
  <2>1. dmi' = [dmi EXCEPT ![u] = Pointer(u, a, n, TRUE)]
    BY DEF Write
  <2> QED BY <2>1, PointerType DEF TypeOK
<1>2. PICK data \in Data(n) : /\ reply' = Answer(a, data, TRUE)
                              /\ store' = IF a \in Mapped THEN Poke(Offset(a), data, n) ELSE store
  BY WriteStores
<1>3. ReplyType'
  BY <1>2 DEF ReplyType
<1>4. store' \in [0..(StoreSize - 1) -> Byte]
  <2>1. CASE a \in Mapped
    <3>1. Offset(a) \in Nat /\ n \in Nat
      BY <2>1, OffsetRange, Constants
    <3> QED BY <1>2, <2>1, <3>1, PokeType
  <2> QED BY <1>2, <2>1 DEF TypeOK
<1> QED BY <1>1, <1>3, <1>4 DEF Write, TypeOK, ReplyType

LEMMA PacketType ==
  ASSUME TypeOK, NEW a \in 0..(Top - 1), NEW n \in 1..WordBytes,
         HandleReadMemory(a, n) \/ HandleWriteMemory(a, n)
  PROVE  TypeOK'
<1>1. CASE HandleReadMemory(a, n)
  <2>1. ReplyType'
    BY <1>1 DEF HandleReadMemory, ReplyType
  <2> QED BY <1>1, <2>1 DEF HandleReadMemory, TypeOK, ReplyType
<1>2. CASE HandleWriteMemory(a, n)
  <2>1. PICK data \in Data(n), k \in 0..n :
          /\ store' = [x \in 0..(StoreSize - 1) |->
                         IF x < SramOffset + SramSize /\ Resident(x) - a \in 0..(k - 1)
                         THEN data[Resident(x) - a] ELSE store[x]]
          /\ reply' = Answer(a, data, k = n)
    BY <1>2 DEF HandleWriteMemory
  <2>2. ReplyType'
    BY <2>1 DEF ReplyType
  <2>3. store' \in [0..(StoreSize - 1) -> Byte]
    <3>1. ASSUME NEW i \in 0..(k - 1) PROVE data[i] \in Byte
      BY <3>1, Constants DEF Data
    <3> QED BY <2>1, <3>1 DEF TypeOK
  <2> QED BY <1>2, <2>2, <2>3 DEF HandleWriteMemory, TypeOK, ReplyType
<1> QED BY <1>1, <1>2

LEMMA ProgramRecord ==
  ASSUME TypeOK, line \in 1..Len(program)
  PROVE  program[line] \in Record /\ Len(program) \in Nat
<1>1. program \in Seq(Record)
  BY MemoryAssumption DEF TypeOK
<1> QED BY <1>1

LEMMA LoadType ==
  ASSUME TypeOK, LoadData \/ LoadExtended \/ LoadEnd
  PROVE  TypeOK'
<1>1. CASE LoadData
  <2> DEFINE a == extended + program[line].address
             b == program[line].bytes
             n == Len(b)
             data == [i \in 0..(n - 1) |-> b[i + 1]]
  <2>1. line \in 1..Len(program) /\ program[line] \in Record /\ program[line].kind = "data" /\ Len(program) \in Nat
    BY <1>1, ProgramRecord DEF LoadData
  <2>2. program[line].address \in Nat /\ b \in Seq(Byte)
    BY <2>1 DEF Record, DataRecord
  <2>3. data \in Data(n) /\ n \in Nat
    BY <2>2 DEF Data
  <2>4. store' \in [0..(StoreSize - 1) -> Byte]
    <3>1. store' = IF Served(a, n) THEN Poke(Offset(a), data, n) ELSE store
      BY <1>1 DEF LoadData
    <3>2. CASE Served(a, n)
      <4>1. Offset(a) \in Nat
        BY <3>2, OffsetRange, Constants DEF Served
      <4> HIDE DEF data, n
      <4> QED BY <2>3, <3>1, <3>2, <4>1, PokeType
    <3> QED BY <3>1, <3>2 DEF TypeOK
  <2>5. line' \in 0..(Len(program') + 1)
    BY <1>1, <2>1 DEF LoadData
  <2>6. UNCHANGED <<dmi, reply, program, extended>>
    BY <1>1 DEF LoadData
  <2> QED BY <2>4, <2>5, <2>6 DEF TypeOK
<1>2. CASE LoadExtended
  <2>1. line \in 1..Len(program) /\ program[line] \in Record /\ program[line].kind = "extended" /\ Len(program) \in Nat
    BY <1>2, ProgramRecord DEF LoadExtended
  <2>2. program[line].address \in Nat
    BY <2>1 DEF Record, DataRecord
  <2>3. line' \in 0..(Len(program') + 1)
    BY <1>2, <2>1 DEF LoadExtended
  <2>4. extended' \in Nat /\ UNCHANGED <<store, dmi, reply, program>>
    BY <1>2, <2>2 DEF LoadExtended
  <2> QED BY <2>3, <2>4 DEF TypeOK
<1>3. CASE LoadEnd
  BY <1>3 DEF LoadEnd, TypeOK
<1> QED BY <1>1, <1>2, <1>3

LEMMA NextType == TypeOK /\ [Next]_vars => TypeOK'
<1> SUFFICES ASSUME TypeOK, [Next]_vars PROVE TypeOK'
  OBVIOUS
<1>0. WordBytes \in 1..WordBytes /\ {"fetch", "word", "data"} \subseteq User
  BY Constants DEF User
<1>1. CASE LoadData \/ LoadExtended \/ LoadEnd
  BY <1>1, LoadType
<1>2. ASSUME NEW a \in 0..(Top - 1), Fetch(a) \/ ReadWord(a) \/ WriteWord(a) PROVE TypeOK'
  BY <1>0, <1>2, ReadType, WriteType DEF Fetch, ReadWord, WriteWord
<1>3. ASSUME NEW a \in 0..(Top - 1), NEW n \in 1..WordBytes, ReadMemory(a, n) \/ WriteMemory(a, n) PROVE TypeOK'
  BY <1>0, <1>3, ReadType, WriteType DEF ReadMemory, WriteMemory
<1>4. ASSUME NEW a \in 0..(Top - 1), NEW n \in 1..WordBytes, HandleReadMemory(a, n) \/ HandleWriteMemory(a, n)
      PROVE  TypeOK'
  BY <1>4, PacketType
<1>5. CASE Return
  BY <1>5 DEF Return, TypeOK
<1>6. CASE UNCHANGED vars
  BY <1>6 DEF vars, TypeOK
<1> QED BY <1>1, <1>2, <1>3, <1>4, <1>5, <1>6 DEF Next

(* Every variable keeps its type: a cached pointer is that of a whole region, *)
(* and nothing is written outside the store, for any sizes of the regions.    *)
THEOREM MemoryTypeOK == Spec => []TypeOK
BY InitType, NextType, PTL DEF Spec

-----------------------------------------------------------------------------
(* Each step is a step of the flat memory. *)

LEMMA HomeIs ==
  /\ Flat!Mapped = Mapped
  /\ \A a \in Flash : Flat!Home(a) = Flash
  /\ \A a \in Sram : Flat!Home(a) = Sram
  /\ \A a : a \notin Mapped => Flat!Home(a) = {}
BY RegionApart DEF Flat!Mapped, Flat!Home, Mapped

(* Within a region, distances are the same in the store as in addresses. *)
LEMMA SameDistance ==
  ASSUME NEW a \in Mapped, NEW x \in Flat!Home(a)
  PROVE  x \in Mapped /\ Offset(x) - Offset(a) = x - a
<1>1. CASE a \in Flash
  BY <1>1, HomeIs, Constants DEF Flash, Mapped, Offset
<1>2. CASE a \in Sram
  <2>1. a \notin Flash /\ x \in Sram /\ x \notin Flash
    BY <1>2, HomeIs, RegionApart
  <2>2. a \in Int /\ x \in Int
    BY <1>2, <2>1, Constants DEF Sram
  <2> QED BY <1>2, <2>1, <2>2, Constants DEF Mapped, Offset, SramOffset
<1> QED BY <1>1, <1>2 DEF Mapped

(* What lies outside the region is out of reach of an access that stays in it. *)
LEMMA OutOfReach ==
  ASSUME NEW a \in Mapped, NEW n \in 1..WordBytes, ~Flat!Leaves(a, n),
         NEW x \in Mapped, x \notin Flat!Home(a)
  PROVE  Offset(x) - Offset(a) \notin 0..(n - 1)
<1>1. a + n - 1 \in Flat!Home(a)
  BY OffsetRange, Constants DEF Flat!Leaves, Flat!Span
<1>2. CASE a \in Flash
  <2>1. a + n - 1 \in Flash /\ x \in Sram /\ x \notin Flash
    BY <1>1, <1>2, HomeIs DEF Mapped
  <2> QED BY <1>2, <2>1, Constants DEF Flash, Sram, Offset, SramOffset
<1>3. CASE a \in Sram
  <2>1. x \in Flash /\ a \notin Flash
    BY <1>3, HomeIs, RegionApart DEF Mapped
  <2> QED BY <1>3, <2>1, Constants DEF Flash, Sram, Offset, SramOffset
<1> QED BY <1>2, <1>3 DEF Mapped

LEMMA InitFlat == Init => Flat!Init
BY OffsetRange, HomeIs DEF Init, Flat!Init, None, Flat!None

LEMMA BytesType ==
  ASSUME TypeOK
  PROVE  [a \in Mapped |-> store[Offset(a)]] \in [Flat!Mapped -> Byte]
BY OffsetRange, HomeIs DEF TypeOK

LEMMA ReadFlat ==
  ASSUME TypeOK, NEW u \in User, NEW a \in 0..(Top - 1), NEW n \in 1..WordBytes, Read(u, a, n)
  PROVE  Flat!Read(a, n)
<1>1. PICK data \in Data(n) : /\ reply' = Answer(a, data, TRUE)
                              /\ a \in Mapped => data = Peek(Offset(a), n)
  BY ReadAnswers
<1>2. Flat!Request(a)
  BY <1>1 DEF Read, Begin, Flat!Request, None, Flat!None, Answer
<1>3. ASSUME NEW x \in Flat!Span(a, n) \cap Flat!Home(a)
      PROVE  data[x - a] = [b \in Mapped |-> store[Offset(b)]][x]
  <2>1. a \in Mapped
    BY <1>3, HomeIs
  <2>2. x \in Mapped /\ Offset(x) - Offset(a) = x - a
    BY <1>3, <2>1, SameDistance
  <2>3. x - a \in 0..(n - 1)
    BY <1>3, Constants DEF Flat!Span
  <2>4. Offset(a) + (x - a) = Offset(x)
    BY <2>1, <2>2, OffsetRange
  <2> QED BY <1>1, <2>1, <2>2, <2>3, <2>4 DEF Peek
<1>4. UNCHANGED [b \in Mapped |-> store[Offset(b)]]
  BY DEF Read
<1> QED BY <1>1, <1>2, <1>3, <1>4 DEF Flat!Read, Flat!Answer, Answer, Data

Bytes == [a \in Mapped |-> store[Offset(a)]]

LEMMA WriteFlat ==
  ASSUME TypeOK, TypeOK', NEW u \in User, NEW a \in 0..(Top - 1), NEW n \in 1..WordBytes, Write(u, a, n)
  PROVE  Flat!Write(a, n)
<1>1. PICK data \in Data(n) : /\ reply' = Answer(a, data, TRUE)
                              /\ store' = IF a \in Mapped THEN Poke(Offset(a), data, n) ELSE store
  BY WriteStores
<1>2. Flat!Request(a)
  BY <1>1 DEF Write, Begin, Flat!Request, None, Flat!None, Answer
<1>3. ASSUME NEW x \in Flat!Span(a, n) \cap Flat!Home(a)
      PROVE  Bytes'[x] = data[x - a]
  <2>1. a \in Mapped
    BY <1>3, HomeIs
  <2>2. x \in Mapped /\ Offset(x) - Offset(a) = x - a
    BY <1>3, <2>1, SameDistance
  <2>3. x - a \in 0..(n - 1)
    BY <1>3, Constants DEF Flat!Span
  <2>4. Offset(x) \in 0..(StoreSize - 1)
    BY <2>2, OffsetRange
  <2> QED BY <1>1, <2>1, <2>2, <2>3, <2>4 DEF Poke, Bytes
<1>4. ASSUME NEW x \in Mapped, x \notin Flat!Span(a, n) \cap Flat!Home(a),
             ~(x \notin Flat!Home(a) /\ a \in Mapped /\ Flat!Leaves(a, n))
      PROVE  Bytes'[x] = Bytes[x]
  <2>1. CASE a \notin Mapped
    BY <1>1, <2>1 DEF Bytes
  <2>2. CASE a \in Mapped
    <3>1. Offset(x) - Offset(a) \notin 0..(n - 1)
      <4>1. CASE x \in Flat!Home(a)
        <5>1. Offset(x) - Offset(a) = x - a
          BY <2>2, <4>1, SameDistance
        <5>2. x \in Int /\ a \in Int /\ n \in Int
          BY <1>4, OffsetRange, Constants
        <5>3. x - a \notin 0..(n - 1)
          BY <1>4, <4>1, <5>2 DEF Flat!Span
        <5> QED BY <5>1, <5>3
      <4>2. CASE x \notin Flat!Home(a)
        BY <1>4, <2>2, <4>2, OutOfReach
      <4> QED BY <4>1, <4>2
    <3>2. Offset(x) \in 0..(StoreSize - 1)
      BY OffsetRange
    <3> QED BY <1>1, <2>2, <3>1, <3>2 DEF Poke, Bytes
  <2> QED BY <2>1, <2>2
<1>5. Bytes' \in [Flat!Mapped -> Byte]
  <2>1. store' \in [0..(StoreSize - 1) -> Byte]
    BY DEF TypeOK
  <2> QED BY <2>1, OffsetRange, HomeIs DEF Bytes
<1>6. \E d \in [0..(n - 1) -> Byte] :
        /\ reply' = Answer(a, d, TRUE)
        /\ \A x \in Flat!Span(a, n) \cap Flat!Home(a) : Bytes'[x] = d[x - a]
  BY <1>1, <1>3 DEF Data
<1>7. \A x \in Mapped \ (Flat!Span(a, n) \cap Flat!Home(a)) :
        Bytes'[x] = Bytes[x] \/ (x \notin Flat!Home(a) /\ a \in Mapped /\ Flat!Leaves(a, n))
  BY <1>4
<1> QED BY <1>2, <1>5, <1>6, <1>7, HomeIs DEF Flat!Write, Flat!Answer, Answer, Bytes

LEMMA ReadPacketFlat ==
  ASSUME TypeOK, NEW a \in 0..(Top - 1), NEW n \in 1..WordBytes, HandleReadMemory(a, n)
  PROVE  Flat!ReadPacket(a, n)
<1>1. Flat!Request(a)
  BY DEF HandleReadMemory, Begin, Flat!Request, None, Flat!None, Answer
<1>2. UNCHANGED Bytes
  BY DEF HandleReadMemory, Bytes
<1>3. CASE Reached(a, n, n)
  <2>1. CASE \E data \in Data(n) :
               /\ \A i \in 0..(n - 1) : a + i \notin Peripherals => data[i] = store[Offset(a + i)]
               /\ reply' = Answer(a, data, TRUE)
    <3>1. PICK data \in Data(n) :
                 /\ \A i \in 0..(n - 1) : a + i \notin Peripherals => data[i] = store[Offset(a + i)]
                 /\ reply' = Answer(a, data, TRUE)
      BY <2>1
    <3>2. ASSUME NEW x \in Flat!Span(a, n) \cap Flat!Mapped PROVE data[x - a] = Bytes[x]
      <4>1. x \in Mapped /\ x - a \in 0..(n - 1) /\ a + (x - a) = x
        BY <3>2, HomeIs, Constants DEF Flat!Span
      <4>2. x \notin Peripherals
        BY <4>1, RegionApart, PeripheralApart, Constants DEF Memory
      <4> QED BY <3>1, <4>1, <4>2 DEF Bytes
    <3>3. \E d \in [0..(n - 1) -> Byte] :
            /\ reply' = Answer(a, d, TRUE)
            /\ \A x \in Flat!Span(a, n) \cap Flat!Mapped : d[x - a] = Bytes[x]
      BY <3>1, <3>2 DEF Data
    <3> QED BY <1>1, <1>2, <3>3 DEF Flat!ReadPacket, Flat!Answer, Answer, Bytes
  <2>2. CASE (\E k \in 0..(n - 1) : Reached(a, n, k)) /\ reply' = Answer(a, <<>>, FALSE)
    <3>1. FALSE
      <4>1. PICK k \in 0..(n - 1) : Reached(a, n, k)
        BY <2>2
      <4>2. k # n /\ k \in 0..(n - 1)
        BY <4>1, Constants
      <4> QED BY <1>3, <4>1, <4>2 DEF Reached
    <3> QED BY <3>1
  <2> QED BY <2>1, <2>2 DEF HandleReadMemory
<1>4. CASE ~Reached(a, n, n)
  <2>1. PICK k \in 0..(n - 1) : Reached(a, n, k)
    BY <1>4 DEF HandleReadMemory
  <2>2. a + k \notin Mapped
    <3>1. ~There(a + k)
      BY <2>1, Constants DEF Reached
    <3> QED BY <3>1, MappedServed, Constants
  <2>3. a + k \in Flat!Span(a, n)
    BY <2>1, Constants DEF Flat!Span
  <2>4. reply' = Answer(a, <<>>, FALSE)
    BY <1>4 DEF HandleReadMemory
  <2>5. ~(Flat!Span(a, n) \subseteq Flat!Mapped)
    BY <2>2, <2>3, HomeIs
  <2> QED BY <1>1, <1>2, <2>4, <2>5 DEF Flat!ReadPacket, Flat!Answer, Answer, Bytes
<1> QED BY <1>3, <1>4

LEMMA WritePacketFlat ==
  ASSUME TypeOK, NEW a \in 0..(Top - 1), NEW n \in 1..WordBytes, HandleWriteMemory(a, n)
  PROVE  Flat!WritePacket(a, n)
<1>1. Flat!Request(a)
  BY DEF HandleWriteMemory, Begin, Flat!Request, None, Flat!None, Answer
<1>2. PICK data \in Data(n), k \in 0..n :
        /\ Reached(a, n, k)
        /\ store' = [x \in 0..(StoreSize - 1) |->
                       IF x < SramOffset + SramSize /\ Resident(x) - a \in 0..(k - 1)
                       THEN data[Resident(x) - a] ELSE store[x]]
        /\ reply' = Answer(a, data, k = n)
  BY DEF HandleWriteMemory
<1>3. ASSUME NEW x \in Mapped
      PROVE  Bytes'[x] = IF x - a \in 0..(k - 1) THEN data[x - a] ELSE Bytes[x]
  <2>1. Offset(x) \in 0..(StoreSize - 1) /\ Offset(x) < SramOffset + SramSize /\ Resident(Offset(x)) = x
    BY OffsetRange
  <2> QED BY <1>2, <2>1 DEF Bytes
<1>4. Bytes' = [x \in Flat!Mapped |-> IF x - a \in 0..(k - 1) THEN data[x - a] ELSE Bytes[x]]
  BY <1>3, HomeIs DEF Bytes
<1>5. Flat!Span(a, n) \subseteq Flat!Mapped => k = n
  <2>1. SUFFICES ASSUME Flat!Span(a, n) \subseteq Flat!Mapped, k # n PROVE FALSE
    OBVIOUS
  <2>2. a + k \in Mapped
    BY <2>1, HomeIs, Constants DEF Flat!Span
  <2> QED BY <1>2, <2>1, <2>2, MappedServed, Constants DEF Reached
<1>6. \E d \in [0..(n - 1) -> Byte], j \in 0..n :
        /\ reply' = Answer(a, d, j = n)
        /\ Bytes' = [x \in Flat!Mapped |-> IF x - a \in 0..(j - 1) THEN d[x - a] ELSE Bytes[x]]
        /\ Flat!Span(a, n) \subseteq Flat!Mapped => j = n
  BY <1>2, <1>4, <1>5 DEF Data
<1> QED BY <1>1, <1>6 DEF Flat!WritePacket, Flat!Answer, Answer, Bytes

LEMMA StepFlat ==
  ASSUME TypeOK, TypeOK', [Next]_vars
  PROVE  [Flat!Next]_<<Bytes, reply, line = 0>>
<1>0. WordBytes \in 1..WordBytes /\ {"fetch", "word", "data"} \subseteq User
  BY Constants DEF User
<1>1. CASE LoadData \/ LoadExtended
  <2>1. line # 0 /\ line' # 0 /\ reply' = reply
    <3>1. line' = line + 1 /\ line \in 1..Len(program) /\ Len(program) \in Nat
      BY <1>1, ProgramRecord DEF LoadData, LoadExtended
    <3> QED BY <1>1, <3>1 DEF LoadData, LoadExtended
  <2>2. Bytes' \in [Flat!Mapped -> Byte]
    <3>1. store' \in [0..(StoreSize - 1) -> Byte]
      BY DEF TypeOK
    <3> QED BY <3>1, OffsetRange, HomeIs DEF Bytes
  <2>3. Flat!Load
    BY <2>1, <2>2 DEF Flat!Load, Bytes
  <2> QED BY <2>3 DEF Flat!Next
<1>2. CASE LoadEnd
  <2>1. Flat!Start
    BY <1>2 DEF LoadEnd, Flat!Start
  <2> QED BY <2>1 DEF Flat!Next
<1>3. ASSUME NEW a \in 0..(Top - 1), NEW n \in 1..WordBytes,
             Flat!Read(a, n) \/ Flat!Write(a, n) \/ Flat!ReadPacket(a, n) \/ Flat!WritePacket(a, n)
      PROVE  Flat!Next
  BY <1>3 DEF Flat!Next
<1>4. ASSUME NEW a \in 0..(Top - 1), Fetch(a) \/ ReadWord(a) \/ WriteWord(a)
      PROVE  Flat!Next
  BY <1>0, <1>3, <1>4, ReadFlat, WriteFlat DEF Fetch, ReadWord, WriteWord
<1>5. ASSUME NEW a \in 0..(Top - 1), NEW n \in 1..WordBytes,
             \/ ReadMemory(a, n) \/ WriteMemory(a, n)
             \/ HandleReadMemory(a, n) \/ HandleWriteMemory(a, n)
      PROVE  Flat!Next
  BY <1>0, <1>3, <1>5, ReadFlat, WriteFlat, ReadPacketFlat, WritePacketFlat DEF ReadMemory, WriteMemory
<1>6. CASE Return
  <2>1. Flat!Accept
    BY <1>6 DEF Return, Flat!Accept, None, Flat!None
  <2> QED BY <2>1 DEF Flat!Next
<1>7. CASE UNCHANGED vars
  BY <1>7 DEF vars, Bytes
<1> QED BY <1>1, <1>2, <1>4, <1>5, <1>6, <1>7 DEF Next

(***************************************************************************)
(* MemoryBus implements FlatMemory, for any sizes of flash, SRAM, store,   *)
(* address space and word, any program and any byte values: the cached     *)
(* pointers and the bus show the same memory to every user.                *)
(***************************************************************************)
THEOREM MemoryImplementsFlat == Spec => ImplementsFlat
<1>1. TypeOK /\ TypeOK' /\ [Next]_vars => [Flat!Next]_<<Bytes, reply, line = 0>>
  BY StepFlat
<1> QED BY InitFlat, MemoryTypeOK, <1>1, PTL DEF Spec, ImplementsFlat, Flat!Spec, Bytes

-----------------------------------------------------------------------------
(* The loader *)

(* The record lies in one region or outside both. One that does not is written *)
(* as far as the store reaches, not as far as its addresses are mapped.        *)
Fits(i) ==
  LET addresses == Base(i) + program[i].address .. Base(i) + program[i].address + Len(program[i].bytes) - 1
  IN  addresses \subseteq Flash \/ addresses \subseteq Sram \/ addresses \cap Mapped = {}

RecordsFit == \A i \in 1..Len(program) : Live(i) => Fits(i)

(* Of the lines before l, the last that says anything of a says v. *)
LastSays(l, a, v) ==
  \/ v = 0 /\ \A i \in 1..(l - 1) : ~Says(i, a)
  \/ \E i \in 1..(l - 1) :
       /\ Says(i, a) /\ \A j \in 1..(l - 1) : Says(j, a) => j <= i
       /\ v = program[i].bytes[a - Base(i) - program[i].address + 1]

LoadInv ==
  line # 0 =>
    /\ program \in Programs /\ RecordsFit
    /\ \A j \in 1..(line - 1) : program[j].kind # "end"
    /\ extended = Base(line)
    /\ \A a \in Mapped : LastSays(line, a, store[Offset(a)])

LEMMA SameFile ==
  ASSUME UNCHANGED program
  PROVE  /\ \A i : Base(i)' = Base(i)
         /\ \A i : Live(i)' <=> Live(i)
         /\ \A i, a : Says(i, a)' <=> Says(i, a)
         /\ \A l, a, v : LastSays(l, a, v)' <=> LastSays(l, a, v)
         /\ RecordsFit' <=> RecordsFit
<1>1. \A i : Base(i)' = Base(i)
  BY DEF Base
<1>2. \A i : Live(i)' <=> Live(i)
  BY DEF Live
<1>3. \A i, a : Says(i, a)' <=> Says(i, a)
  BY <1>1, <1>2 DEF Says
<1>4. \A l, a, v : LastSays(l, a, v)' <=> LastSays(l, a, v)
  BY <1>1, <1>3 DEF LastSays
<1>5. RecordsFit' <=> RecordsFit
  BY <1>1, <1>2 DEF RecordsFit, Fits
<1> QED BY <1>1, <1>2, <1>3, <1>4, <1>5

(* What the last line said is the image, once no line is left to say more. *)
LEMMA LastIsImage ==
  ASSUME NEW l \in Nat \ {0}, NEW a, NEW v, LastSays(l, a, v), Len(program) \in Nat,
         \A i \in 1..Len(program) : Says(i, a) => i < l, l <= Len(program) + 1
  PROVE  v = Image(a)
<1> DEFINE saying == {i \in 1..Len(program) : Says(i, a)}
<1>1. CASE v = 0 /\ \A i \in 1..(l - 1) : ~Says(i, a)
  <2>1. saying = {}
    BY <1>1
  <2> QED BY <1>1, <2>1 DEF Image
<1>2. ASSUME NEW i \in 1..(l - 1), Says(i, a), \A j \in 1..(l - 1) : Says(j, a) => j <= i,
             v = program[i].bytes[a - Base(i) - program[i].address + 1]
      PROVE  v = Image(a)
  <2>1. i \in saying /\ \A j \in saying : j <= i /\ j \in Int
    BY <1>2
  <2>2. (CHOOSE k \in saying : \A j \in saying : j <= k) = i
    BY <1>2, <2>1
  <2> QED BY <1>2, <2>1, <2>2 DEF Image
<1> QED BY <1>1, <1>2 DEF LastSays

(* A line that says nothing of a changes nothing for it. *)
LEMMA SilentLine ==
  ASSUME NEW l \in Nat \ {0}, NEW a, NEW v, LastSays(l, a, v), ~Says(l, a)
  PROVE  LastSays(l + 1, a, v)
<1>1. \A i \in 1..(l + 1 - 1) : i = l \/ i \in 1..(l - 1)
  OBVIOUS
<1>2. 1..(l - 1) \subseteq 1..(l + 1 - 1)
  OBVIOUS
<1> QED BY <1>1, <1>2 DEF LastSays

LEMMA SpeakingLine ==
  ASSUME NEW l \in Nat \ {0}, NEW a, Says(l, a)
  PROVE  LastSays(l + 1, a, program[l].bytes[a - Base(l) - program[l].address + 1])
<1>1. l \in 1..(l + 1 - 1) /\ \A j \in 1..(l + 1 - 1) : j <= l
  OBVIOUS
<1> QED BY <1>1 DEF LastSays

LEMMA BaseNext ==
  ASSUME NEW l \in Nat \ {0}
  PROVE  Base(l + 1) = IF program[l].kind = "extended" THEN program[l].address ELSE Base(l)
<1> DEFINE before(i) == {j \in 1..(i - 1) : program[j].kind = "extended"}
           last(S) == IF S = {} THEN 0 ELSE program[CHOOSE j \in S : \A k \in S : k <= j].address
<1>1. CASE program[l].kind = "extended"
  <2>1. l \in before(l + 1) /\ \A k \in before(l + 1) : k <= l /\ k \in Int
    BY <1>1
  <2>2. (CHOOSE j \in before(l + 1) : \A k \in before(l + 1) : k <= j) = l
    BY <2>1
  <2> QED BY <1>1, <2>1, <2>2 DEF Base
<1>2. CASE program[l].kind # "extended"
  <2>1. before(l + 1) = before(l)
    BY <1>2
  <2>2. Base(l + 1) = last(before(l + 1)) /\ Base(l) = last(before(l))
    BY DEF Base
  <2> HIDE DEF before, last
  <2> QED BY <1>2, <2>1, <2>2
<1> QED BY <1>1, <1>2

-----------------------------------------------------------------------------
LEMMA InitLoad == Init /\ RecordsFit => LoadInv
<1> SUFFICES ASSUME Init, RecordsFit PROVE LoadInv
  OBVIOUS
<1>1. Base(1) = 0
  BY DEF Base
<1>2. ASSUME NEW a \in Mapped PROVE LastSays(1, a, store[Offset(a)])
  <2>1. store[Offset(a)] = 0
    BY OffsetRange DEF Init
  <2> QED BY <2>1 DEF LastSays
<1>3. line = 1 /\ extended = 0 /\ program \in Programs
  BY DEF Init
<1>4. \A j \in 1..(line - 1) : program[j].kind # "end"
  BY <1>3
<1> QED BY <1>1, <1>2, <1>3, <1>4 DEF LoadInv

(* A data record fills its addresses, and nothing else that is mapped. *)
LEMMA RecordStored ==
  ASSUME TypeOK, LoadData, Live(line), Fits(line), extended = Base(line), NEW x \in Mapped
  PROVE  store'[Offset(x)] =
           IF Says(line, x) THEN program[line].bytes[x - Base(line) - program[line].address + 1]
           ELSE store[Offset(x)]
<1> DEFINE a == extended + program[line].address
           b == program[line].bytes
           n == Len(b)
           data == [i \in 0..(n - 1) |-> b[i + 1]]
<1>1. line \in 1..Len(program) /\ program[line] \in Record /\ program[line].kind = "data" /\ extended \in Nat
  BY ProgramRecord DEF LoadData, TypeOK
<1>2. program[line].address \in Nat /\ b \in Seq(Byte)
  BY <1>1 DEF Record, DataRecord
<1>3. a \in Nat /\ n \in Nat
  BY <1>1, <1>2
<1>4. x \in Int /\ Offset(x) \in 0..(StoreSize - 1) /\ Offset(x) \in Int
  BY OffsetRange, Constants
<1>5. store' = IF Served(a, n) THEN Poke(Offset(a), data, n) ELSE store
  BY DEF LoadData
<1>6. Says(line, x) <=> x - a \in 0..(n - 1)
  <2>1. x - Base(line) - program[line].address = x - a
    BY <1>1, <1>2, <1>4
  <2> QED BY <2>1 DEF Says
<1>7. b[x - Base(line) - program[line].address + 1] = b[x - a + 1]
  <2>1. x - Base(line) - program[line].address = x - a
    BY <1>1, <1>2, <1>4
  <2> QED BY <2>1
<1>8. a .. a + n - 1 \subseteq Flash \/ a .. a + n - 1 \subseteq Sram \/ (a .. a + n - 1) \cap Mapped = {}
  BY DEF Fits
<1> HIDE DEF a, n, b
<1>9. CASE a .. a + n - 1 \subseteq Flash \/ a .. a + n - 1 \subseteq Sram
  <2>1. CASE n = 0
    <3>1. ~Says(line, x)
      BY <1>3, <1>4, <1>6, <2>1
    <3>2. store'[Offset(x)] = store[Offset(x)]
      BY <1>4, <1>5, <2>1 DEF Poke
    <3> QED BY <3>1, <3>2
  <2>2. CASE n # 0
    <3>1. a \in a .. a + n - 1 /\ a + n - 1 \in a .. a + n - 1
      BY <1>3, <2>2
    <3>2. Served(a, n) /\ Offset(a) \in Int
      BY <1>3, <1>9, <3>1, OffsetRange, Constants DEF Served, Mapped, Flash, Sram, Offset, SramOffset
    <3>3. (Offset(x) - Offset(a) \in 0..(n - 1) <=> x - a \in 0..(n - 1))
          /\ (x - a \in 0..(n - 1) => Offset(x) - Offset(a) = x - a)
      <4>1. CASE a .. a + n - 1 \subseteq Flash
        BY <1>3, <1>4, <2>2, <3>1, <4>1, Constants DEF Mapped, Flash, Sram, Offset, SramOffset
      <4>2. CASE a .. a + n - 1 \subseteq Sram
        BY <1>3, <1>4, <2>2, <3>1, <4>2, Constants DEF Mapped, Flash, Sram, Offset, SramOffset
      <4> QED BY <1>9, <4>1, <4>2
    <3>4. store'[Offset(x)] = IF Offset(x) - Offset(a) \in 0..(n - 1) THEN data[Offset(x) - Offset(a)]
                              ELSE store[Offset(x)]
      BY <1>4, <1>5, <3>2 DEF Poke
    <3>5. CASE x - a \in 0..(n - 1)
      <4>1. store'[Offset(x)] = b[x - a + 1]
        BY <3>3, <3>4, <3>5
      <4> QED BY <1>6, <1>7, <3>5, <4>1 DEF b
    <3>6. CASE x - a \notin 0..(n - 1)
      BY <1>6, <3>3, <3>4, <3>6
    <3> QED BY <3>5, <3>6
  <2> QED BY <2>1, <2>2
<1>10. CASE (a .. a + n - 1) \cap Mapped = {}
  <2>1. ~Says(line, x)
    BY <1>3, <1>4, <1>6, <1>10
  <2>2. store'[Offset(x)] = store[Offset(x)]
    <3>1. CASE n = 0
      BY <1>4, <1>5, <3>1 DEF Poke
    <3>2. CASE n # 0
      <4>1. a \notin Mapped
        BY <1>3, <1>10, <3>2
      <4> QED BY <1>5, <4>1 DEF Served
    <3> QED BY <3>1, <3>2
  <2> QED BY <2>1, <2>2
<1> QED BY <1>8, <1>9, <1>10

LEMMA LoadStep ==
  ASSUME TypeOK, LoadInv, LoadData \/ LoadExtended
  PROVE  LoadInv'
<1>1. line \in 1..Len(program) /\ Len(program) \in Nat /\ line \in Nat \ {0} /\ line # 0
  BY ProgramRecord DEF LoadData, LoadExtended
<1>2. /\ program \in Programs /\ RecordsFit
      /\ \A j \in 1..(line - 1) : program[j].kind # "end"
      /\ extended = Base(line)
      /\ \A a \in Mapped : LastSays(line, a, store[Offset(a)])
  BY <1>1 DEF LoadInv
<1>3. line' = line + 1 /\ program' = program /\ program[line].kind \in {"data", "extended"}
  BY DEF LoadData, LoadExtended
<1>4. \A j \in 1..line : program[j].kind # "end"
  <2> TAKE j \in 1..line
  <2>1. j = line \/ j \in 1..(line - 1)
    BY <1>1
  <2> QED BY <1>2, <1>3, <2>1
<1>5. extended' = Base(line + 1)
  <2>1. CASE LoadData
    <3>1. Base(line + 1) = Base(line)
      BY <1>1, <2>1, BaseNext DEF LoadData
    <3> QED BY <1>2, <2>1, <3>1 DEF LoadData
  <2>2. CASE LoadExtended
    BY <1>1, <2>2, BaseNext DEF LoadExtended
  <2> QED BY <2>1, <2>2
<1>6. ASSUME NEW x \in Mapped PROVE LastSays(line + 1, x, store'[Offset(x)])
  <2>1. CASE LoadData
    <3>1. Live(line)
      BY <1>4, <2>1 DEF LoadData, Live
    <3>2. Fits(line)
      BY <1>1, <1>2, <3>1 DEF RecordsFit
    <3>3. store'[Offset(x)] =
            IF Says(line, x) THEN program[line].bytes[x - Base(line) - program[line].address + 1]
            ELSE store[Offset(x)]
      BY <1>2, <2>1, <3>1, <3>2, RecordStored
    <3>4. CASE Says(line, x)
      BY <1>1, <3>3, <3>4, SpeakingLine
    <3>5. CASE ~Says(line, x)
      BY <1>1, <1>2, <3>3, <3>5, SilentLine
    <3> QED BY <3>4, <3>5
  <2>2. CASE LoadExtended
    <3>1. ~Says(line, x) /\ store' = store
      BY <2>2 DEF LoadExtended, Says, Live
    <3> QED BY <1>1, <1>2, <3>1, SilentLine
  <2> QED BY <2>1, <2>2
<1>7. line' - 1 = line
  BY <1>1, <1>3
<1>8. /\ program' \in Programs /\ RecordsFit'
      /\ \A j \in 1..(line' - 1) : program'[j].kind # "end"
  BY <1>2, <1>3, <1>4, <1>7, SameFile
<1>9. extended' = Base(line)'
  BY <1>3, <1>5 DEF Base
<1>10. ASSUME NEW x \in Mapped PROVE LastSays(line, x, store[Offset(x)])'
  BY <1>3, <1>6, SameFile
<1> QED BY <1>8, <1>9, <1>10 DEF LoadInv, Mapped, Flash, Sram, Offset

LEMMA NextLoad == TypeOK /\ LoadInv /\ [Next]_vars => LoadInv'
<1> SUFFICES ASSUME TypeOK, LoadInv, [Next]_vars PROVE LoadInv'
  OBVIOUS
<1>1. CASE LoadData \/ LoadExtended
  BY <1>1, LoadStep
<1>2. CASE LoadEnd
  BY <1>2 DEF LoadEnd, LoadInv
<1>3. CASE line = 0 /\ line' = line
  BY <1>3 DEF LoadInv
<1>4. ASSUME NEW u, NEW a, NEW n, Read(u, a, n) \/ Write(u, a, n) \/ HandleReadMemory(a, n) \/ HandleWriteMemory(a, n)
      PROVE  line = 0 /\ line' = line
  BY <1>4 DEF Read, Write, HandleReadMemory, HandleWriteMemory, Begin
<1>5. CASE UNCHANGED <<store, program, line, extended>>
  <2>1. \A a : Offset(a)' = Offset(a)
    BY DEF Offset, Flash, SramOffset
  <2>2. Base(line)' = Base(line)
    BY <1>5 DEF Base
  <2>3. \A a : LastSays(line, a, store[Offset(a)])' <=> LastSays(line, a, store[Offset(a)])
    BY <1>5, <2>1, SameFile
  <2> QED BY <1>5, <2>2, <2>3, SameFile DEF LoadInv, Mapped, Flash, Sram
<1>6. CASE Return \/ UNCHANGED vars
  BY <1>5, <1>6 DEF Return, vars
<1> QED BY <1>1, <1>2, <1>3, <1>4, <1>6 DEF Next, Fetch, ReadWord, WriteWord, ReadMemory, WriteMemory

(* The step that ends the loading finds memory as the whole file says. *)
LEMMA EndOfFile ==
  ASSUME TypeOK, LoadInv, [Next]_vars, line # 0, line' = 0, NEW a \in Mapped
  PROVE  store[Offset(a)] = Image(a)
<1>1. LoadEnd
  <2>1. ~(LoadData \/ LoadExtended)
    <3>1. line \in Nat
      BY ProgramRecord DEF TypeOK
    <3> QED BY <3>1 DEF LoadData, LoadExtended
  <2>2. ~UNCHANGED line
    OBVIOUS
  <2>3. \A u, b, n : ~Read(u, b, n) /\ ~Write(u, b, n) /\ ~HandleReadMemory(b, n) /\ ~HandleWriteMemory(b, n)
    <3>1. \A b, n : ~Begin(b, n)
      BY DEF Begin
    <3> TAKE u, b, n
    <3>2. ~Read(u, b, n)
      BY <3>1 DEF Read
    <3>3. ~Write(u, b, n)
      BY <3>1 DEF Write
    <3>4. ~HandleReadMemory(b, n) /\ ~HandleWriteMemory(b, n)
      BY <3>1 DEF HandleReadMemory, HandleWriteMemory
    <3> QED BY <3>2, <3>3, <3>4
  <2> QED BY <2>1, <2>2, <2>3 DEF Next, Fetch, ReadWord, WriteWord, ReadMemory, WriteMemory, Return, vars
<1>2. program \in Seq(Record) /\ Len(program) \in Nat /\ line \in 1..Len(program) + 1
  <2>1. program \in Seq(Record)
    BY MemoryAssumption DEF LoadInv
  <2>2. Len(program) \in Nat
    BY <2>1
  <2> QED BY <2>1, <2>2 DEF TypeOK
<1>3. LastSays(line, a, store[Offset(a)])
  BY DEF LoadInv
<1>4. \A i \in 1..Len(program) : Says(i, a) => i < line
  <2> SUFFICES ASSUME NEW i \in 1..Len(program), Says(i, a), ~(i < line) PROVE FALSE
    OBVIOUS
  <2>1. line \in 1..Len(program) /\ line \in 1..i
    BY <1>2
  <2>2. program[line].kind = "end"
    BY <1>1, <2>1 DEF LoadEnd
  <2> QED BY <2>1, <2>2 DEF Says, Live
<1> QED BY <1>2, <1>3, <1>4, LastIsImage

(***************************************************************************)
(* For all sizes and every HEX file whose records do not run over the end  *)
(* of a region: once load_hex_file is done, each byte of flash and SRAM is *)
(* the one in the last record for its address, or 0.                       *)
(***************************************************************************)
THEOREM LoaderStoresImage == Spec /\ RecordsFit => LoadedImage
<1>1. Spec /\ RecordsFit => []LoadInv
  BY InitLoad, NextLoad, MemoryTypeOK, PTL DEF Spec
<1>2. TypeOK /\ LoadInv /\ [Next]_vars
        => [line # 0 /\ line' = 0 => \A a \in Mapped : store[Offset(a)] = Image(a)]_vars
  BY EndOfFile
<1> QED BY <1>1, <1>2, MemoryTypeOK, PTL DEF Spec, LoadedImage
=============================================================================
