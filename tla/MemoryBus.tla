------------------------------ MODULE MemoryBus ------------------------------
(***************************************************************************)
(* Memory, the bus controller in front of it, and those who use them: the  *)
(* HEX loader, instruction fetch, the CPU's word accesses (vectors,        *)
(* stacking), loads and stores, and the debugger's m and M packets.  Flash *)
(* and SRAM live in one backing store.  Fetch, word accesses and loads and *)
(* stores each cache a direct pointer (DMI) to the region they used last;  *)
(* what a pointer does not serve goes through b_transport.                 *)
(*                                                                         *)
(* Addresses and sizes are parameters.  An access is not aligned here, as  *)
(* it need not be in the code; it ends below the top of the address space. *)
(* The other devices answer anything and hold no memory.                   *)
(***************************************************************************)
EXTENDS Integers, Sequences

CONSTANTS
    Byte,          \* values of a byte
    FlashSize,     \* FLASH_SIZE; FLASH_BASE is 0
    SramBase, SramSize,
    StoreSize,     \* m_size
    Window,        \* size of the memory window on the bus, from 0
    Peripherals,   \* addresses in the windows of Trace and the NVIC
    Top,           \* size of the address space
    WordBytes,     \* length of a word, a fetch and the longest load
    Programs       \* HEX files: sequences of records

Flash == 0..(FlashSize - 1)
Sram  == SramBase..(SramBase + SramSize - 1)
Mapped == Flash \cup Sram
SramOffset == FlashSize
Memory == 0..(Window - 1)

DataRecord == [kind : {"data"}, address : Nat, bytes : Seq(Byte)]
Record == DataRecord \cup [kind : {"extended"}, address : Nat] \cup [kind : {"end"}]

(* The windows do not overlap (BusCtrl::add_device), the regions are apart, and *)
(* the store has room for both and for what an access at the end of SRAM adds.  *)
ASSUME MemoryAssumption ==
  /\ {FlashSize, SramBase, SramSize, StoreSize, Window, Top} \subseteq Nat
  /\ WordBytes \in Nat \ {0} /\ 0 \in Byte
  /\ FlashSize > 0 /\ FlashSize < SramBase
  /\ SramBase + SramSize <= Window /\ Window <= Top
  /\ Peripherals \subseteq Window..(Top - 1)
  /\ FlashSize + SramSize + WordBytes <= StoreSize
  /\ Programs \subseteq Seq(Record)

VARIABLES
    store,      \* m_memory
    dmi,        \* by user: the cached tlm_dmi
    reply,      \* what the access that was made last returned, until it is taken
    program,    \* the HEX file, until it is closed
    line,       \* load_hex_file: the record to be read; 0 once it is done
    extended    \* load_hex_file: extended_address

vars == <<store, dmi, reply, program, line, extended>>

User == {"fetch", "word", "data"}

NoDmi    == [first |-> 0, last |-> -1, at |-> 0, writable |-> FALSE]
FlashDmi == [first |-> 0, last |-> FlashSize - 1, at |-> 0, writable |-> FALSE]
SramDmi  == [first |-> SramBase, last |-> SramBase + SramSize - 1, at |-> SramOffset, writable |-> TRUE]

None == [address |-> -1]
Answer(a, data, ok) == [address |-> a, data |-> data, ok |-> ok]
Data(n) == [0..(n - 1) -> Byte]

Init ==
  /\ store = [o \in 0..(StoreSize - 1) |-> 0]
  /\ dmi = [u \in User |-> NoDmi]
  /\ reply = None
  /\ program \in Programs /\ line = 1 /\ extended = 0

-----------------------------------------------------------------------------
(* Memory *)

(* Mutant: SRAM overlaps the end of flash. *)
OffsetOverlap(a) == IF a \in Flash THEN a ELSE SramOffset - 1 + (a - SramBase)

Offset(a) == IF a \in Flash THEN a ELSE SramOffset + (a - SramBase)

Served(a, n) == a \in Mapped /\ Offset(a) + n <= StoreSize

Peek(o, n) == [i \in 0..(n - 1) |-> store[o + i]]

Poke(o, data, n) == [x \in 0..(StoreSize - 1) |-> IF x - o \in 0..(n - 1) THEN data[x - o] ELSE store[x]]

(* Mutant: the pointer to flash is good for writing everywhere. *)
RegionWide(a) == IF a \in Flash THEN [SramDmi EXCEPT !.first = 0] ELSE SramDmi

(* get_direct_mem_ptr *)
DirectRegion(a) == IF a \in Flash THEN FlashDmi ELSE SramDmi

(* Through the bus, which finds the device by the first address: what a read *)
(* can return; what the store is after a write.                              *)
ReadThrough(a, n) ==
  IF a \in Peripherals THEN Data(n)
  ELSE IF a \in Memory /\ Served(a, n) THEN {Peek(Offset(a), n)} ELSE {[i \in 0..(n - 1) |-> 0]}

WriteThrough(a, data, n) ==
  IF a \in Memory /\ Served(a, n) THEN Poke(Offset(a), data, n) ELSE store

-----------------------------------------------------------------------------
(* The loader *)

(* Mutant: the upper half of the address is forgotten. *)
LoadDataLow ==
  /\ line \in 1..Len(program) /\ program[line].kind = "data"
  /\ LET a == program[line].address
         n == Len(program[line].bytes)
     IN store' = IF Served(a, n) THEN Poke(Offset(a), [i \in 0..(n - 1) |-> program[line].bytes[i + 1]], n)
                                 ELSE store
  /\ line' = line + 1
  /\ UNCHANGED <<dmi, reply, program, extended>>

LoadData ==
  /\ line \in 1..Len(program) /\ program[line].kind = "data"
  /\ LET a == extended + program[line].address
         n == Len(program[line].bytes)
     IN store' = IF Served(a, n) THEN Poke(Offset(a), [i \in 0..(n - 1) |-> program[line].bytes[i + 1]], n)
                                 ELSE store
  /\ line' = line + 1
  /\ UNCHANGED <<dmi, reply, program, extended>>

LoadExtended ==
  /\ line \in 1..Len(program) /\ program[line].kind = "extended"
  /\ extended' = program[line].address
  /\ line' = line + 1
  /\ UNCHANGED <<store, dmi, reply, program>>

LoadEnd ==
  /\ line # 0
  /\ line \in 1..Len(program) => program[line].kind = "end"
  /\ line' = 0 /\ program' = <<>> /\ extended' = 0
  /\ UNCHANGED <<store, dmi, reply>>

-----------------------------------------------------------------------------
(* The accesses of the simulation thread. It waits for the latency before it *)
(* goes on with the answer.                                                  *)

Begin(a, n) == line = 0 /\ reply = None /\ a + n <= Top

Covers(d, a, n) == d.first <= a /\ a + n - 1 <= d.last

(* The pointer that user u holds once it has looked for one: the cached one if *)
(* it serves, otherwise a new one if the bus grants it.                        *)
Pointer(u, a, n, write) ==
  IF (Covers(dmi[u], a, n) /\ (write => dmi[u].writable)) \/ a \notin Memory \cap Mapped
  THEN dmi[u] ELSE DirectRegion(a)

Read(u, a, n) ==
  /\ Begin(a, n)
  /\ LET d == Pointer(u, a, n, FALSE)
     IN /\ dmi' = [dmi EXCEPT ![u] = d]
        /\ \E data \in IF Covers(d, a, n) THEN {Peek(d.at + (a - d.first), n)} ELSE ReadThrough(a, n) :
             reply' = Answer(a, data, TRUE)
  /\ UNCHANGED <<store, program, line, extended>>

Write(u, a, n) ==
  /\ Begin(a, n)
  /\ \E data \in Data(n) :
       LET d == Pointer(u, a, n, TRUE)
       IN /\ dmi' = [dmi EXCEPT ![u] = d]
          /\ store' = IF Covers(d, a, n) /\ d.writable THEN Poke(d.at + (a - d.first), data, n)
                                                      ELSE WriteThrough(a, data, n)
          /\ reply' = Answer(a, data, TRUE)
  /\ UNCHANGED <<program, line, extended>>

Fetch(a) == Read("fetch", a, WordBytes)

ReadWord(a)  == Read("word", a, WordBytes)
WriteWord(a) == Write("word", a, WordBytes)

ReadMemory(a, n)  == Read("data", a, n)
WriteMemory(a, n) == Write("data", a, n)

Return ==
  /\ reply # None /\ reply' = None
  /\ UNCHANGED <<store, dmi, program, line, extended>>

-----------------------------------------------------------------------------
(* The debugger's packets, served byte by byte without DMI while cpu_thread is *)
(* held; the first byte that is not there ends the packet.                     *)

There(a) == a \in Peripherals \/ (a \in Memory /\ Served(a, 1))

(* k of n bytes come before the first that is not there. *)
Reached(a, n, k) == /\ \A i \in 0..(k - 1) : There(a + i)
                    /\ k = n \/ ~There(a + k)

(* The address whose byte is at offset x. *)
Resident(x) == IF x < SramOffset THEN x ELSE SramBase + (x - SramOffset)

HandleReadMemory(a, n) ==
  /\ Begin(a, n)
  /\ \/ /\ Reached(a, n, n)
        /\ \E data \in Data(n) :
             /\ \A i \in 0..(n - 1) : a + i \notin Peripherals => data[i] = store[Offset(a + i)]
             /\ reply' = Answer(a, data, TRUE)
     \/ /\ \E k \in 0..(n - 1) : Reached(a, n, k)
        /\ reply' = Answer(a, <<>>, FALSE)
  /\ UNCHANGED <<store, dmi, program, line, extended>>

HandleWriteMemory(a, n) ==
  /\ Begin(a, n)
  /\ \E data \in Data(n), k \in 0..n :
       /\ Reached(a, n, k)
       /\ store' = [x \in 0..(StoreSize - 1) |->
                      IF x < SramOffset + SramSize /\ Resident(x) - a \in 0..(k - 1)
                      THEN data[Resident(x) - a] ELSE store[x]]
       /\ reply' = Answer(a, data, k = n)
  /\ UNCHANGED <<dmi, program, line, extended>>

-----------------------------------------------------------------------------
Next ==
  \/ LoadData \/ LoadExtended \/ LoadEnd
  \/ \E a \in 0..(Top - 1) :
       \/ Fetch(a) \/ ReadWord(a) \/ WriteWord(a)
       \/ \E n \in 1..WordBytes :
            \/ ReadMemory(a, n) \/ WriteMemory(a, n)
            \/ HandleReadMemory(a, n) \/ HandleWriteMemory(a, n)
  \/ Return

Spec == Init /\ [][Next]_vars

-----------------------------------------------------------------------------
TypeOK ==
  /\ store \in [0..(StoreSize - 1) -> Byte]
  /\ dmi \in [User -> {NoDmi, FlashDmi, SramDmi}]
  /\ reply = None \/ \E a \in 0..(Top - 1), data \in {<<>>} \cup UNION {Data(n) : n \in 1..WordBytes}, ok \in BOOLEAN :
                        reply = Answer(a, data, ok)
  /\ program \in Programs \cup {<<>>} /\ line \in 0..(Len(program) + 1) /\ extended \in Nat

(***************************************************************************)
(* Whichever way an access takes, the direct pointer a user cached long    *)
(* ago, one granted for it, or the bus, every user sees one flat memory,   *)
(* in which a byte is what was last written to it.                         *)
(***************************************************************************)
Flat == INSTANCE FlatMemory WITH
          Region <- {Flash, Sram}, MaxAccess <- WordBytes, running <- line = 0,
          bytes <- [a \in Mapped |-> store[Offset(a)]]

ImplementsFlat == Flat!Spec

(***************************************************************************)
(* What the file says of address a: the value in the last data record that *)
(* covers a, or 0.  A record's address is relative to the extended address *)
(* in the nearest extended record before it; nothing after the end counts. *)
(***************************************************************************)
Base(i) ==
  LET before == {j \in 1..(i - 1) : program[j].kind = "extended"}
  IN IF before = {} THEN 0 ELSE program[CHOOSE j \in before : \A k \in before : k <= j].address

(* Record i is data that is read, not what comes after an end. *)
Live(i) == program[i].kind = "data" /\ \A j \in 1..i : program[j].kind # "end"

Says(i, a) == Live(i) /\ a - Base(i) - program[i].address \in 0..(Len(program[i].bytes) - 1)

Image(a) ==
  LET saying == {i \in 1..Len(program) : Says(i, a)}
      i == CHOOSE i \in saying : \A j \in saying : j <= i
  IN IF saying = {} THEN 0 ELSE program[i].bytes[a - Base(i) - program[i].address + 1]

(* Once load_hex_file is done, flash and SRAM hold what the file says, whatever *)
(* the order of its records and however they overlap.                           *)
LoadedImage == [][line # 0 /\ line' = 0 => \A a \in Mapped : store[Offset(a)] = Image(a)]_vars
=============================================================================
