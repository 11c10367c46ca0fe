----------------------------- MODULE FlatMemory -----------------------------
(***************************************************************************)
(* What memory promises the CPU, its instructions and the debugger:        *)
(* regions of bytes, filled by the loader, and then one access after the   *)
(* other, each of which reads what was last written, by whomever it was.   *)
(* Of an access that leaves the region it starts in, only the part in that *)
(* region is promised.                                                     *)
(***************************************************************************)
EXTENDS Integers

CONSTANTS
    Region,     \* the mapped regions, disjoint sets of addresses
    Top,        \* the size of the address space
    Byte,       \* the values of a byte; memory starts with 0
    MaxAccess   \* the length of the longest access

VARIABLES bytes, reply, running

Mapped == UNION Region
Home(a) == UNION {r \in Region : a \in r}
Span(a, n) == a..(a + n - 1)
Leaves(a, n) == ~(Span(a, n) \subseteq Home(a))

None == [address |-> -1]
Answer(a, data, ok) == [address |-> a, data |-> data, ok |-> ok]

Init ==
  /\ bytes = [a \in Mapped |-> 0]
  /\ reply = None
  /\ running = FALSE

Load ==
  /\ ~running
  /\ bytes' \in [Mapped -> Byte]
  /\ UNCHANGED <<reply, running>>

Start ==
  /\ running' = TRUE
  /\ UNCHANGED <<bytes, reply>>

Accept ==
  /\ reply # None /\ reply' = None
  /\ UNCHANGED <<bytes, running>>

(* An access to address a begins and is answered. *)
Request(a) == running /\ reply = None /\ reply'.address = a /\ UNCHANGED running

Read(a, n) ==
  /\ Request(a)
  /\ \E data \in [0..(n - 1) -> Byte] :
       /\ reply' = Answer(a, data, TRUE)
       /\ \A x \in Span(a, n) \cap Home(a) : data[x - a] = bytes[x]
  /\ UNCHANGED bytes

Write(a, n) ==
  /\ Request(a)
  /\ \E data \in [0..(n - 1) -> Byte] :
       /\ reply' = Answer(a, data, TRUE)
       /\ \A x \in Span(a, n) \cap Home(a) : bytes'[x] = data[x - a]
  /\ \A x \in Mapped \ (Span(a, n) \cap Home(a)) :
       bytes'[x] = bytes[x] \/ (x \notin Home(a) /\ a \in Mapped /\ Leaves(a, n))
  /\ bytes' \in [Mapped -> Byte]

(***************************************************************************)
(* The debugger asks for one byte after the other.  It is refused, when a  *)
(* byte is not there, with the bytes before it written.                    *)
(***************************************************************************)
ReadPacket(a, n) ==
  /\ Request(a)
  /\ \/ \E data \in [0..(n - 1) -> Byte] :
          /\ reply' = Answer(a, data, TRUE)
          /\ \A x \in Span(a, n) \cap Mapped : data[x - a] = bytes[x]
     \/ ~(Span(a, n) \subseteq Mapped) /\ reply' = Answer(a, <<>>, FALSE)
  /\ UNCHANGED bytes

WritePacket(a, n) ==
  /\ Request(a)
  /\ \E data \in [0..(n - 1) -> Byte], k \in 0..n :
       /\ reply' = Answer(a, data, k = n)
       /\ bytes' = [x \in Mapped |-> IF x - a \in 0..(k - 1) THEN data[x - a] ELSE bytes[x]]
       /\ Span(a, n) \subseteq Mapped => k = n

Next ==
  \/ Load \/ Start \/ Accept
  \/ \E a \in 0..(Top - 1), n \in 1..MaxAccess : Read(a, n) \/ Write(a, n) \/ ReadPacket(a, n) \/ WritePacket(a, n)

Spec == Init /\ [][Next]_<<bytes, reply, running>>
=============================================================================
