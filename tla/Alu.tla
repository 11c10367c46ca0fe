--------------------------------- MODULE Alu ---------------------------------
(***************************************************************************)
(* What the handlers of cpu/Execute.cpp compute from their operands, on    *)
(* words of WordBits bits, of which a halfword is the half and a byte the  *)
(* quarter.  Carry and overflow are found the way the code finds them,     *)
(* from the operands and the truncated result.                             *)
(***************************************************************************)
EXTENDS Dispatch, FiniteSetsExt

CONSTANT WordBits      \* 32 in the code

ASSUME WordBitsAssumption == WordBits \in Nat \ {0} /\ WordBits % 4 = 0

(* What the proofs need to know of powers of two. *)
ASSUME PowerAssumption ==
  /\ 2^(WordBits - 1) \in Nat \ {0} /\ 2^WordBits = 2 * 2^(WordBits - 1)
  /\ 2^(2 * WordBits) = 2^WordBits * 2^WordBits
  /\ 2^(2 * WordBits - 1) = 2^WordBits * 2^(WordBits - 1)

HalfBits == WordBits \div 2
ByteBits == WordBits \div 4

(* The same for the bytes of a word. *)
ASSUME BytesAssumption ==
  LET byte == 2^ByteBits
  IN  /\ byte \in Nat \ {0}
      /\ 2^(ByteBits * 2) = byte * byte /\ 2^(ByteBits * 3) = byte * byte * byte
      /\ 2^(ByteBits * 4) = byte * byte * byte * byte /\ 2^WordBits = 2^(ByteBits * 4)

Places   == 0 .. WordBits - 1
Word     == 0 .. 2^WordBits - 1

Low(x)    == x % 2^WordBits                      \* uint32_t arithmetic wraps
Signed(x) == SignExtend(x, WordBits)             \* (int32_t)x
Negative(x) == Bit(x, WordBits - 1) = 1
Extended(x, n) == Low(SignExtend(x % 2^n, n))    \* the low n bits, with their sign

FromBits(holds(_)) == MapThenSumSet(LAMBDA i : 2^i, {i \in Places : holds(i)})
Not(a)    == 2^WordBits - 1 - a
And(a, b) == FromBits(LAMBDA i : Bit(a, i) = 1 /\ Bit(b, i) = 1)
Or(a, b)  == FromBits(LAMBDA i : Bit(a, i) = 1 \/ Bit(b, i) = 1)
Xor(a, b) == FromBits(LAMBDA i : Bit(a, i) # Bit(b, i))

-----------------------------------------------------------------------------
(* A result with its carry and overflow. *)

Result(x, carry, overflow) == [result |-> x, c |-> carry, v |-> overflow]
Plain(x) == Result(x, FALSE, FALSE)

Add(a, b) ==
  LET x == Low(a + b)
  IN  Result(x, x < a, Negative(a) # Negative(x) /\ Negative(b) # Negative(x))

Subtract(a, b) ==
  LET x == Low(a - b)
  IN  Result(x, a >= b, Negative(a) # Negative(b) /\ Negative(a) # Negative(x))

(* Mutant: a sum that wraps to its own first operand has no carry. *)
AddCarryWrapped(a, b, carry) ==
  LET x == Low(a + b + carry)
  IN  Result(x, x < a, Negative(a) # Negative(x) /\ Negative(b) # Negative(x))

AddCarry(a, b, carry) ==
  LET x == Low(a + b + carry)
  IN  Result(x, x < a \/ (carry = 1 /\ x = a), Negative(a) # Negative(x) /\ Negative(b) # Negative(x))

(* The 16-bit form and the 32-bit form test for a borrow differently. *)
SubtractCarry16(a, b, carry) ==
  LET x == Low(a - b - (1 - carry))
  IN  Result(x, a >= b /\ a >= Low(b + 1 - carry), Negative(a) # Negative(b) /\ Negative(a) # Negative(x))

SubtractCarry32(a, b, carry) ==
  LET x == Low(a - b - (1 - carry))
  IN  Result(x, a >= b /\ (carry = 1 \/ a > b), Negative(a) # Negative(b) /\ Negative(a) # Negative(x))

(* Shifts by n bits, and the last bit shifted out; that of n = 0 is the caller's. *)
ShiftLeft(a, n, carry) ==
  Result(Low(a * 2^Min({n, WordBits})),
         IF n = 0 THEN carry ELSE n <= WordBits /\ Bit(a, WordBits - n) = 1, FALSE)

(* Mutant: the bit after the last one out is the carry. *)
ShiftRightLate(a, n, carry) ==
  Result(a \div 2^Min({n, WordBits}),
         IF n = 0 THEN carry ELSE n <= WordBits /\ Bit(a, n) = 1, FALSE)

ShiftRight(a, n, carry) ==
  Result(a \div 2^Min({n, WordBits}),
         IF n = 0 THEN carry ELSE n <= WordBits /\ Bit(a, n - 1) = 1, FALSE)

ShiftRightSigned(a, n, carry) ==
  LET k == Min({n, WordBits})
  IN  Result(Low(Signed(a) \div 2^k), IF n = 0 THEN carry ELSE Bit(Signed(a), k - 1) = 1, FALSE)

Rotate(a, n, carry) ==
  LET k == n % WordBits
      x == a \div 2^k + Low(a * 2^(WordBits - k))
  IN  IF n = 0 THEN Result(a, carry, FALSE)
      ELSE IF k = 0 THEN Result(a, Negative(a), FALSE) ELSE Result(x, Negative(x), FALSE)

(* apply_shift *)
ApplyShift(a, type, n) ==
  (CASE type = 0 -> ShiftLeft(a, n, FALSE)
     [] type = 1 -> ShiftRight(a, n, FALSE)
     [] type = 2 -> ShiftRightSigned(a, n, FALSE)
     [] type = 3 -> Rotate(a, n, FALSE)).result

-----------------------------------------------------------------------------
(* Bytes and bits *)

ByteOf(x, i) == (x \div 2^(ByteBits * i)) % 2^ByteBits
Reversed(x, n) == MapThenSumSet(LAMBDA i : ByteOf(x, i) * 2^(ByteBits * (n - 1 - i)), 0 .. n - 1)
Half(x) == x % 2^HalfBits

Rearranged(type, x) ==
  CASE type \in {"REV", "T32_REV"}     -> Reversed(x, 4)
    [] type \in {"REV16", "T32_REV16"} -> Reversed(x \div 2^HalfBits, 2) * 2^HalfBits + Reversed(x, 2)
    [] type \in {"REVSH", "T32_REVSH"} -> Extended(Reversed(x, 2), HalfBits)
    [] type = "T32_CLZ"  -> Cardinality({i \in Places : x < 2^i})
    [] type = "T32_RBIT" -> FromBits(LAMBDA i : Bit(x, WordBits - 1 - i) = 1)

(* BFI, BFC, UBFX and SBFX. The width has five bits, so that of a word reads as 0. *)
FieldOf(type, imm, source, target) ==
  LET width == (imm % 256) % WordBits
      lsb   == imm \div 256
      field == (source \div 2^lsb) % 2^width
      Put(x) == target - Low(((target \div 2^lsb) % 2^width) * 2^lsb) + x
  IN  CASE type = "T32_BFI"  -> Put(Low((source % 2^width) * 2^lsb))
        [] type = "T32_BFC"  -> Put(0)
        [] type = "T32_UBFX" -> field
        [] type = "T32_SBFX" -> Low(SignExtend(field, width))

-----------------------------------------------------------------------------
(* Multiplication, division, saturation *)

(* SDIV truncates towards zero. *)
Divide(type, a, b) ==
  IF b = 0 THEN 0
  ELSE IF type = "T32_UDIV" THEN a \div b
  ELSE LET q == Max({Signed(a), -Signed(a)}) \div Max({Signed(b), -Signed(b)})
       IN  Low(IF Negative(a) = Negative(b) THEN q ELSE -q)

(* The 64-bit result, from the accumulator high:low. *)
LongMultiply(type, a, b, high, low) ==
  LET accumulated == high * 2^WordBits + low
  IN  (CASE type = "T32_UMULL" -> a * b
         [] type = "T32_SMULL" -> Signed(a) * Signed(b)
         [] type = "T32_UMLAL" -> accumulated + a * b
         [] type = "T32_SMLAL" -> accumulated + Signed(a) * Signed(b)) % 2^(2 * WordBits)

Clamp(x, least, most) == Max({least, Min({x, most})})

(* SSAT and USAT: the value after the shift, and whether it was cut to the limit. *)
SaturateTo(type, imm, source) ==
  LET n       == imm % 128
      limit   == imm \div 2^16
      shifted == Signed(IF (imm \div 256) % 2 = 1 THEN source \div 2^n ELSE Low(source * 2^n))
      x == IF type = "T32_SSAT" THEN Clamp(shifted, -(2^(limit - 1)), 2^(limit - 1) - 1)
                                ELSE Clamp(shifted, 0, 2^limit - 1)
  IN  [result |-> Low(x), q |-> x # shifted]

-----------------------------------------------------------------------------
(* execute_parallel_addsub: the lanes of a word *)

Prefix == [t \in ParallelTypes |-> CHOOSE p \in {ParallelPrefixes[i] : i \in DOMAIN ParallelPrefixes} :
             \E n \in DOMAIN ParallelNames : t = "T32_" \o p \o ParallelNames[n]]
Pattern == [t \in ParallelTypes |-> CHOOSE n \in {ParallelNames[i] : i \in DOMAIN ParallelNames} :
              t = "T32_" \o Prefix[t] \o n]

LaneBits(pattern) == IF pattern \in {"ADD8", "SUB8"} THEN ByteBits ELSE HalfBits
LaneOf(x, i, n)   == (x \div 2^(n * i)) % 2^n

(* ASX subtracts in the upper lane, SAX in the lower one; neither exchanges lanes. *)
Subtracts(pattern, i) ==
  pattern \in {"SUB8", "SUB16"} \/ (pattern = "ASX" /\ i = 1) \/ (pattern = "SAX" /\ i = 0)

(* A signed lane is added as it is, an unsigned difference wraps before it is cut. *)
LaneResult(prefix, pattern, i, a, b) ==
  LET n  == LaneBits(pattern)
      x  == LaneOf(a, i, n)
      y  == LaneOf(b, i, n)
      sx == SignExtend(x, n)
      sy == SignExtend(y, n)
      signed   == IF Subtracts(pattern, i) THEN sx - sy ELSE sx + sy
      unsigned == IF Subtracts(pattern, i) THEN (x - y) % 2^n ELSE x + y
      cut == CASE prefix = "Q"  -> Clamp(signed, -(2^(n - 1)), 2^(n - 1) - 1)
               [] prefix = "UQ" -> Min({unsigned, 2^n - 1})
               [] prefix = "SH" -> signed \div 2
               [] prefix = "UH" -> unsigned \div 2
               [] prefix = "S"  -> signed
               [] prefix = "U"  -> unsigned
  IN  [result |-> cut % 2^n, q |-> (prefix = "Q" /\ cut # signed) \/ (prefix = "UQ" /\ cut # unsigned)]

ParallelAddSub(type, a, b) ==
  LET n     == LaneBits(Pattern[type])
      lanes == 0 .. WordBits \div n - 1
      Lane(i) == LaneResult(Prefix[type], Pattern[type], i, a, b)
  IN  [result |-> MapThenSumSet(LAMBDA i : Lane(i).result * 2^(n * i), lanes),
       q |-> \E i \in lanes : Lane(i).q]

-----------------------------------------------------------------------------
(* check_condition, for flags n, z, c, v *)

(* Mutant: GT and LE forget Z. *)
CheckConditionNoZero(cond, f) ==
  LET base == <<f.z, f.c, f.n, f.v, f.c /\ ~f.z, f.n = f.v, f.n = f.v, TRUE>>[cond \div 2 + 1]
  IN  base # (cond % 2 = 1)

(* An odd condition is the opposite of the even one before it; 15 is never. *)
CheckCondition(cond, f) ==
  LET base == <<f.z, f.c, f.n, f.v, f.c /\ ~f.z, f.n = f.v, ~f.z /\ f.n = f.v, TRUE>>[cond \div 2 + 1]
  IN  base # (cond % 2 = 1)
=============================================================================
