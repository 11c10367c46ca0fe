----------------------------- MODULE ExecuteProofs -----------------------------
(***************************************************************************)
(* Proofs about Alu and Execute. For every word length, carry and overflow,*)
(* which the code recomputes from the truncated result, are those of the   *)
(* exact one, the conditions after a comparison decide what the integers   *)
(* call for, and a signed quotient is exact with the remainder computed    *)
(* from it. What the member functions of cpu/Execute.cpp do, one lemma for *)
(* each kind of instruction, then gives, position by position, what the    *)
(* programs of ThumbPrograms compute in registers.                         *)
(***************************************************************************)
EXTENDS ThumbIdentities, TLAPS

Modulus == 2^WordBits
HalfWay == 2^(WordBits - 1)

Carry == {0, 1}

(* The integers a word can stand for. *)
SignedRange == -HalfWay .. HalfWay - 1

-----------------------------------------------------------------------------
LEMMA Sizes ==
  /\ Modulus \in Nat \ {0}
  /\ HalfWay \in Nat \ {0}
  /\ Modulus = 2 * HalfWay
  /\ Word = 0 .. Modulus - 1
  BY PowerAssumption DEF Modulus, HalfWay, Word

LEMMA Truncated ==
  ASSUME NEW m \in Nat \ {0}, NEW w \in Int
  PROVE  /\ w \in -m .. -1 => w % m = w + m
         /\ w \in 0 .. m - 1 => w % m = w
         /\ w \in m .. 2 * m - 1 => w % m = w - m
  OBVIOUS

LEMMA Differ ==
  ASSUME NEW p \in BOOLEAN, NEW q \in BOOLEAN
  PROVE  (p # q) <=> ((p /\ ~q) \/ (~p /\ q))
  BY Zenon

(* A sum or difference of two words is cut once at most. *)
LEMMA LowIs ==
  ASSUME NEW w \in Int
  PROVE  /\ w \in -Modulus .. -1 => Low(w) = w + Modulus
         /\ w \in 0 .. Modulus - 1 => Low(w) = w
         /\ w \in Modulus .. 2 * Modulus - 1 => Low(w) = w - Modulus
<1>1. Low(w) = w % Modulus
  BY DEF Low, Modulus
<1> QED BY <1>1, Sizes, Truncated

LEMMA SignIs ==
  ASSUME NEW w \in Word
  PROVE  /\ Negative(w) <=> w >= HalfWay
         /\ Signed(w) = IF w >= HalfWay THEN w - Modulus ELSE w
         /\ Signed(w) \in SignedRange
<1>1. w \in 0 .. 2 * HalfWay - 1
  BY Sizes
<1>2. Signed(w) = IF w >= HalfWay THEN w - Modulus ELSE w
  BY DEF Signed, SignExtend, Modulus, HalfWay
<1>3. Negative(w) <=> (w \div HalfWay) % 2 = 1
  BY WordBitsAssumption DEF Negative, Bit, Bits, HalfWay
<1>4. w >= HalfWay => w \div HalfWay = 1
  BY <1>1, Sizes
<1>5. w < HalfWay => w \div HalfWay = 0
  BY <1>1, Sizes
<1>6. Negative(w) <=> w >= HalfWay
  BY <1>1, <1>3, <1>4, <1>5, Sizes
<1> QED BY <1>1, <1>2, <1>6, Sizes DEF SignedRange

(* A word is its sign: neither half of the words is empty or overlaps the other. *)
LEMMA SignFacts ==
  ASSUME NEW w \in Word
  PROVE  /\ w \in 0 .. Modulus - 1
         /\ Negative(w) \in BOOLEAN
         /\ Negative(w) <=> w >= HalfWay
         /\ Signed(w) = IF w >= HalfWay THEN w - Modulus ELSE w
  BY Sizes, SignIs DEF Negative

(***************************************************************************)
(* The rule for the overflow of a sum, two operands of one sign and a      *)
(* result of the other, for a sum with a carry.                            *)
(***************************************************************************)
LEMMA SumOverflow ==
  ASSUME NEW a \in Word, NEW b \in Word, NEW carry \in Carry
  PROVE  LET w == Low(a + b + carry) IN
         /\ w \in Word
         /\ w = a + b + carry - IF a + b + carry >= Modulus THEN Modulus ELSE 0
         /\ ((Negative(a) # Negative(w)) /\ (Negative(b) # Negative(w)))
              <=> Signed(a) + Signed(b) + carry \notin SignedRange
<1> DEFINE w == Low(a + b + carry)
           opposite == \/ a >= HalfWay /\ b >= HalfWay /\ ~(w >= HalfWay)
                       \/ ~(a >= HalfWay) /\ ~(b >= HalfWay) /\ w >= HalfWay
<1>1. a \in 0 .. Modulus - 1 /\ b \in 0 .. Modulus - 1
  BY Sizes
<1>2. /\ w = (IF a + b + carry >= Modulus THEN a + b + carry - Modulus ELSE a + b + carry)
      /\ w \in Word
  BY <1>1, LowIs, Sizes DEF Carry
<1> HIDE DEF w
<1>3. ((Negative(a) # Negative(w)) /\ (Negative(b) # Negative(w))) <=> opposite
  <2>1. /\ Negative(a) \in BOOLEAN /\ Negative(b) \in BOOLEAN /\ Negative(w) \in BOOLEAN
        /\ Negative(a) <=> a >= HalfWay
        /\ Negative(b) <=> b >= HalfWay
        /\ Negative(w) <=> w >= HalfWay
    BY <1>2, SignFacts
  <2>2. ((Negative(a) # Negative(w)) /\ (Negative(b) # Negative(w)))
          <=> \/ Negative(a) /\ Negative(b) /\ ~Negative(w)
              \/ ~Negative(a) /\ ~Negative(b) /\ Negative(w)
    BY <2>1, Differ, Zenon
  <2> QED BY <2>1, <2>2, Zenon
<1>4. (Signed(a) + Signed(b) + carry \notin SignedRange) <=> opposite
  <2>1. /\ Signed(a) = IF a >= HalfWay THEN a - Modulus ELSE a
        /\ Signed(b) = IF b >= HalfWay THEN b - Modulus ELSE b
    BY SignFacts
  <2> QED BY <1>1, <1>2, <2>1, Sizes DEF SignedRange, Carry
<1>5. w = a + b + carry - IF a + b + carry >= Modulus THEN Modulus ELSE 0
  BY <1>1, <1>2, Sizes DEF Carry
<1> QED BY <1>2, <1>3, <1>4, <1>5, Zenon DEF w

(* The same for a difference: operands of different sign, the result of the second's. *)
LEMMA DifferenceOverflow ==
  ASSUME NEW a \in Word, NEW b \in Word, NEW borrow \in Carry
  PROVE  LET w == Low(a - b - borrow) IN
         /\ w \in Word
         /\ w = a - b - borrow + IF a >= b + borrow THEN 0 ELSE Modulus
         /\ ((Negative(a) # Negative(b)) /\ (Negative(a) # Negative(w)))
              <=> Signed(a) - Signed(b) - borrow \notin SignedRange
<1> DEFINE w == Low(a - b - borrow)
           opposite == \/ a >= HalfWay /\ ~(b >= HalfWay) /\ ~(w >= HalfWay)
                       \/ ~(a >= HalfWay) /\ b >= HalfWay /\ w >= HalfWay
<1>1. a \in 0 .. Modulus - 1 /\ b \in 0 .. Modulus - 1
  BY Sizes
<1>2. w = (IF a >= b + borrow THEN a - b - borrow ELSE a - b - borrow + Modulus) /\ w \in Word
  BY <1>1, LowIs, Sizes DEF Carry
<1> HIDE DEF w
<1>3. ((Negative(a) # Negative(b)) /\ (Negative(a) # Negative(w))) <=> opposite
  <2>1. /\ Negative(a) \in BOOLEAN /\ Negative(b) \in BOOLEAN /\ Negative(w) \in BOOLEAN
        /\ Negative(a) <=> a >= HalfWay
        /\ Negative(b) <=> b >= HalfWay
        /\ Negative(w) <=> w >= HalfWay
    BY <1>2, SignFacts
  <2>2. ((Negative(a) # Negative(b)) /\ (Negative(a) # Negative(w)))
          <=> \/ Negative(a) /\ ~Negative(b) /\ ~Negative(w)
              \/ ~Negative(a) /\ Negative(b) /\ Negative(w)
    BY <2>1, Differ, Zenon
  <2> QED BY <2>1, <2>2, Zenon
<1>4. (Signed(a) - Signed(b) - borrow \notin SignedRange) <=> opposite
  <2>1. /\ Signed(a) = IF a >= HalfWay THEN a - Modulus ELSE a
        /\ Signed(b) = IF b >= HalfWay THEN b - Modulus ELSE b
    BY SignFacts
  <2> QED BY <1>1, <1>2, <2>1, Sizes DEF SignedRange, Carry
<1>5. w = a - b - borrow + IF a >= b + borrow THEN 0 ELSE Modulus
  BY <1>1, <1>2, Sizes DEF Carry
<1> QED BY <1>2, <1>3, <1>4, <1>5, Zenon DEF w

-----------------------------------------------------------------------------
(***************************************************************************)
(* ADC: the carry is that of the unsigned sum, the overflow that of the    *)
(* signed one, although a carry in can wrap the sum to its own first       *)
(* operand (execute_data_processing).                                      *)
(***************************************************************************)
THEOREM AddCarryExact ==
  ASSUME NEW a \in Word, NEW b \in Word, NEW carry \in Carry
  PROVE  LET out == AddCarry(a, b, carry) IN
         /\ out.result = a + b + carry - IF out.c THEN Modulus ELSE 0
         /\ out.c <=> a + b + carry >= Modulus
         /\ out.v <=> Signed(a) + Signed(b) + carry \notin SignedRange
<1> DEFINE w == Low(a + b + carry)
           out == AddCarry(a, b, carry)
<1>1. out.result = w
  BY DEF AddCarry, Result
<1>2. out.c <=> (w < a \/ (carry = 1 /\ w = a))
  BY DEF AddCarry, Result
<1>3. out.v <=> ((Negative(a) # Negative(w)) /\ (Negative(b) # Negative(w)))
  BY DEF AddCarry, Result
<1> HIDE DEF out
<1>4. /\ w \in Word
      /\ w = a + b + carry - IF a + b + carry >= Modulus THEN Modulus ELSE 0
      /\ ((Negative(a) # Negative(w)) /\ (Negative(b) # Negative(w)))
           <=> Signed(a) + Signed(b) + carry \notin SignedRange
  BY SumOverflow, Zenon
<1> HIDE DEF w
<1>5. out.c <=> a + b + carry >= Modulus
  BY <1>2, <1>4, Sizes DEF Carry
<1>6. out.v <=> Signed(a) + Signed(b) + carry \notin SignedRange
  BY <1>3, <1>4, Zenon
<1>7. out.result = a + b + carry - IF out.c THEN Modulus ELSE 0
  BY <1>1, <1>4, <1>5, Sizes DEF Carry
<1> QED BY <1>5, <1>6, <1>7, Zenon DEF out

(***************************************************************************)
(* ADD and CMN: the same without a carry in (execute_data_processing).     *)
(***************************************************************************)
THEOREM AddExact ==
  ASSUME NEW a \in Word, NEW b \in Word
  PROVE  LET out == Add(a, b) IN
         /\ out.result = a + b - IF out.c THEN Modulus ELSE 0
         /\ out.c <=> a + b >= Modulus
         /\ out.v <=> Signed(a) + Signed(b) \notin SignedRange
<1>1. a + b + 0 = a + b /\ Signed(a) + Signed(b) + 0 = Signed(a) + Signed(b)
  BY Sizes, SignFacts
<1>2. Add(a, b) = AddCarry(a, b, 0) /\ 0 \in Carry
  BY <1>1 DEF Add, AddCarry, Carry
<1>3. LET out == AddCarry(a, b, 0) IN
      /\ out.result = a + b + 0 - IF out.c THEN Modulus ELSE 0
      /\ out.c <=> a + b + 0 >= Modulus
      /\ out.v <=> Signed(a) + Signed(b) + 0 \notin SignedRange
  BY <1>2, AddCarryExact
<1> DEFINE out == AddCarry(a, b, 0)
<1> HIDE DEF out
<1>4. out.c <=> a + b >= Modulus
  BY <1>1, <1>3, Zenon DEF out
<1>5. out.v <=> Signed(a) + Signed(b) \notin SignedRange
  BY <1>1, <1>3, Zenon DEF out
<1>6. out.result = a + b - IF out.c THEN Modulus ELSE 0
  <2>1. out.result = a + b + 0 - IF out.c THEN Modulus ELSE 0
    BY <1>3, Zenon DEF out
  <2> QED BY <1>1, <2>1, Sizes
<1>7. out = Add(a, b)
  BY <1>2 DEF out
<1> QED BY <1>4, <1>5, <1>6, <1>7, Zenon

(***************************************************************************)
(* SUB, CMP, NEG and RSB: the carry says that there was no borrow.         *)
(***************************************************************************)
THEOREM SubtractExact ==
  ASSUME NEW a \in Word, NEW b \in Word
  PROVE  LET out == Subtract(a, b) IN
         /\ out.result \in Word
         /\ out.result = a - b + IF out.c THEN 0 ELSE Modulus
         /\ out.c <=> a >= b
         /\ out.v <=> Signed(a) - Signed(b) \notin SignedRange
<1> DEFINE w == Low(a - b)
           out == Subtract(a, b)
<1>1. /\ a - b - 0 = a - b /\ b + 0 = b
      /\ Signed(a) - Signed(b) - 0 = Signed(a) - Signed(b)
  BY Sizes, SignFacts
<1>2. /\ w \in Word
      /\ w = a - b + IF a >= b THEN 0 ELSE Modulus
      /\ ((Negative(a) # Negative(b)) /\ (Negative(a) # Negative(w)))
           <=> Signed(a) - Signed(b) \notin SignedRange
  <2>1. /\ Low(a - b - 0) \in Word
        /\ Low(a - b - 0) = a - b - 0 + IF a >= b + 0 THEN 0 ELSE Modulus
        /\ ((Negative(a) # Negative(b)) /\ (Negative(a) # Negative(Low(a - b - 0))))
             <=> Signed(a) - Signed(b) - 0 \notin SignedRange
    <3>1. 0 \in Carry
      BY DEF Carry
    <3> QED BY <3>1, DifferenceOverflow, Zenon
  <2> QED BY <1>1, <2>1, Zenon
<1>3. out.result = w /\ (out.c <=> a >= b)
  BY DEF Subtract, Result
<1>4. out.v <=> ((Negative(a) # Negative(b)) /\ (Negative(a) # Negative(w)))
  BY DEF Subtract, Result
<1> HIDE DEF w, out
<1>5. out.v <=> Signed(a) - Signed(b) \notin SignedRange
  BY <1>2, <1>4, Zenon
<1>6. out.result = a - b + IF out.c THEN 0 ELSE Modulus
  BY <1>2, <1>3, Sizes
<1> QED BY <1>2, <1>3, <1>5, <1>6, Zenon DEF out

(***************************************************************************)
(* SBC in its 32-bit form: the borrow out is that of the difference with   *)
(* the borrow in (execute_t32_data_processing).                            *)
(***************************************************************************)
THEOREM SubtractCarryExact ==
  ASSUME NEW a \in Word, NEW b \in Word, NEW carry \in Carry
  PROVE  LET out == SubtractCarry32(a, b, carry) IN
         /\ out.result = a - b - (1 - carry) + IF out.c THEN 0 ELSE Modulus
         /\ out.c <=> a >= b + (1 - carry)
         /\ out.v <=> Signed(a) - Signed(b) - (1 - carry) \notin SignedRange
<1> DEFINE borrow == 1 - carry
           w == Low(a - b - borrow)
           out == SubtractCarry32(a, b, carry)
<1>1. out.result = w
  BY DEF SubtractCarry32, Result
<1>2. out.c <=> (a >= b /\ (carry = 1 \/ a > b))
  BY DEF SubtractCarry32, Result
<1>3. out.v <=> ((Negative(a) # Negative(b)) /\ (Negative(a) # Negative(w)))
  BY DEF SubtractCarry32, Result
<1>4. borrow \in Carry
  BY DEF Carry
<1>5. /\ w = a - b - borrow + IF a >= b + borrow THEN 0 ELSE Modulus
      /\ ((Negative(a) # Negative(b)) /\ (Negative(a) # Negative(w)))
           <=> Signed(a) - Signed(b) - borrow \notin SignedRange
  BY <1>4, DifferenceOverflow, Zenon
<1> HIDE DEF w, out
<1>6. out.c <=> a >= b + borrow
  BY <1>2, Sizes DEF Carry
<1> HIDE DEF borrow
<1>7. out.v <=> Signed(a) - Signed(b) - borrow \notin SignedRange
  BY <1>3, <1>5, Zenon
<1>8. out.result = a - b - borrow + IF out.c THEN 0 ELSE Modulus
  BY <1>1, <1>5, <1>6, Zenon
<1> QED BY <1>6, <1>7, <1>8, Zenon DEF borrow, out

(***************************************************************************)
(* SBC in its 16-bit form: the borrow is lost for one pair of operands,    *)
(* the largest word less itself with a borrow in, and only for that pair   *)
(* (execute_data_processing adds the borrow in to the second operand and   *)
(* compares with the wrapped sum).                                         *)
(***************************************************************************)
THEOREM SubtractCarryLosesOneBorrow ==
  ASSUME NEW a \in Word, NEW b \in Word, NEW carry \in Carry
  PROVE  /\ SubtractCarry16(a, b, carry).result = SubtractCarry32(a, b, carry).result
         /\ SubtractCarry16(a, b, carry).v = SubtractCarry32(a, b, carry).v
         /\ (SubtractCarry16(a, b, carry).c <=> SubtractCarry32(a, b, carry).c)
              <=> ~(carry = 0 /\ a = Modulus - 1 /\ b = Modulus - 1)
<1>1. a \in 0 .. Modulus - 1 /\ b \in 0 .. Modulus - 1
  BY Sizes
<1>2. Low(b + 1 - carry) = IF carry = 0 /\ b = Modulus - 1 THEN 0 ELSE b + 1 - carry
  BY <1>1, LowIs, Sizes DEF Carry
<1>3. SubtractCarry16(a, b, carry).c <=> (a >= b /\ a >= Low(b + 1 - carry))
  BY DEF SubtractCarry16, Result
<1>4. SubtractCarry32(a, b, carry).c <=> (a >= b /\ (carry = 1 \/ a > b))
  BY DEF SubtractCarry32, Result
<1>5. (SubtractCarry16(a, b, carry).c <=> SubtractCarry32(a, b, carry).c)
        <=> ~(carry = 0 /\ a = Modulus - 1 /\ b = Modulus - 1)
  BY <1>1, <1>2, <1>3, <1>4, Sizes DEF Carry
<1>6. /\ SubtractCarry16(a, b, carry).result = SubtractCarry32(a, b, carry).result
      /\ SubtractCarry16(a, b, carry).v = SubtractCarry32(a, b, carry).v
  BY DEF SubtractCarry16, SubtractCarry32, Result
<1> QED BY <1>5, <1>6

-----------------------------------------------------------------------------
(***************************************************************************)
(* After a comparison, which sets the flags with update_flags, the         *)
(* conditions of check_condition order the operands: EQ and NE, HS and LO, *)
(* HI and LS as unsigned numbers, GE and LT, GT and LE as signed ones.  N  *)
(* alone would not do: it is wrong when the difference overflows.          *)
(***************************************************************************)
THEOREM ConditionsOrder ==
  ASSUME NEW a \in Word, NEW b \in Word, NEW f,
         f.n = Negative(Subtract(a, b).result), f.z = (Subtract(a, b).result = 0),
         f.c = Subtract(a, b).c, f.v = Subtract(a, b).v
  PROVE  /\ CheckCondition(0, f)  <=> a = b
         /\ CheckCondition(1, f)  <=> a # b
         /\ CheckCondition(2, f)  <=> a >= b
         /\ CheckCondition(3, f)  <=> a < b
         /\ CheckCondition(8, f)  <=> a > b
         /\ CheckCondition(9, f)  <=> a <= b
         /\ CheckCondition(10, f) <=> Signed(a) >= Signed(b)
         /\ CheckCondition(11, f) <=> Signed(a) < Signed(b)
         /\ CheckCondition(12, f) <=> Signed(a) > Signed(b)
         /\ CheckCondition(13, f) <=> Signed(a) <= Signed(b)
<1> DEFINE w == Subtract(a, b).result
<1>1. a \in 0 .. Modulus - 1 /\ b \in 0 .. Modulus - 1
  BY Sizes
<1>2. f.n \in BOOLEAN /\ f.z \in BOOLEAN /\ f.c \in BOOLEAN /\ f.v \in BOOLEAN
  BY DEF Negative, Subtract, Result
<1>3. w \in Word /\ w = a - b + IF a >= b THEN 0 ELSE Modulus
  <2>1. Subtract(a, b).c <=> a >= b
    BY SubtractExact
  <2>2. w \in Word /\ w = a - b + IF Subtract(a, b).c THEN 0 ELSE Modulus
    BY SubtractExact
  <2> QED BY <2>1, <2>2, Zenon
<1> HIDE DEF w
<1>4. f.c <=> a >= b
  BY SubtractExact
<1>5. f.z <=> a = b
  <2>1. f.z <=> w = 0
    BY DEF w
  <2> QED BY <1>1, <1>3, <2>1, Sizes
<1>6. f.n <=> w >= HalfWay
  <2>1. f.n <=> Negative(w)
    BY DEF w
  <2> QED BY <1>3, <2>1, SignFacts
<1>7. f.v <=> Signed(a) - Signed(b) \notin SignedRange
  BY SubtractExact
<1>8. (f.n <=> f.v) <=> Signed(a) >= Signed(b)
  BY <1>1, <1>3, <1>6, <1>7, SignFacts, Sizes DEF SignedRange
<1>9. Signed(a) = Signed(b) <=> a = b
  BY <1>1, SignFacts, Sizes
<1>10. Signed(a) \in Int /\ Signed(b) \in Int
  BY <1>1, SignFacts, Sizes
<1> DEFINE base == <<f.z, f.c, f.n, f.v, f.c /\ ~f.z, f.n = f.v, ~f.z /\ f.n = f.v, TRUE>>
<1>11. ASSUME NEW k \in 1 .. 7, base[k] \in BOOLEAN
       PROVE  /\ CheckCondition(2 * k - 2, f) <=> base[k]
              /\ CheckCondition(2 * k - 1, f) <=> ~base[k]
  <2> DEFINE even == 2 * k - 2
             odd == 2 * k - 1
  <2>1. /\ even \div 2 + 1 = k /\ (even % 2 = 1) = FALSE
        /\ odd \div 2 + 1 = k /\ (odd % 2 = 1) = TRUE
    OBVIOUS
  <2> HIDE DEF even, odd
  <2>2. /\ CheckCondition(even, f) = (base[even \div 2 + 1] # (even % 2 = 1))
        /\ CheckCondition(odd, f) = (base[odd \div 2 + 1] # (odd % 2 = 1))
    BY Zenon DEF CheckCondition
  <2> HIDE DEF base
  <2>3. /\ CheckCondition(even, f) = (base[k] # FALSE)
        /\ CheckCondition(odd, f) = (base[k] # TRUE)
    BY <2>1, <2>2, Zenon
  <2> QED BY <1>11, <2>3, Zenon DEF even, odd
<1>12. /\ base[1] \in BOOLEAN /\ base[2] \in BOOLEAN /\ base[5] \in BOOLEAN
       /\ base[6] \in BOOLEAN /\ base[7] \in BOOLEAN
       /\ base[1] <=> a = b
       /\ base[2] <=> a >= b
       /\ base[5] <=> a > b
       /\ base[6] <=> Signed(a) >= Signed(b)
       /\ base[7] <=> Signed(a) > Signed(b)
  <2>1. /\ base[1] = f.z /\ base[2] = f.c /\ base[5] = (f.c /\ ~f.z)
        /\ base[6] = (f.n = f.v) /\ base[7] = (~f.z /\ f.n = f.v)
    OBVIOUS
  <2>2. (f.n = f.v) \in BOOLEAN /\ ((f.n = f.v) <=> Signed(a) >= Signed(b))
    BY <1>2, <1>8, Zenon
  <2>3. (f.c /\ ~f.z) <=> a > b
    BY <1>1, <1>4, <1>5
  <2>4. (~f.z /\ f.n = f.v) <=> Signed(a) > Signed(b)
    BY <1>5, <1>9, <1>10, <2>2
  <2> HIDE DEF base
  <2> QED BY <1>2, <1>4, <1>5, <2>1, <2>2, <2>3, <2>4, Zenon
<1> HIDE DEF base
<1>13. /\ CheckCondition(0, f) <=> base[1]
       /\ CheckCondition(1, f) <=> ~base[1]
       /\ CheckCondition(2, f) <=> base[2]
       /\ CheckCondition(3, f) <=> ~base[2]
       /\ CheckCondition(8, f) <=> base[5]
       /\ CheckCondition(9, f) <=> ~base[5]
       /\ CheckCondition(10, f) <=> base[6]
       /\ CheckCondition(11, f) <=> ~base[6]
       /\ CheckCondition(12, f) <=> base[7]
       /\ CheckCondition(13, f) <=> ~base[7]
  BY <1>11, <1>12
<1> QED BY <1>1, <1>10, <1>12, <1>13

LEMMA FlagsAreBooleans ==
  ASSUME NEW a, NEW b
  PROVE  /\ Add(a, b).c \in BOOLEAN /\ Add(a, b).v \in BOOLEAN
         /\ Subtract(a, b).c \in BOOLEAN /\ Subtract(a, b).v \in BOOLEAN
         /\ Negative(a) \in BOOLEAN
<1>1. Add(a, b).c \in BOOLEAN
  BY DEF Add, Result
<1>2. Add(a, b).v \in BOOLEAN
  BY DEF Add, Result
<1>3. Subtract(a, b).c \in BOOLEAN
  BY DEF Subtract, Result
<1>4. Subtract(a, b).v \in BOOLEAN
  BY DEF Subtract, Result
<1>5. Negative(a) \in BOOLEAN
  BY DEF Negative
<1> QED BY <1>1, <1>2, <1>3, <1>4, <1>5

(* What a word with the value d modulo 2^WordBits stands for. *)
LEMMA Wraps ==
  ASSUME NEW d \in -Modulus .. Modulus - 1
  PROVE  /\ Low(d) \in Word
         /\ (Signed(Low(d)) = d) <=> d \in SignedRange
<1>1. Low(d) = IF d < 0 THEN d + Modulus ELSE d
  BY Sizes, LowIs
<1>2. Low(d) \in Word /\ Low(d) \in 0 .. Modulus - 1
  BY <1>1, Sizes
<1>3. Signed(Low(d)) = IF Low(d) >= HalfWay THEN Low(d) - Modulus ELSE Low(d)
  BY <1>2, SignFacts
<1> QED BY <1>1, <1>2, <1>3, Sizes DEF SignedRange

(***************************************************************************)
(* N, Z, C and V of a sum and of a difference in terms of the exact        *)
(* integer d that the operands stand for: N is its sign unless it          *)
(* overflows, and it is positive exactly if it is not negative and Z is    *)
(* clear (update_flags after execute_data_processing).                     *)
(***************************************************************************)
THEOREM SumFlagsExact ==
  ASSUME NEW a \in Word, NEW b \in Word
  PROVE  LET out == Add(a, b)
             d   == Signed(a) + Signed(b)
         IN  /\ out.result \in Word
             /\ out.c <=> a + b >= Modulus
             /\ out.v <=> Signed(Low(d)) # d
             /\ out.result = 0 <=> Low(a + b) = 0
             /\ Negative(out.result) <=> ((d < 0) <=> ~out.v)
             /\ d > 0 <=> d >= 0 /\ out.result # 0
<1> DEFINE out == Add(a, b)
           d   == Signed(a) + Signed(b)
<1>1. a \in 0 .. Modulus - 1 /\ b \in 0 .. Modulus - 1
  BY Sizes
<1>2. /\ Signed(a) = IF a >= HalfWay THEN a - Modulus ELSE a
      /\ Signed(b) = IF b >= HalfWay THEN b - Modulus ELSE b
  BY SignFacts
<1>3. d \in -Modulus .. Modulus - 1
  BY <1>1, <1>2, Sizes
<1>4. out.c <=> a + b >= Modulus
  BY AddExact
<1>5. out.v <=> d \notin SignedRange
  BY AddExact
<1>6. out.result = Low(a + b)
  BY DEF Add, Result
<1>7. out.result = a + b - IF a + b >= Modulus THEN Modulus ELSE 0
  BY <1>1, <1>6, LowIs, Sizes
<1>8. out.result \in Word
  BY <1>1, <1>7, Sizes
<1>9. Negative(out.result) <=> out.result >= HalfWay
  BY <1>8, SignFacts
<1>10. Signed(Low(d)) # d <=> d \notin SignedRange
  BY <1>3, Wraps
<1> HIDE DEF out
<1>11. out.result >= HalfWay <=> ((d < 0) <=> d \in SignedRange)
  BY <1>1, <1>2, <1>7, Sizes DEF SignedRange
<1>12. d > 0 <=> d >= 0 /\ out.result # 0
  BY <1>1, <1>2, <1>7, Sizes
<1> HIDE DEF d
<1> QED BY <1>4, <1>5, <1>6, <1>8, <1>9, <1>10, <1>11, <1>12, Zenon DEF out, d

(***************************************************************************)
(* The same for a difference (CMP, SUB, RSB).                              *)
(***************************************************************************)
THEOREM DifferenceFlagsExact ==
  ASSUME NEW a \in Word, NEW b \in Word
  PROVE  LET out == Subtract(a, b)
             d   == Signed(a) - Signed(b)
         IN  /\ out.result \in Word
             /\ out.c <=> a >= b
             /\ out.v <=> Signed(Low(d)) # d
             /\ out.result = 0 <=> a = b
             /\ Negative(out.result) <=> ((d < 0) <=> ~out.v)
             /\ d > 0 <=> d >= 0 /\ out.result # 0
<1> DEFINE out == Subtract(a, b)
           d   == Signed(a) - Signed(b)
<1>1. a \in 0 .. Modulus - 1 /\ b \in 0 .. Modulus - 1
  BY Sizes
<1>2. /\ Signed(a) = IF a >= HalfWay THEN a - Modulus ELSE a
      /\ Signed(b) = IF b >= HalfWay THEN b - Modulus ELSE b
  BY SignFacts
<1>3. d \in -Modulus .. Modulus - 1
  BY <1>1, <1>2, Sizes
<1>4. out.c <=> a >= b
  BY SubtractExact
<1>5. out.v <=> d \notin SignedRange
  BY SubtractExact
<1>6. out.result = Low(a - b)
  BY DEF Subtract, Result
<1>7. out.result = a - b + IF a >= b THEN 0 ELSE Modulus
  BY <1>1, <1>6, LowIs, Sizes
<1>8. out.result \in Word
  BY <1>1, <1>7, Sizes
<1>9. Negative(out.result) <=> out.result >= HalfWay
  BY <1>8, SignFacts
<1>10. Signed(Low(d)) # d <=> d \notin SignedRange
  BY <1>3, Wraps
<1> HIDE DEF out
<1>11. out.result >= HalfWay <=> ((d < 0) <=> d \in SignedRange)
  BY <1>1, <1>2, <1>7, Sizes DEF SignedRange
<1>12. d > 0 <=> d >= 0 /\ out.result # 0
  BY <1>1, <1>2, <1>7, Sizes
<1>13. out.result = 0 <=> a = b
  BY <1>1, <1>7, Sizes
<1> HIDE DEF d
<1> QED BY <1>4, <1>5, <1>8, <1>9, <1>10, <1>11, <1>12, <1>13, Zenon DEF out, d

-----------------------------------------------------------------------------
(* Products and quotients *)

(* Products with a natural number keep the order. *)
LEMMA Ordered ==
  ASSUME NEW m \in Nat, NEW a \in Int, NEW b \in Int, a <= b
  PROVE  a * m <= b * m
  OBVIOUS

LEMMA Distributed ==
  ASSUME NEW m \in Int, NEW a \in Int, NEW b \in Int, NEW k \in Int
  PROVE  /\ a * m \in Int /\ b * m \in Int /\ k * m \in Int
         /\ (a + b + k) * m = a * m + b * m + k * m
         /\ (a - b - k) * m = a * m - b * m - k * m
         /\ (a - m) * m = a * m - m * m
         /\ (a + m) * m = a * m + m * m
  OBVIOUS

LEMMA DivMod ==
  ASSUME NEW m \in Nat \ {0}, NEW a \in Int
  PROVE  a = (a \div m) * m + (a % m) /\ a \div m \in Int /\ a % m \in 0 .. m - 1
  OBVIOUS

LEMMA DivBounds ==
  ASSUME NEW m \in Nat \ {0}, NEW a \in 0 .. m * m - 1
  PROVE  a \div m \in 0 .. m - 1
<1>1. a = (a \div m) * m + (a % m) /\ a \div m \in Int /\ a % m \in 0 .. m - 1
  BY DivMod
<1> DEFINE q == a \div m
<1>2. SUFFICES q \in 0 .. m - 1
  OBVIOUS
<1> HIDE DEF q
<1>3. q < m
  <2>1. SUFFICES ASSUME m <= q PROVE FALSE
    BY <1>1 DEF q
  <2>2. m * m <= q * m
    BY <1>1, <2>1, Ordered DEF q
  <2> QED BY <1>1, <2>2 DEF q
<1>4. q >= 0
  <2>1. SUFFICES ASSUME q <= -1 PROVE FALSE
    BY <1>1 DEF q
  <2>2. q * m <= (-1) * m
    BY <1>1, <2>1, Ordered DEF q
  <2>3. (-1) * m = -m
    OBVIOUS
  <2> QED BY <1>1, <2>2, <2>3 DEF q
<1> QED BY <1>1, <1>3, <1>4 DEF q

LEMMA Cancel ==
  ASSUME NEW m \in Nat \ {0}, NEW a \in Int, NEW b \in Int, NEW l \in Int
  PROVE  /\ a * m + l = b * m + l <=> a = b
         /\ \A k \in 0 .. m - 1 : a * m + k >= b * m <=> a >= b
<1>1. ASSUME a < b PROVE a * m <= b * m - m
  <2>1. a * m <= (b - 1) * m
    BY <1>1, Ordered
  <2>2. (b - 1) * m = b * m - m
    OBVIOUS
  <2> QED BY <2>1, <2>2
<1>2. ASSUME b < a PROVE b * m <= a * m - m
  <2>1. b * m <= (a - 1) * m
    BY <1>2, Ordered
  <2>2. (a - 1) * m = a * m - m
    OBVIOUS
  <2> QED BY <2>1, <2>2
<1>3. a * m \in Int /\ b * m \in Int
  OBVIOUS
<1> QED BY <1>1, <1>2, <1>3

LEMMA Product ==
  ASSUME NEW k \in Nat, NEW a \in Int, NEW b \in Int
  PROVE  /\ a \in 0 .. k /\ b \in 0 .. k => a * b \in 0 .. k * k
         /\ a \in -k .. k /\ b \in -k .. k => a * b \in -(k * k) .. k * k
<1>1. ASSUME NEW u \in 0 .. k, NEW v \in 0 .. k PROVE u * v \in 0 .. k * k
  <2>1. 0 * v <= u * v /\ u * v <= k * v
    BY Ordered
  <2>2. v * k <= k * k
    BY Ordered
  <2> QED BY <2>1, <2>2
<1>2. (-a) * b = -(a * b) /\ a * (-b) = -(a * b) /\ (-a) * (-b) = a * b /\ a * b \in Int /\ k * k \in Nat
  OBVIOUS
<1>3. ASSUME a \in -k .. k, b \in -k .. k PROVE a * b \in -(k * k) .. k * k
  <2>1. CASE a >= 0 /\ b >= 0
    BY <1>1, <1>2, <1>3, <2>1
  <2>2. CASE a >= 0 /\ b < 0
    <3>1. a * (-b) \in 0 .. k * k
      BY <1>1, <1>3, <2>2
    <3> QED BY <1>2, <3>1
  <2>3. CASE a < 0 /\ b >= 0
    <3>1. (-a) * b \in 0 .. k * k
      BY <1>1, <1>3, <2>3
    <3> QED BY <1>2, <3>1
  <2>4. CASE a < 0 /\ b < 0
    <3>1. (-a) * (-b) \in 0 .. k * k
      BY <1>1, <1>3, <2>4
    <3> QED BY <1>2, <3>1
  <2> QED BY <1>3, <2>1, <2>2, <2>3, <2>4
<1> QED BY <1>1, <1>3

(* A multiple of the number of words is lost. *)
LEMMA LowLoses ==
  ASSUME NEW d \in Int, NEW z \in Int
  PROVE  Low(d + z * Modulus) = Low(d)
<1> DEFINE n == d + z * Modulus
           q == d \div Modulus
           k == n \div Modulus
           l == Low(d)
           j == Low(n)
<1>1. Modulus \in Nat \ {0} /\ z * Modulus \in Int /\ n \in Int
  BY Sizes
<1>2. d = q * Modulus + l /\ q \in Int /\ l \in 0 .. Modulus - 1
  BY <1>1, DivMod DEF Low, Modulus
<1>3. n = k * Modulus + j /\ k \in Int /\ j \in 0 .. Modulus - 1
  BY <1>1, DivMod DEF Low, Modulus
<1> HIDE DEF q, k, l, j
<1>4. q * Modulus + z * Modulus = (q + z) * Modulus /\ q + z \in Int
  BY <1>1, <1>2, Distributed
<1>5. (q + z) * Modulus + l = k * Modulus + j
  BY <1>1, <1>2, <1>3, <1>4
<1>6. (q + z >= k) /\ (k >= q + z)
  <2>1. (q + z) * Modulus \in Int /\ k * Modulus \in Int
    BY <1>1, <1>3, <1>4, Distributed
  <2>2. (q + z) * Modulus + l >= k * Modulus /\ k * Modulus + j >= (q + z) * Modulus
    BY <1>2, <1>3, <1>5, <2>1
  <2> QED BY <1>1, <1>2, <1>3, <1>4, <2>2, Cancel
<1>7. q + z = k
  BY <1>3, <1>4, <1>6
<1>8. l = j
  <2>1. k * Modulus \in Int
    BY <1>1, <1>3, Distributed
  <2> QED BY <1>2, <1>3, <1>5, <1>7, <2>1
<1> QED BY <1>8 DEF l, j

(* Quotient and remainder of two natural numbers. *)
LEMMA Quotient ==
  ASSUME NEW a \in Nat, NEW b \in Nat \ {0}
  PROVE  /\ a \div b \in 0 .. a
         /\ a = (a \div b) * b + (a % b)
         /\ a % b \in 0 .. b - 1
         /\ a \div b = a => a = 0 \/ b = 1
<1> DEFINE q == a \div b
           m == a % b
<1>1. a = q * b + m /\ q \in Int /\ m \in 0 .. b - 1
  BY DivMod
<1> HIDE DEF q, m
<1>2. q >= 0
  <2>1. SUFFICES ASSUME q <= -1 PROVE FALSE
    BY <1>1
  <2>2. q * b <= (-1) * b /\ (-1) * b = -b
    BY <1>1, <2>1, Ordered
  <2> QED BY <1>1, <2>2
<1>3. q * 1 <= q * b
  <2>1. 1 * q <= b * q /\ q * b = b * q /\ 1 * q = q /\ q * 1 = q
    BY <1>1, <1>2, Ordered
  <2> QED BY <2>1
<1>4. q <= a
  BY <1>1, <1>3
<1>5. ASSUME q = a, b # 1 PROVE a = 0
  <2>1. 2 * q <= b * q /\ q * b = b * q /\ 2 \in Int
    BY <1>1, <1>2, <1>5, Ordered
  <2> QED BY <1>1, <1>2, <1>5, <2>1
<1> QED BY <1>1, <1>2, <1>4, <1>5 DEF q, m

LEMMA MagnitudeIs ==
  ASSUME NEW s \in Int
  PROVE  Max({s, -s}) = IF s < 0 THEN -s ELSE s
<1> DEFINE top == IF s < 0 THEN -s ELSE s
<1>1. top \in {s, -s} /\ \A u \in {s, -s} : top >= u
  OBVIOUS
<1>2. \A t \in {s, -s} : (\A u \in {s, -s} : t >= u) => t = top
  OBVIOUS
<1> HIDE DEF top
<1> QED BY <1>1, <1>2 DEF Max, top

(***************************************************************************)
(* The quotient that SDIV computes (execute_divide, which truncates        *)
(* towards zero) and the remainder that MLS computes from it               *)
(* (execute_mls) give the dividend back, and the remainder has its sign;   *)
(* the smallest integer divided by -1 is left out, which is undefined.     *)
(***************************************************************************)
THEOREM SignedQuotient ==
  ASSUME NEW a \in Word, NEW b \in Word, b # 0, ~(a = HalfWay /\ b = Modulus - 1)
  PROVE  LET q == Divide("T32_SDIV", a, b)
             m == Low(a - q * b)
         IN  /\ q \in Word /\ m \in Word
             /\ Signed(a) = Signed(q) * Signed(b) + Signed(m)
             /\ Signed(m) \in {k * (IF Signed(a) < 0 THEN -1 ELSE 1) : k \in 0 .. Max({Signed(b), -Signed(b)}) - 1}
<1> DEFINE sa == Signed(a)
           sb == Signed(b)
           A  == IF sa < 0 THEN -sa ELSE sa
           B  == IF sb < 0 THEN -sb ELSE sb
           n  == A \div B
           k  == A % B
           t  == IF Negative(a) = Negative(b) THEN n ELSE -n
           e  == IF sa < 0 THEN -1 ELSE 1
           q  == Divide("T32_SDIV", a, b)
           m  == Low(a - q * b)
           i  == IF a >= HalfWay THEN 1 ELSE 0
           j  == IF b >= HalfWay THEN 1 ELSE 0
<1>1. a \in 0 .. Modulus - 1 /\ b \in 0 .. Modulus - 1 /\ HalfWay \in Nat \ {0} /\ Modulus = 2 * HalfWay
  BY Sizes
<1>2. /\ sa = a - i * Modulus /\ i \in {0, 1} /\ (i = 1 <=> sa < 0) /\ sa \in -HalfWay .. HalfWay - 1
      /\ sb = b - j * Modulus /\ j \in {0, 1} /\ (j = 1 <=> sb < 0) /\ sb \in -HalfWay .. HalfWay - 1
  BY <1>1, SignFacts
<1>3. /\ Negative(a) \in BOOLEAN /\ (Negative(a) <=> sa < 0)
      /\ Negative(b) \in BOOLEAN /\ (Negative(b) <=> sb < 0)
  <2>1. /\ Negative(a) \in BOOLEAN /\ (Negative(a) <=> a >= HalfWay)
        /\ Negative(b) \in BOOLEAN /\ (Negative(b) <=> b >= HalfWay)
    BY SignFacts
  <2> QED BY <1>1, <1>2, <2>1
<1>4. q = Low(t)
  <2>1. Max({sa, -sa}) = A /\ Max({sb, -sb}) = B
    BY <1>2, MagnitudeIs
  <2> QED BY <2>1 DEF Divide
<1> HIDE DEF q, m, sa, sb, i, j
<1>5. A \in Nat /\ A \in 0 .. HalfWay /\ B \in Nat \ {0} /\ B \in 1 .. HalfWay
  <2>1. sb # 0
    BY <1>1, <1>2
  <2> QED BY <1>1, <1>2, <2>1
<1>6. n \in 0 .. A /\ A = n * B + k /\ k \in 0 .. B - 1 /\ (n = A => A = 0 \/ B = 1)
  BY <1>5, Quotient
<1>7. sa = e * A /\ e \in {-1, 1}
  BY <1>2
<1>8. t * sb = e * (n * B)
  <2> HIDE DEF n
  <2>1. n \in Int /\ sb \in Int
    BY <1>2, <1>5, <1>6
  <2>2. (-n) * sb = -(n * sb) /\ n * (-sb) = -(n * sb) /\ (-n) * (-sb) = n * sb /\ n * sb \in Int
    BY <2>1
  <2> QED BY <1>3, <2>1, <2>2
<1> HIDE DEF n, k
<1>9. t \in -HalfWay .. HalfWay - 1
  <2>1. t \in -A .. A
    BY <1>5, <1>6
  <2>2. ASSUME t = HalfWay PROVE FALSE
    <3>1. n = A /\ A = HalfWay /\ B = 1 /\ (sa < 0 <=> sb < 0)
      BY <1>1, <1>3, <1>5, <1>6, <2>2
    <3>2. sa = -HalfWay /\ sb = -1
      BY <1>1, <1>2, <3>1
    <3>3. i = 1 /\ j = 1
      BY <1>1, <1>2, <3>2
    <3> QED BY <1>1, <1>2, <3>2, <3>3
  <2> QED BY <1>1, <1>5, <2>1, <2>2
<1>10. sa = t * sb + e * k /\ n * B \in Int
  BY <1>2, <1>5, <1>6, <1>7, <1>8
<1> HIDE DEF t, e, A, B
<1>11. q \in Word /\ Signed(q) = t
  <2>1. t \in -Modulus .. Modulus - 1 /\ t \in SignedRange
    BY <1>1, <1>9 DEF SignedRange
  <2> QED BY <1>4, <2>1, Wraps
<1>12. PICK p \in {0, 1} : q = t + p * Modulus
  BY <1>1, <1>4, <1>9, LowIs
<1>13. m = Low(e * k)
  <2> DEFINE z == i - p * sb - q * j
  <2>1. q \in Int /\ t \in Int /\ p \in Int /\ j \in Int /\ i \in Int /\ sb \in Int /\ sa \in Int /\ Modulus \in Int
    BY <1>1, <1>2, <1>9, <1>11, <1>12, Sizes
  <2>2. a - q * b = e * k + z * Modulus
    <3>1. a = sa + i * Modulus /\ b = sb + j * Modulus
      BY <1>1, <1>2, <2>1
    <3>2. q * b = q * sb + (q * j) * Modulus
      BY <2>1, <3>1
    <3>3. q * sb = t * sb + (p * sb) * Modulus
      BY <1>12, <2>1
    <3>4. z * Modulus = i * Modulus - (p * sb) * Modulus - (q * j) * Modulus
      BY <2>1, Distributed
    <3>5. /\ q * b \in Int /\ q * sb \in Int /\ t * sb \in Int /\ i * Modulus \in Int
          /\ (p * sb) * Modulus \in Int /\ (q * j) * Modulus \in Int /\ e * k \in Int
      BY <1>1, <1>5, <1>6, <1>7, <2>1
    <3> HIDE DEF z
    <3> QED BY <1>1, <1>10, <2>1, <3>1, <3>2, <3>3, <3>4, <3>5
  <2>3. z \in Int /\ e * k \in Int
    BY <1>5, <1>6, <1>7, <2>1
  <2> HIDE DEF z
  <2> QED BY <2>2, <2>3, LowLoses DEF m
<1>14. m \in Word /\ Signed(m) = e * k
  <2>1. e * k \in -Modulus .. Modulus - 1 /\ e * k \in SignedRange
    BY <1>1, <1>5, <1>6, <1>7 DEF SignedRange
  <2> QED BY <1>13, <2>1, Wraps
<1>15. Signed(m) \in {d * e : d \in 0 .. Max({sb, -sb}) - 1}
  <2>1. Max({sb, -sb}) = B
    BY <1>2, MagnitudeIs DEF B
  <2>2. e * k = k * e
    BY <1>5, <1>6, <1>7
  <2> QED BY <1>6, <1>14, <2>1, <2>2
<1> QED BY <1>10, <1>11, <1>14, <1>15 DEF q, m, sa, sb, e

-----------------------------------------------------------------------------
(* Bytes of a word *)

ByteSize == 2^ByteBits

LEMMA BytePowers ==
  /\ ByteSize \in Nat \ {0}
  /\ 2^(ByteBits * 0) = 1 /\ 2^(ByteBits * 1) = ByteSize
  /\ 2^(ByteBits * 2) = ByteSize * ByteSize
  /\ 2^(ByteBits * 3) = ByteSize * ByteSize * ByteSize
  /\ 2^(ByteBits * 4) = Modulus
  /\ Modulus = ByteSize * ByteSize * ByteSize * ByteSize
<1>1. ByteBits \in Int
  BY WordBitsAssumption DEF ByteBits
<1>2. ByteBits * 0 = 0 /\ ByteBits * 1 = ByteBits
  BY <1>1
<1>3. 2^0 = 1
  OBVIOUS
<1> QED BY <1>2, <1>3, BytesAssumption DEF ByteSize, Modulus

(* A quotient is the one number that leaves a remainder of its range. *)
LEMMA QuotientIs ==
  ASSUME NEW m \in Nat \ {0}, NEW q \in Int, NEW k \in 0 .. m - 1
  PROVE  /\ (q * m + k) \div m = q
         /\ (q * m + k) % m = k
<1> DEFINE a == q * m + k
           p == a \div m
           i == a % m
<1>1. a \in Int /\ a = q * m + k
  OBVIOUS
<1> HIDE DEF a
<1>2. a = p * m + i /\ p \in Int /\ i \in 0 .. m - 1
  BY <1>1, DivMod
<1> HIDE DEF p, i
<1>3. ASSUME p >= q + 1 PROVE FALSE
  <2>1. q + 1 <= p
    BY <1>2, <1>3
  <2>2. (q + 1) * m <= p * m
    BY <1>2, <2>1, Ordered
  <2>3. (q + 1) * m = q * m + m
    OBVIOUS
  <2> QED BY <1>1, <1>2, <2>2, <2>3
<1>4. ASSUME p <= q - 1 PROVE FALSE
  <2>1. p * m <= (q - 1) * m
    BY <1>2, <1>4, Ordered
  <2>2. (q - 1) * m = q * m - m
    OBVIOUS
  <2> QED BY <1>1, <1>2, <2>1, <2>2
<1>5. p = q
  BY <1>2, <1>3, <1>4
<1>6. i = k
  BY <1>1, <1>2, <1>5
<1> QED BY <1>5, <1>6 DEF a, p, i

(* Division by one number and then by another. *)
LEMMA DivDiv ==
  ASSUME NEW m \in Nat \ {0}, NEW l \in Nat \ {0}, NEW a \in Int
  PROVE  /\ m * l \in Nat \ {0}
         /\ a \div (l * m) = (a \div m) \div l
         /\ a % (l * m) = ((a \div m) % l) * m + (a % m)
<1> DEFINE q == a \div m
           p == q \div l
           i == a % m
           j == q % l
<1>1. a = q * m + i /\ q \in Int /\ i \in 0 .. m - 1
  BY DivMod
<1>2. q = p * l + j /\ p \in Int /\ j \in 0 .. l - 1
  BY DivMod
<1> HIDE DEF q, p, i, j
<1>3. l * m \in Nat \ {0} /\ m * l \in Nat \ {0}
  <2>1. 1 * m <= l * m
    BY Ordered
  <2>2. l * m = m * l /\ l * m \in Int
    OBVIOUS
  <2> QED BY <2>1, <2>2
<1>4. j * m + i \in 0 .. l * m - 1
  <2>1. 0 * m <= j * m /\ j * m <= (l - 1) * m
    BY <1>2, Ordered
  <2>2. (l - 1) * m = l * m - m
    OBVIOUS
  <2> QED BY <1>1, <1>2, <2>1, <2>2
<1>5. a = p * (l * m) + (j * m + i)
  <2>1. (p * l + j) * m = p * (l * m) + j * m
    BY <1>2
  <2> QED BY <1>1, <1>2, <2>1
<1>6. a \div (l * m) = p /\ a % (l * m) = j * m + i
  BY <1>2, <1>3, <1>4, <1>5, QuotientIs
<1> QED BY <1>3, <1>6 DEF q, p, i, j

(* A number below a product of four, from its digits. *)
LEMMA BytesAre ==
  ASSUME NEW a \in Word
  PROVE  /\ \A i \in 0 .. 3 : ByteOf(a, i) \in 0 .. ByteSize - 1
         /\ ByteOf(a, 0) * 2^(ByteBits * 0) = a % 2^(ByteBits * 1)
         /\ ByteOf(a, 0) * 2^(ByteBits * 0) + ByteOf(a, 1) * 2^(ByteBits * 1) = a % 2^(ByteBits * 2)
         /\ ByteOf(a, 0) * 2^(ByteBits * 0) + ByteOf(a, 1) * 2^(ByteBits * 1)
              + ByteOf(a, 2) * 2^(ByteBits * 2) + ByteOf(a, 3) * 2^(ByteBits * 3) = a % 2^(ByteBits * 4)
<1> DEFINE K  == ByteSize
           K2 == K * K
           K3 == K * K2
           q1 == a \div K
           q2 == q1 \div K
           q3 == q2 \div K
           b0 == a % K
           b1 == q1 % K
           b2 == q2 % K
           b3 == q3 % K
<1>1. K \in Nat \ {0} /\ a \in Int
  BY BytePowers, Sizes
<1> HIDE DEF K
<1>2. /\ q1 \in Int /\ q2 \in Int /\ q3 \in Int
      /\ b0 \in 0 .. K - 1 /\ b1 \in 0 .. K - 1 /\ b2 \in 0 .. K - 1 /\ b3 \in 0 .. K - 1
  BY <1>1
<1>3. K2 \in Nat \ {0} /\ a \div K2 = q2 /\ a % K2 = b1 * K + b0
  BY <1>1, DivDiv
<1> HIDE DEF K2
<1>4. K3 \in Nat \ {0} /\ a \div K3 = q3 /\ a % K3 = b2 * K2 + (a % K2)
  <2>1. K3 = K2 * K
    BY <1>1, <1>3
  <2>2. a \div K3 = (a \div K2) \div K /\ a % K3 = ((a \div K2) % K) * K2 + (a % K2)
    BY <1>1, <1>3, DivDiv
  <2>3. K3 \in Nat \ {0}
    BY <1>1, <1>3, <2>1, DivDiv
  <2> QED BY <1>3, <2>2, <2>3
<1> HIDE DEF K3
<1>5. a % (K * K3) = b3 * K3 + (a % K3)
  <2>1. a % (K * K3) = ((a \div K3) % K) * K3 + (a % K3)
    BY <1>1, <1>4, DivDiv
  <2> QED BY <1>4, <2>1
<1>6. /\ 2^(ByteBits * 0) = 1 /\ 2^(ByteBits * 1) = K /\ 2^(ByteBits * 2) = K2
      /\ 2^(ByteBits * 3) = K3 /\ 2^(ByteBits * 4) = K * K3
  <2>1. K * K * K = K * (K * K) /\ K * K * K * K = K * (K * (K * K))
    BY <1>1
  <2> QED BY <2>1, BytePowers DEF K, K2, K3
<1>7. ByteOf(a, 0) = b0 /\ ByteOf(a, 1) = b1 /\ ByteOf(a, 2) = b2 /\ ByteOf(a, 3) = b3
  <2>1. a \div 1 = a
    BY <1>1
  <2> QED BY <1>3, <1>4, <1>6, <2>1 DEF ByteOf, ByteSize, K
<1> HIDE DEF q1, q2, q3, b0, b1, b2, b3
<1>8. \A i \in 0 .. 3 : ByteOf(a, i) \in 0 .. K - 1
  <2>1. \A i \in 0 .. 3 : i \in {0, 1, 2, 3}
    OBVIOUS
  <2> QED BY <1>2, <1>7, <2>1
<1>9. b0 * 1 = b0 /\ b1 * K \in Int /\ b2 * K2 \in Int /\ b3 * K3 \in Int /\ b0 \in Int
  BY <1>1, <1>2, <1>3, <1>4
<1>10. a % K = b0
  BY DEF b0
<1> DEFINE p1 == b1 * K
           p2 == b2 * K2
           p3 == b3 * K3
<1>11. a % K2 = p1 + b0 /\ a % K3 = p2 + (a % K2) /\ a % (K * K3) = p3 + (a % K3)
  BY <1>3, <1>4, <1>5
<1>12. p1 \in Int /\ p2 \in Int /\ p3 \in Int
  BY <1>9
<1>13. /\ ByteOf(a, 0) * 2^(ByteBits * 0) = b0 /\ ByteOf(a, 1) * 2^(ByteBits * 1) = p1
       /\ ByteOf(a, 2) * 2^(ByteBits * 2) = p2 /\ ByteOf(a, 3) * 2^(ByteBits * 3) = p3
  BY <1>6, <1>7, <1>9
<1> HIDE DEF p1, p2, p3
<1>14. b0 + p1 = a % K2 /\ b0 + p1 + p2 + p3 = a % (K * K3)
  BY <1>9, <1>11, <1>12
<1> QED BY <1>6, <1>8, <1>10, <1>13, <1>14 DEF K

T32(op, form) == "T32_" \o op \o form

LEMMA MovIs ==
  ASSUME NEW d, NEW i
  PROVE  /\ DOMAIN Mov(d, i) = {"rd", "rn", "imm", "s", "type", "wide"}
         /\ Mov(d, i).type = T32("MOV", "_IMM") /\ Mov(d, i).wide
         /\ Mov(d, i).rd = d /\ Mov(d, i).imm = i /\ ~Mov(d, i).s
<1>1. "T32_" \o "MOV" \o "_IMM" \notin Narrow
  BY TypesAssumption DEF Operations32
<1> QED BY <1>1 DEF Mov, Imm, Of, T32

(* Every action but Skip is the handler that the dispatch picks. *)
LEMMA ActionsRun ==
  /\ ExecuteBranch => Runs("execute_branch")
  /\ ExecuteCbzCbnz => Runs("execute_cbz_cbnz")
  /\ ExecuteIt => Runs("execute_it")
  /\ ExecuteTableBranch => Runs("execute_table_branch")
  /\ ExecuteDataProcessing => Runs("execute_data_processing")
  /\ ExecuteT32DataProcessing => Runs("execute_t32_data_processing")
  /\ ExecuteT32ShiftRegister => Runs("execute_t32_shift_register")
  /\ ExecuteExtend => Runs("execute_extend")
  /\ ExecuteRev => Runs("execute_rev")
  /\ ExecuteBitManipulation => Runs("execute_bit_manipulation")
  /\ ExecuteBitfield => Runs("execute_bitfield")
  /\ ExecuteMul => Runs("execute_mul")
  /\ ExecuteMla => Runs("execute_mla")
  /\ ExecuteMls => Runs("execute_mls")
  /\ ExecuteDivide => Runs("execute_divide")
  /\ ExecuteLongMultiply => Runs("execute_long_multiply")
  /\ ExecuteSaturate => Runs("execute_saturate")
  /\ ExecuteParallelAddSub => Runs("execute_parallel_addsub")
  /\ ExecuteLoadStore => Runs("execute_load_store")
  /\ ExecuteT32LoadStore => Runs("execute_t32_load_store")
  /\ ExecuteT32DualLoadStore => Runs("execute_t32_dual_load_store")
  /\ ExecuteLoadStoreMultiple => Runs("execute_load_store_multiple")
  /\ ExecuteT32MultipleLoadStore => Runs("execute_t32_multiple_load_store")
  /\ ExecuteExclusiveLoad => Runs("execute_exclusive_load")
  /\ ExecuteExclusiveStore => Runs("execute_exclusive_store")
  /\ ExecuteClrex => Runs("execute_clrex")
  /\ ExecuteHint => Runs("execute_extended_hint") \/ Runs("no operation")
<1>1. ExecuteBranch => Runs("execute_branch")
  BY Zenon DEF ExecuteBranch
<1>2. ExecuteCbzCbnz => Runs("execute_cbz_cbnz")
  BY Zenon DEF ExecuteCbzCbnz
<1>3. ExecuteIt => Runs("execute_it")
  BY Zenon DEF ExecuteIt
<1>4. ExecuteTableBranch => Runs("execute_table_branch")
  BY Zenon DEF ExecuteTableBranch
<1>5. ExecuteDataProcessing => Runs("execute_data_processing")
  BY Zenon DEF ExecuteDataProcessing
<1>6. ExecuteT32DataProcessing => Runs("execute_t32_data_processing")
  BY Zenon DEF ExecuteT32DataProcessing
<1>7. ExecuteT32ShiftRegister => Runs("execute_t32_shift_register")
  BY Zenon DEF ExecuteT32ShiftRegister
<1>8. ExecuteExtend => Runs("execute_extend")
  BY Zenon DEF ExecuteExtend, Computes
<1>9. ExecuteRev => Runs("execute_rev")
  BY Zenon DEF ExecuteRev, Computes
<1>10. ExecuteBitManipulation => Runs("execute_bit_manipulation")
  BY Zenon DEF ExecuteBitManipulation, Computes
<1>11. ExecuteBitfield => Runs("execute_bitfield")
  BY Zenon DEF ExecuteBitfield, Computes
<1>12. ExecuteMul => Runs("execute_mul")
  BY Zenon DEF ExecuteMul, Computes
<1>13. ExecuteMla => Runs("execute_mla")
  BY Zenon DEF ExecuteMla, Computes
<1>14. ExecuteMls => Runs("execute_mls")
  BY Zenon DEF ExecuteMls, Computes
<1>15. ExecuteDivide => Runs("execute_divide")
  BY Zenon DEF ExecuteDivide, Computes
<1>16. ExecuteLongMultiply => Runs("execute_long_multiply")
  BY Zenon DEF ExecuteLongMultiply
<1>17. ExecuteSaturate => Runs("execute_saturate")
  BY Zenon DEF ExecuteSaturate, Saturates
<1>18. ExecuteParallelAddSub => Runs("execute_parallel_addsub")
  BY Zenon DEF ExecuteParallelAddSub, Saturates
<1>19. ExecuteLoadStore => Runs("execute_load_store")
  BY Zenon DEF ExecuteLoadStore
<1>20. ExecuteT32LoadStore => Runs("execute_t32_load_store")
  BY Zenon DEF ExecuteT32LoadStore
<1>21. ExecuteT32DualLoadStore => Runs("execute_t32_dual_load_store")
  BY Zenon DEF ExecuteT32DualLoadStore
<1>22. ExecuteLoadStoreMultiple => Runs("execute_load_store_multiple")
  BY Zenon DEF ExecuteLoadStoreMultiple
<1>23. ExecuteT32MultipleLoadStore => Runs("execute_t32_multiple_load_store")
  BY Zenon DEF ExecuteT32MultipleLoadStore
<1>24. ExecuteExclusiveLoad => Runs("execute_exclusive_load")
  BY Zenon DEF ExecuteExclusiveLoad
<1>25. ExecuteExclusiveStore => Runs("execute_exclusive_store")
  BY Zenon DEF ExecuteExclusiveStore
<1>26. ExecuteClrex => Runs("execute_clrex")
  BY Zenon DEF ExecuteClrex
<1> QED BY <1>1, <1>2, <1>3, <1>4, <1>5, <1>6, <1>7, <1>8, <1>9, <1>10, <1>11, <1>12, <1>13,
           <1>14, <1>15, <1>16, <1>17, <1>18, <1>19, <1>20, <1>21, <1>22, <1>23, <1>24, <1>25,
           <1>26, Zenon DEF ExecuteHint

LEMMA StepIs ==
  ASSUME Next
  PROVE  /\ Fetched
         /\ Skipped => Skip
         /\ ~Skipped /\ HandlerOf[program.core][Ins.type] = "execute_branch" => ExecuteBranch
         /\ ~Skipped /\ HandlerOf[program.core][Ins.type] = "execute_it" => ExecuteIt
         /\ ~Skipped /\ HandlerOf[program.core][Ins.type] = "execute_data_processing"
              => ExecuteDataProcessing
         /\ ~Skipped /\ HandlerOf[program.core][Ins.type] = "execute_t32_data_processing"
              => ExecuteT32DataProcessing
         /\ ~Skipped /\ HandlerOf[program.core][Ins.type] = "execute_mul" => ExecuteMul
         /\ ~Skipped /\ HandlerOf[program.core][Ins.type] = "execute_mla" => ExecuteMla
         /\ ~Skipped /\ HandlerOf[program.core][Ins.type] = "execute_mls" => ExecuteMls
         /\ ~Skipped /\ HandlerOf[program.core][Ins.type] = "execute_divide" => ExecuteDivide
         /\ ~Skipped /\ HandlerOf[program.core][Ins.type] = "execute_long_multiply" => ExecuteLongMultiply
         /\ ~Skipped /\ HandlerOf[program.core][Ins.type] = "execute_load_store" => ExecuteLoadStore
         /\ ~Skipped /\ HandlerOf[program.core][Ins.type] = "execute_t32_load_store"
              => ExecuteT32LoadStore
         /\ ~Skipped /\ HandlerOf[program.core][Ins.type] = "execute_load_store_multiple"
              => ExecuteLoadStoreMultiple
         /\ ~Skipped /\ HandlerOf[program.core][Ins.type] = "execute_t32_multiple_load_store"
              => ExecuteT32MultipleLoadStore
         /\ ~Skipped /\ HandlerOf[program.core][Ins.type] = "execute_exclusive_load"
              => ExecuteExclusiveLoad
         /\ ~Skipped /\ HandlerOf[program.core][Ins.type] = "execute_exclusive_store"
              => ExecuteExclusiveStore
         /\ ~Skipped /\ HandlerOf[program.core][Ins.type] = "execute_clrex" => ExecuteClrex
         /\ ~Skipped /\ HandlerOf[program.core][Ins.type] = "execute_cbz_cbnz" => ExecuteCbzCbnz
<1> DEFINE h == HandlerOf[program.core][Ins.type]
<1>1. ASSUME NEW k, Runs(k)
      PROVE  Fetched /\ ~Skipped /\ h = k
  BY <1>1, Zenon DEF Runs
<1>2. Skip => Fetched /\ Skipped
  BY Zenon DEF Skip
<1> HIDE DEF h
<1>3. Fetched /\ (Skipped => Skip)
  BY <1>1, <1>2, ActionsRun, Zenon DEF Next
<1>4. ASSUME ~Skipped, h = "execute_branch" PROVE ExecuteBranch
  <2>1. \A k : Runs(k) => k = "execute_branch"
    BY <1>1, <1>4
  <2> QED BY <2>1, <1>2, <1>4, ActionsRun DEF Next
<1>5. ASSUME ~Skipped, h = "execute_it" PROVE ExecuteIt
  <2>1. \A k : Runs(k) => k = "execute_it"
    BY <1>1, <1>5
  <2> QED BY <2>1, <1>2, <1>5, ActionsRun DEF Next
<1>6. ASSUME ~Skipped, h = "execute_data_processing" PROVE ExecuteDataProcessing
  <2>1. \A k : Runs(k) => k = "execute_data_processing"
    BY <1>1, <1>6
  <2> QED BY <2>1, <1>2, <1>6, ActionsRun DEF Next
<1>7. ASSUME ~Skipped, h = "execute_t32_data_processing" PROVE ExecuteT32DataProcessing
  <2>1. \A k : Runs(k) => k = "execute_t32_data_processing"
    BY <1>1, <1>7
  <2> QED BY <2>1, <1>2, <1>7, ActionsRun DEF Next
<1>8. ASSUME ~Skipped, h = "execute_mul" PROVE ExecuteMul
  <2>1. \A k : Runs(k) => k = "execute_mul"
    BY <1>1, <1>8
  <2> QED BY <2>1, <1>2, <1>8, ActionsRun DEF Next
<1>9. ASSUME ~Skipped, h = "execute_mla" PROVE ExecuteMla
  <2>1. \A k : Runs(k) => k = "execute_mla"
    BY <1>1, <1>9
  <2> QED BY <2>1, <1>2, <1>9, ActionsRun DEF Next
<1>10. ASSUME ~Skipped, h = "execute_mls" PROVE ExecuteMls
  <2>1. \A k : Runs(k) => k = "execute_mls"
    BY <1>1, <1>10
  <2> QED BY <2>1, <1>2, <1>10, ActionsRun DEF Next
<1>11. ASSUME ~Skipped, h = "execute_divide" PROVE ExecuteDivide
  <2>1. \A k : Runs(k) => k = "execute_divide"
    BY <1>1, <1>11
  <2> QED BY <2>1, <1>2, <1>11, ActionsRun DEF Next
<1>12. ASSUME ~Skipped, h = "execute_long_multiply" PROVE ExecuteLongMultiply
  <2>1. \A k : Runs(k) => k = "execute_long_multiply"
    BY <1>1, <1>12
  <2> QED BY <2>1, <1>2, <1>12, ActionsRun DEF Next
<1>13. ASSUME ~Skipped, h = "execute_load_store" PROVE ExecuteLoadStore
  <2>1. \A k : Runs(k) => k = "execute_load_store"
    BY <1>1, <1>13
  <2> QED BY <2>1, <1>2, <1>13, ActionsRun DEF Next
<1>14. ASSUME ~Skipped, h = "execute_t32_load_store" PROVE ExecuteT32LoadStore
  <2>1. \A k : Runs(k) => k = "execute_t32_load_store"
    BY <1>1, <1>14
  <2> QED BY <2>1, <1>2, <1>14, ActionsRun DEF Next
<1>15. ASSUME ~Skipped, h = "execute_load_store_multiple" PROVE ExecuteLoadStoreMultiple
  <2>1. \A k : Runs(k) => k = "execute_load_store_multiple"
    BY <1>1, <1>15
  <2> QED BY <2>1, <1>2, <1>15, ActionsRun DEF Next
<1>16. ASSUME ~Skipped, h = "execute_t32_multiple_load_store" PROVE ExecuteT32MultipleLoadStore
  <2>1. \A k : Runs(k) => k = "execute_t32_multiple_load_store"
    BY <1>1, <1>16
  <2> QED BY <2>1, <1>2, <1>16, ActionsRun DEF Next
<1>17. ASSUME ~Skipped, h = "execute_exclusive_load" PROVE ExecuteExclusiveLoad
  <2>1. \A k : Runs(k) => k = "execute_exclusive_load"
    BY <1>1, <1>17
  <2> QED BY <2>1, <1>2, <1>17, ActionsRun DEF Next
<1>18. ASSUME ~Skipped, h = "execute_exclusive_store" PROVE ExecuteExclusiveStore
  <2>1. \A k : Runs(k) => k = "execute_exclusive_store"
    BY <1>1, <1>18
  <2> QED BY <2>1, <1>2, <1>18, ActionsRun DEF Next
<1>19. ASSUME ~Skipped, h = "execute_clrex" PROVE ExecuteClrex
  <2>1. \A k : Runs(k) => k = "execute_clrex"
    BY <1>1, <1>19
  <2> QED BY <2>1, <1>2, <1>19, ActionsRun DEF Next
<1>20. ASSUME ~Skipped, h = "execute_cbz_cbnz" PROVE ExecuteCbzCbnz
  <2>1. \A k : Runs(k) => k = "execute_cbz_cbnz"
    BY <1>1, <1>20
  <2> QED BY <2>1, <1>2, <1>20, ActionsRun DEF Next
<1> QED BY <1>3, <1>4, <1>5, <1>6, <1>7, <1>8, <1>9, <1>10, <1>11, <1>12, <1>13, <1>14, <1>15,
           <1>16, <1>17, <1>18, <1>19, <1>20 DEF h

LEMMA ProgramStays == Next => UNCHANGED <<program, start>>
<1>1. Skip => UNCHANGED <<program, start>>
  BY Zenon DEF Skip
<1>2. ExecuteBranch => UNCHANGED <<program, start>>
  BY Zenon DEF ExecuteBranch
<1>3. ExecuteCbzCbnz => UNCHANGED <<program, start>>
  BY Zenon DEF ExecuteCbzCbnz
<1>4. ExecuteIt => UNCHANGED <<program, start>>
  BY Zenon DEF ExecuteIt
<1>5. ExecuteTableBranch => UNCHANGED <<program, start>>
  BY Zenon DEF ExecuteTableBranch
<1>6. ExecuteDataProcessing => UNCHANGED <<program, start>>
  BY Zenon DEF ExecuteDataProcessing
<1>7. ExecuteT32DataProcessing => UNCHANGED <<program, start>>
  BY Zenon DEF ExecuteT32DataProcessing
<1>8. ExecuteT32ShiftRegister => UNCHANGED <<program, start>>
  BY Zenon DEF ExecuteT32ShiftRegister
<1>9. ExecuteExtend => UNCHANGED <<program, start>>
  BY Zenon DEF ExecuteExtend, Computes
<1>10. ExecuteRev => UNCHANGED <<program, start>>
  BY Zenon DEF ExecuteRev, Computes
<1>11. ExecuteBitManipulation => UNCHANGED <<program, start>>
  BY Zenon DEF ExecuteBitManipulation, Computes
<1>12. ExecuteBitfield => UNCHANGED <<program, start>>
  BY Zenon DEF ExecuteBitfield, Computes
<1>13. ExecuteMul => UNCHANGED <<program, start>>
  BY Zenon DEF ExecuteMul, Computes
<1>14. ExecuteMla => UNCHANGED <<program, start>>
  BY Zenon DEF ExecuteMla, Computes
<1>15. ExecuteMls => UNCHANGED <<program, start>>
  BY Zenon DEF ExecuteMls, Computes
<1>16. ExecuteDivide => UNCHANGED <<program, start>>
  BY Zenon DEF ExecuteDivide, Computes
<1>17. ExecuteLongMultiply => UNCHANGED <<program, start>>
  BY Zenon DEF ExecuteLongMultiply
<1>18. ExecuteSaturate => UNCHANGED <<program, start>>
  BY Zenon DEF ExecuteSaturate, Saturates
<1>19. ExecuteParallelAddSub => UNCHANGED <<program, start>>
  BY Zenon DEF ExecuteParallelAddSub, Saturates
<1>20. ExecuteLoadStore => UNCHANGED <<program, start>>
  BY Zenon DEF ExecuteLoadStore
<1>21. ExecuteT32LoadStore => UNCHANGED <<program, start>>
  BY Zenon DEF ExecuteT32LoadStore
<1>22. ExecuteT32DualLoadStore => UNCHANGED <<program, start>>
  BY Zenon DEF ExecuteT32DualLoadStore
<1>23. ExecuteLoadStoreMultiple => UNCHANGED <<program, start>>
  BY Zenon DEF ExecuteLoadStoreMultiple
<1>24. ExecuteT32MultipleLoadStore => UNCHANGED <<program, start>>
  BY Zenon DEF ExecuteT32MultipleLoadStore
<1>25. ExecuteExclusiveLoad => UNCHANGED <<program, start>>
  BY Zenon DEF ExecuteExclusiveLoad
<1>26. ExecuteExclusiveStore => UNCHANGED <<program, start>>
  BY Zenon DEF ExecuteExclusiveStore
<1>27. ExecuteClrex => UNCHANGED <<program, start>>
  BY Zenon DEF ExecuteClrex
<1>28. ExecuteHint => UNCHANGED <<program, start>>
  BY Zenon DEF ExecuteHint
<1> QED BY <1>1, <1>2, <1>3, <1>4, <1>5, <1>6, <1>7, <1>8, <1>9, <1>10, <1>11, <1>12, <1>13,
         <1>14, <1>15, <1>16, <1>17, <1>18, <1>19, <1>20, <1>21, <1>22, <1>23, <1>24, <1>25,
         <1>26, <1>27, <1>28, Zenon DEF Next

(* What a comparison leaves in the result and the flags. *)
Compared(sum) == IF sum THEN Add(x, y) ELSE Subtract(x, y)
Shows(f, out) == /\ f.n = Negative(out.result) /\ f.z = (out.result = 0)
                 /\ f.c = out.c /\ f.v = out.v

(* The conditions say of x and y what the integers do. *)
LEMMA ConditionIs ==
  ASSUME x \in Word, y \in Word, NEW sum \in BOOLEAN, NEW f, Shows(f, Compared(sum)), NEW c \in 0 .. 13
  PROVE  CheckCondition(c, f) <=> Order(c, sum)
<1> DEFINE out  == Compared(sum)
           d    == IF sum THEN Signed(x) + Signed(y) ELSE Signed(x) - Signed(y)
           same == IF sum THEN Low(x + y) = 0 ELSE x = y
           high == IF sum THEN x + y >= 2^WordBits ELSE x >= y
           over == SignExtend(Low(d), WordBits) # d
           base == <<f.z, f.c, f.n, f.v, f.c /\ ~f.z, f.n = f.v, ~f.z /\ f.n = f.v, TRUE>>
           even == <<same, high, (d < 0) # over, over, high /\ ~same, d >= 0, d > 0>>
<1>1. /\ out.c <=> high
      /\ out.v <=> over
      /\ out.result = 0 <=> same
      /\ Negative(out.result) <=> ((d < 0) <=> ~over)
      /\ d > 0 <=> d >= 0 /\ out.result # 0
  <2>1. CASE sum
    BY <2>1, SumFlagsExact DEF Compared, Signed, Modulus
  <2>2. CASE ~sum
    BY <2>2, DifferenceFlagsExact DEF Compared, Signed, Modulus
  <2> QED BY <2>1, <2>2
<1>2. out.c \in BOOLEAN /\ out.v \in BOOLEAN /\ Negative(out.result) \in BOOLEAN
  BY FlagsAreBooleans DEF Compared
<1>3. d \in Int
  BY SignFacts, Sizes
<1>4. d >= 0 <=> ~(d < 0)
  BY <1>3
<1> HIDE DEF out, d
<1>5. /\ f.z <=> same
      /\ f.c <=> high
      /\ f.n <=> ((d < 0) <=> ~over)
      /\ f.v <=> over
  BY <1>1, Zenon DEF Shows, out
<1>6. f.z \in BOOLEAN /\ f.c \in BOOLEAN /\ f.n \in BOOLEAN /\ f.v \in BOOLEAN
  BY <1>2, Zenon DEF Shows, out
<1>7. same \in BOOLEAN /\ high \in BOOLEAN /\ over \in BOOLEAN
  <2>1. over \in BOOLEAN
    OBVIOUS
  <2>2. CASE sum
    BY <2>1, <2>2
  <2>3. CASE ~sum
    BY <2>1, <2>3
  <2> QED BY <2>2, <2>3
<1>8. c \div 2 + 1 \in 1 .. 7 /\ c % 2 \in {0, 1}
  OBVIOUS
<1>9. CheckCondition(c, f) = (base[c \div 2 + 1] # (c % 2 = 1))
  BY Zenon DEF CheckCondition
<1>10. Order(c, sum) = IF c % 2 = 0 THEN even[c \div 2 + 1] ELSE ~even[c \div 2 + 1]
  BY Zenon DEF Order, d
<1>11. /\ base[1] = f.z /\ base[2] = f.c /\ base[3] = f.n /\ base[4] = f.v
       /\ base[5] = (f.c /\ ~f.z) /\ base[6] = (f.n = f.v) /\ base[7] = (~f.z /\ f.n = f.v)
  OBVIOUS
<1> HIDE DEF same, high, over
<1> DEFINE negative == d < 0
           positive == d > 0
           natural  == d >= 0
<1>12. /\ even[1] = same /\ even[2] = high /\ even[3] = (negative # over) /\ even[4] = over
       /\ even[5] = (high /\ ~same) /\ even[6] = natural /\ even[7] = positive
  OBVIOUS
<1>13. negative \in BOOLEAN /\ natural \in BOOLEAN /\ positive \in BOOLEAN
  OBVIOUS
<1> HIDE DEF base, even
<1>14. f.n <=> (negative <=> ~over)
  BY <1>5
<1>15. natural <=> ~negative
  BY <1>4
<1> HIDE DEF negative, natural, positive
<1>16. (f.n = f.v) <=> natural
  BY <1>5, <1>6, <1>7, <1>14, <1>15, Zenon
<1>17. positive <=> natural /\ ~f.z
  BY <1>1, <1>5, Zenon DEF positive, natural
<1>18. \A k \in 1 .. 7 : base[k] \in BOOLEAN /\ even[k] \in BOOLEAN /\ (base[k] <=> even[k])
  <2>1. base[1] \in BOOLEAN /\ even[1] \in BOOLEAN /\ (base[1] <=> even[1])
    BY <1>5, <1>6, <1>7, <1>11, <1>12, Zenon
  <2>2. base[2] \in BOOLEAN /\ even[2] \in BOOLEAN /\ (base[2] <=> even[2])
    BY <1>5, <1>6, <1>7, <1>11, <1>12, Zenon
  <2>3. base[3] \in BOOLEAN /\ even[3] \in BOOLEAN /\ (base[3] <=> even[3])
    BY <1>5, <1>6, <1>7, <1>11, <1>12, <1>13, <1>14, Zenon
  <2>4. base[4] \in BOOLEAN /\ even[4] \in BOOLEAN /\ (base[4] <=> even[4])
    BY <1>5, <1>6, <1>7, <1>11, <1>12, Zenon
  <2>5. base[5] \in BOOLEAN /\ even[5] \in BOOLEAN /\ (base[5] <=> even[5])
    BY <1>5, <1>6, <1>7, <1>11, <1>12, Zenon
  <2>6. base[6] \in BOOLEAN /\ even[6] \in BOOLEAN /\ (base[6] <=> even[6])
    BY <1>11, <1>12, <1>13, <1>16, Zenon
  <2>7. base[7] \in BOOLEAN /\ even[7] \in BOOLEAN /\ (base[7] <=> even[7])
    BY <1>11, <1>12, <1>13, <1>16, <1>17, Zenon
  <2> QED BY <2>1, <2>2, <2>3, <2>4, <2>5, <2>6, <2>7
<1> DEFINE k == c \div 2 + 1
           odd == c % 2 = 1
           isEven == c % 2 = 0
<1>19. base[k] \in BOOLEAN /\ even[k] \in BOOLEAN /\ (base[k] <=> even[k])
  BY <1>8, <1>18, Zenon
<1>20. isEven <=> ~odd
  BY <1>8
<1> HIDE DEF k
<1>21. CheckCondition(c, f) = (base[k] # odd)
  BY <1>9, Zenon DEF k
<1>22. Order(c, sum) = IF isEven THEN even[k] ELSE ~even[k]
  BY <1>10, Zenon DEF k
<1>23. odd \in BOOLEAN
  OBVIOUS
<1> HIDE DEF odd, isEven
<1>24. CASE odd
  BY <1>19, <1>20, <1>21, <1>22, <1>23, <1>24, Zenon
<1>25. CASE ~odd
  BY <1>19, <1>20, <1>21, <1>22, <1>23, <1>25, Zenon
<1> QED BY <1>24, <1>25, Zenon

-----------------------------------------------------------------------------
(* The dispatch on M3 *)

LEMMA DispatchIs ==
  ASSUME program \in Programs, program.core = "M3", NEW h \in CoreHandlers("M3"), NEW t \in h[2]
  PROVE  HandlerOf[program.core][t] = h[1]
<1>1. Handler("M3", t) = h[1]
  BY TypesAssumption
<1>2. t \in UNION {g[2] : g \in CoreHandlers("M3")}
  OBVIOUS
<1> QED BY <1>1, <1>2 DEF HandlerOf

LEMMA HandlersOfM3 ==
  /\ <<"execute_data_processing", DataProcessingTypes>> \in CoreHandlers("M3")
  /\ <<"execute_branch", BranchTypes \cup {"BLX"}>> \in CoreHandlers("M3")
  /\ <<"execute_it", {"IT"}>> \in CoreHandlers("M3")
  /\ <<"execute_t32_data_processing", ImmediateTypes \cup RegisterTypes>> \in CoreHandlers("M3")
  /\ <<"execute_divide", {"T32_UDIV", "T32_SDIV"}>> \in CoreHandlers("M3")
  /\ <<"execute_mul", {"T32_MUL"}>> \in CoreHandlers("M3")
  /\ <<"execute_mla", {"T32_MLA"}>> \in CoreHandlers("M3")
  /\ <<"execute_mls", {"T32_MLS"}>> \in CoreHandlers("M3")
  /\ <<"execute_long_multiply", {"T32_UMULL", "T32_SMULL", "T32_UMLAL", "T32_SMLAL"}>>
       \in CoreHandlers("M3")
  /\ <<"execute_load_store", LoadStoreTypes>> \in CoreHandlers("M3")
  /\ <<"execute_t32_load_store", LoadStore32Types>> \in CoreHandlers("M3")
  /\ <<"execute_load_store_multiple", {"STMIA", "LDMIA", "PUSH", "POP"}>> \in CoreHandlers("M3")
  /\ <<"execute_t32_multiple_load_store", {"T32_LDMIA", "T32_LDMDB", "T32_STMIA", "T32_STMDB"}>>
       \in CoreHandlers("M3")
  /\ <<"execute_exclusive_load", {"T32_LDREX", "T32_LDREXB", "T32_LDREXH"}>> \in CoreHandlers("M3")
  /\ <<"execute_exclusive_store", {"T32_STREX", "T32_STREXB", "T32_STREXH"}>> \in CoreHandlers("M3")
  /\ <<"execute_clrex", {"T32_CLREX"}>> \in CoreHandlers("M3")
  /\ <<"execute_cbz_cbnz", {"CBZ", "CBNZ"}>> \in CoreHandlers("M3")
<1>1. SupportsV7("M3") /\ ~SupportsV7E("M3")
  BY DEF SupportsV7, SupportsV7E
<1>2. V6Handlers \subseteq CoreHandlers("M3") /\ V7Handlers \subseteq CoreHandlers("M3")
  BY <1>1 DEF CoreHandlers
<1>3. <<"execute_data_processing", DataProcessingTypes>> \in V6Handlers
  BY DEF V6Handlers
<1>4. <<"execute_it", {"IT"}>> \in V7Handlers
  BY DEF V7Handlers
<1>5. <<"execute_branch", BranchTypes \cup {"BLX"}>> \in CoreHandlers("M3")
  BY <1>1 DEF CoreHandlers
<1>6. <<"execute_t32_data_processing", ImmediateTypes \cup RegisterTypes>> \in CoreHandlers("M3")
  BY <1>1 DEF CoreHandlers
<1>7. /\ <<"execute_divide", {"T32_UDIV", "T32_SDIV"}>> \in V7Handlers
      /\ <<"execute_mul", {"T32_MUL"}>> \in V7Handlers
      /\ <<"execute_mla", {"T32_MLA"}>> \in V7Handlers
      /\ <<"execute_mls", {"T32_MLS"}>> \in V7Handlers
      /\ <<"execute_long_multiply", {"T32_UMULL", "T32_SMULL", "T32_UMLAL", "T32_SMLAL"}>> \in V7Handlers
  BY DEF V7Handlers
<1>8. /\ <<"execute_load_store", LoadStoreTypes>> \in V6Handlers
      /\ <<"execute_load_store_multiple", {"STMIA", "LDMIA", "PUSH", "POP"}>> \in V6Handlers
  BY DEF V6Handlers
<1>9. /\ <<"execute_t32_load_store", LoadStore32Types>> \in V7Handlers
      /\ <<"execute_t32_multiple_load_store", {"T32_LDMIA", "T32_LDMDB", "T32_STMIA", "T32_STMDB"}>>
           \in V7Handlers
      /\ <<"execute_exclusive_load", {"T32_LDREX", "T32_LDREXB", "T32_LDREXH"}>> \in V7Handlers
      /\ <<"execute_exclusive_store", {"T32_STREX", "T32_STREXB", "T32_STREXH"}>> \in V7Handlers
      /\ <<"execute_clrex", {"T32_CLREX"}>> \in V7Handlers
      /\ <<"execute_cbz_cbnz", {"CBZ", "CBNZ"}>> \in V7Handlers
  BY DEF V7Handlers
<1> QED BY <1>2, <1>3, <1>4, <1>5, <1>6, <1>7, <1>8, <1>9

LEMMA TypesRun ==
  ASSUME program \in Programs, program.core = "M3"
  PROVE  /\ \A t \in DataProcessingTypes : HandlerOf[program.core][t] = "execute_data_processing"
         /\ \A t \in BranchTypes : HandlerOf[program.core][t] = "execute_branch"
         /\ HandlerOf[program.core]["IT"] = "execute_it"
         /\ HandlerOf[program.core]["T32_MUL"] = "execute_mul"
         /\ HandlerOf[program.core]["T32_MLA"] = "execute_mla"
         /\ HandlerOf[program.core]["T32_MLS"] = "execute_mls"
         /\ \A t \in {"T32_UDIV", "T32_SDIV"} : HandlerOf[program.core][t] = "execute_divide"
         /\ \A t \in {"T32_UMULL", "T32_SMULL", "T32_UMLAL", "T32_SMLAL"} :
              HandlerOf[program.core][t] = "execute_long_multiply"
         /\ \A t \in LoadStoreTypes :
              HandlerOf[program.core][t] = "execute_load_store"
         /\ \A t \in LoadStore32Types :
              HandlerOf[program.core][t] = "execute_t32_load_store"
         /\ \A t \in {"STMIA", "LDMIA", "PUSH", "POP"} :
              HandlerOf[program.core][t] = "execute_load_store_multiple"
         /\ \A t \in {"T32_LDMIA", "T32_LDMDB", "T32_STMIA", "T32_STMDB"} :
              HandlerOf[program.core][t] = "execute_t32_multiple_load_store"
         /\ \A t \in {"T32_LDREX", "T32_LDREXB", "T32_LDREXH"} :
              HandlerOf[program.core][t] = "execute_exclusive_load"
         /\ \A t \in {"T32_STREX", "T32_STREXB", "T32_STREXH"} :
              HandlerOf[program.core][t] = "execute_exclusive_store"
         /\ \A t \in {"T32_CLREX"} :
              HandlerOf[program.core][t] = "execute_clrex"
         /\ \A t \in {"CBZ", "CBNZ"} :
              HandlerOf[program.core][t] = "execute_cbz_cbnz"
         /\ \A op \in Operations32 : \A form \in {"_IMM", "_REG"} :
              /\ HandlerOf[program.core][T32(op, form)] = "execute_t32_data_processing"
              /\ Operation32[T32(op, form)] = op
              /\ T32(op, form) # "IT"
<1> DEFINE H(t) == HandlerOf[program.core][t]
<1>1. ASSUME NEW name, NEW types, <<name, types>> \in CoreHandlers("M3"), NEW t \in types
      PROVE  H(t) = name
  <2>1. <<name, types>>[1] = name /\ <<name, types>>[2] = types
    OBVIOUS
  <2> QED BY <1>1, <2>1, DispatchIs
<1> HIDE DEF H
<1>2. ASSUME NEW t \in DataProcessingTypes PROVE H(t) = "execute_data_processing"
  BY <1>1, HandlersOfM3
<1>3. ASSUME NEW t \in BranchTypes PROVE H(t) = "execute_branch"
  BY <1>1, HandlersOfM3
<1>4. H("IT") = "execute_it"
  BY <1>1, HandlersOfM3
<1>5. ASSUME NEW op \in Operations32, NEW form \in {"_IMM", "_REG"}
      PROVE  /\ H(T32(op, form)) = "execute_t32_data_processing"
             /\ Operation32[T32(op, form)] = op
             /\ T32(op, form) # "IT"
  <2>1. T32(op, form) \in ImmediateTypes \cup RegisterTypes
    BY DEF T32, ImmediateTypes, RegisterTypes, Suffixed
  <2>2. H(T32(op, form)) = "execute_t32_data_processing"
    BY <1>1, <2>1, HandlersOfM3
  <2>3. Operation32[T32(op, form)] = op
    BY TypesAssumption DEF T32
  <2> QED BY <1>4, <2>2, <2>3
<1>6. H("T32_MUL") = "execute_mul" /\ H("T32_MLA") = "execute_mla" /\ H("T32_MLS") = "execute_mls"
  BY <1>1, HandlersOfM3
<1>7. ASSUME NEW t \in {"T32_UDIV", "T32_SDIV"} PROVE H(t) = "execute_divide"
  BY <1>1, HandlersOfM3
<1>8. ASSUME NEW t \in {"T32_UMULL", "T32_SMULL", "T32_UMLAL", "T32_SMLAL"}
      PROVE  H(t) = "execute_long_multiply"
  BY <1>1, HandlersOfM3
<1>9. ASSUME NEW t \in LoadStoreTypes
      PROVE  H(t) = "execute_load_store"
  BY <1>1, HandlersOfM3
<1>10. ASSUME NEW t \in LoadStore32Types
      PROVE  H(t) = "execute_t32_load_store"
  BY <1>1, HandlersOfM3
<1>11. ASSUME NEW t \in {"STMIA", "LDMIA", "PUSH", "POP"}
      PROVE  H(t) = "execute_load_store_multiple"
  BY <1>1, HandlersOfM3
<1>12. ASSUME NEW t \in {"T32_LDMIA", "T32_LDMDB", "T32_STMIA", "T32_STMDB"}
      PROVE  H(t) = "execute_t32_multiple_load_store"
  BY <1>1, HandlersOfM3
<1>13. ASSUME NEW t \in {"T32_LDREX", "T32_LDREXB", "T32_LDREXH"}
      PROVE  H(t) = "execute_exclusive_load"
  BY <1>1, HandlersOfM3
<1>14. ASSUME NEW t \in {"T32_STREX", "T32_STREXB", "T32_STREXH"}
      PROVE  H(t) = "execute_exclusive_store"
  BY <1>1, HandlersOfM3
<1>15. ASSUME NEW t \in {"T32_CLREX"}
      PROVE  H(t) = "execute_clrex"
  BY <1>1, HandlersOfM3
<1>16. ASSUME NEW t \in {"CBZ", "CBNZ"}
      PROVE  H(t) = "execute_cbz_cbnz"
  BY <1>1, HandlersOfM3
<1> QED BY <1>2, <1>3, <1>4, <1>5, <1>6, <1>7, <1>8, <1>9, <1>10, <1>11, <1>12, <1>13, <1>14,
           <1>15, <1>16, Zenon DEF H

-----------------------------------------------------------------------------
(* What a step does, by the instruction at PC *)

Flags == [n : BOOLEAN, z : BOOLEAN, c : BOOLEAN, v : BOOLEAN, q : BOOLEAN]

(* The part of the state that the steps below speak of, and its type. *)
Ready ==
  /\ program \in Programs /\ program.core = "M3"
  /\ r = [j \in 0..15 |-> r[j]]
  /\ flags \in Flags

(* PC moves on by n, and of the other registers only d is written. *)
Writes(d, value, n) ==
  r' = [j \in 0..15 |-> IF j = PC THEN Low(r[PC] + n) ELSE IF j = d THEN value ELSE r[j]]

LEMMA Written ==
  ASSUME Ready, NEW d, NEW value, NEW n, Writes(d, value, n), flags' \in Flags, program' = program
  PROVE  /\ Ready'
         /\ r'[PC] = Low(r[PC] + n)
         /\ \A j \in 0 .. 14 : r'[j] = IF j = d THEN value ELSE r[j]
<1>1. r' = [j \in 0 .. 15 |-> r'[j]]
  BY DEF Writes
<1>2. r'[PC] = Low(r[PC] + n)
  BY DEF Writes, PC
<1>3. \A j \in 0 .. 14 : r'[j] = IF j = d THEN value ELSE r[j]
  BY DEF Writes, PC
<1> QED BY <1>1, <1>2, <1>3, Zenon DEF Ready

LEMMA MovStep ==
  ASSUME Next, Ready, NEW d \in 0..12, NEW i \in Word, Ins = Mov(d, i)
  PROVE  /\ ~Skipped => Writes(d, i, 4)
         /\ Skipped => Writes(PC, 0, 4)
         /\ Skipped <=> InItBlock /\ CurrentItThen # it.holds
         /\ it' = IF InItBlock THEN Advanced ELSE it
         /\ UNCHANGED <<program, flags, start>>
<1> DEFINE mov == T32("MOV", "_IMM")
<1>1. /\ HandlerOf[program.core][mov] = "execute_t32_data_processing"
      /\ Operation32[mov] = "MOV"
      /\ mov # "IT"
  BY TypesRun DEF Ready, Operations32
<1>2. /\ Ins.type = mov /\ Ins.wide
      /\ Ins.rd = d /\ Ins.imm = i /\ ~Ins.s /\ Has("imm")
  <2>1. Mov(d, i).type = mov
    BY MovIs, Zenon
  <2>2. /\ Mov(d, i).wide
        /\ Mov(d, i).rd = d /\ Mov(d, i).imm = i /\ ~Mov(d, i).s
    BY MovIs
  <2>3. "imm" \in DOMAIN Mov(d, i)
    BY MovIs
  <2> QED BY <2>1, <2>2, <2>3, Zenon DEF Has
<1> HIDE DEF mov
<1>3. Gated <=> InItBlock
  BY <1>1, <1>2, Zenon DEF Gated
<1>4. NextPc = Low(r[PC] + 4)
  BY <1>2 DEF NextPc
<1>5. ASSUME Skipped
      PROVE  /\ Writes(PC, 0, 4) /\ UNCHANGED <<program, flags, start>>
             /\ it' = IF InItBlock THEN Advanced ELSE it
  <2>1. Skip
    BY <1>5, StepIs
  <2> QED BY <1>3, <1>4, <1>5, <2>1 DEF Skip, Finish, Writes, Ready, PC
<1>6. ASSUME ~Skipped
      PROVE  /\ Writes(d, i, 4) /\ UNCHANGED <<program, flags, start>>
             /\ it' = IF InItBlock THEN Advanced ELSE it
  <2>1. ExecuteT32DataProcessing
    BY <1>1, <1>2, <1>6, StepIs
  <2>2. Outcome32.result = i
    <3>1. Operand32 = i
      BY <1>2, Sizes, LowIs DEF Operand32
    <3> QED BY <1>1, <1>2, <3>1 DEF Outcome32, Plain, Result
  <2>3. Finish(Write(d, i)) /\ flags' = flags /\ UNCHANGED <<program, start>>
    BY <1>1, <1>2, <2>1, <2>2 DEF ExecuteT32DataProcessing
  <2> QED BY <1>3, <1>4, <1>6, <2>3 DEF Finish, Write, Writes, Ready, PC
<1>7. Skipped <=> InItBlock /\ CurrentItThen # it.holds
  BY <1>3, Zenon DEF Skipped
<1> QED BY <1>5, <1>6, <1>7

LEMMA NoShift ==
  ASSUME NEW a \in Word
  PROVE  ApplyShift(a, 0, 0) = a
<1>1. Min({0, WordBits}) = 0
  BY WordBitsAssumption DEF Min
<1>2. a * 2^0 = a /\ Low(a) = a
  BY Sizes, LowIs
<1> QED BY <1>1, <1>2 DEF ApplyShift, ShiftLeft, Result

LEMMA FlaggedIs ==
  ASSUME flags \in Flags, NEW out, out.c \in BOOLEAN, out.v \in BOOLEAN
  PROVE  Flagged(out) \in Flags /\ Shows(Flagged(out), out)
<1>1. Negative(out.result) \in BOOLEAN /\ (out.result = 0) \in BOOLEAN
  BY FlagsAreBooleans
<1> DEFINE negative == Negative(out.result)
           zero == out.result = 0
<1>3. Flagged(out) = [flags EXCEPT !.n = negative, !.z = zero, !.c = out.c, !.v = out.v]
  BY Zenon DEF Flagged
<1> HIDE DEF negative, zero
<1>4. negative \in BOOLEAN /\ zero \in BOOLEAN
  BY <1>1 DEF negative, zero
<1>5. /\ Flagged(out) \in Flags
      /\ Flagged(out).n = negative /\ Flagged(out).z = zero
      /\ Flagged(out).c = out.c /\ Flagged(out).v = out.v
  BY <1>3, <1>4 DEF Flags
<1> QED BY <1>5, Zenon DEF Shows, negative, zero

(* A comparison sets the flags and writes no register but R3. *)
Compares(sum, n) ==
  /\ \E d \in {3, PC} : \E value : Writes(d, value, n)
  /\ flags' \in Flags /\ Shows(flags', Compared(sum))
  /\ UNCHANGED <<program, start, it>>

LEMMA NarrowCompareStep ==
  ASSUME Next, Ready, ~InItBlock, Operand1 = x, Operand2 = y, ~Ins.wide,
         Ins.type \in {"CMP_REG", "CMP_HI", "CMN"} \/ (Ins.type \in {"ADD_REG", "SUB_REG"} /\ Ins.rd = 3),
         NEW sum \in BOOLEAN, sum <=> Ins.type \in {"CMN", "ADD_REG"}
  PROVE  Compares(sum, 2)
<1>1. Ins.type \in DataProcessingTypes /\ ~Skipped /\ ~Gated
  BY DEF DataProcessingTypes, AluTable, Skipped, Gated
<1>2. ExecuteDataProcessing
  BY <1>1, TypesRun, StepIs DEF Ready
<1>3. Outcomes16 = {Compared(sum)}
  BY DEF Outcomes16, AluOutcome, Compared
<1>4. Compared(sum).c \in BOOLEAN /\ Compared(sum).v \in BOOLEAN
  BY FlagsAreBooleans DEF Compared
<1>5. NextPc = Low(r[PC] + 2)
  BY DEF NextPc
<1>6. /\ Finish(IF Ins.type \in Compares16 THEN r ELSE Write(Ins.rd, Compared(sum).result))
      /\ flags' = Flagged(Compared(sum)) /\ UNCHANGED <<program, start>>
  BY <1>2, <1>3 DEF ExecuteDataProcessing, Silent16
<1>7. it' = it /\ \E d \in {3, PC} : \E value : Writes(d, value, 2)
  <2>1. CASE Ins.type \in Compares16
    <3>1. it' = it /\ Writes(PC, 0, 2)
      BY <1>1, <1>5, <1>6, <2>1 DEF Finish, Writes, Ready, PC
    <3> QED BY <3>1
  <2>2. CASE Ins.type \notin Compares16
    <3>1. it' = it /\ Writes(3, Compared(sum).result, 2)
      BY <1>1, <1>5, <1>6, <2>2 DEF Finish, Write, Writes, Ready, PC, Compares16
    <3> QED BY <3>1
  <2> QED BY <2>1, <2>2
<1>8. flags' \in Flags /\ Shows(flags', Compared(sum))
  BY <1>4, <1>6, FlaggedIs DEF Ready
<1> QED BY <1>6, <1>7, <1>8 DEF Compares

LEMMA WideCompareStep ==
  ASSUME Next, Ready, ~InItBlock, r[0] = x, r[1] = y, x \in Word, y \in Word,
         NEW op \in {"CMP", "CMN", "SUB", "RSB", "ADD"}, Ins.type = T32(op, "_REG"), Ins.wide,
         ~Has("imm"), Has("s"), Ins.s, Ins.stype = 0, Ins.shift = 0,
         Ins.rn = (IF op = "RSB" THEN 1 ELSE 0), Ins.rm = (IF op = "RSB" THEN 0 ELSE 1),
         op \in {"SUB", "RSB", "ADD"} => Ins.rd = 3,
         NEW sum \in BOOLEAN, sum <=> op \in {"CMN", "ADD"}
  PROVE  Compares(sum, 4)
<1> DEFINE compares == op \in {"CMP", "CMN"}
<1>1. /\ HandlerOf[program.core][Ins.type] = "execute_t32_data_processing"
      /\ Operation32[Ins.type] = op
  BY TypesRun DEF Ready, Operations32
<1>2. ~Skipped /\ ~Gated
  BY DEF Skipped, Gated
<1>3. ExecuteT32DataProcessing
  BY <1>1, <1>2, StepIs
<1>4. Outcome32 = Compared(sum)
  <2>1. Adjusted(Ins.rn) = r[Ins.rn] /\ Adjusted(Ins.rm) = r[Ins.rm]
    BY DEF Adjusted, PC
  <2>2. r[Ins.rm] \in Word
    OBVIOUS
  <2>3. Operand32 = r[Ins.rm]
    BY <2>1, <2>2, NoShift DEF Operand32
  <2> QED BY <1>1, <2>1, <2>3 DEF Outcome32, Compared
<1>5. Compared(sum).c \in BOOLEAN /\ Compared(sum).v \in BOOLEAN
  BY FlagsAreBooleans DEF Compared
<1>6. NextPc = Low(r[PC] + 4)
  BY DEF NextPc
<1>7. /\ Finish(IF compares THEN r ELSE Write(Ins.rd, Compared(sum).result))
      /\ flags' = Flagged(Compared(sum)) /\ UNCHANGED <<program, start>>
  BY <1>1, <1>3, <1>4 DEF ExecuteT32DataProcessing
<1>8. it' = it /\ \E d \in {3, PC} : \E value : Writes(d, value, 4)
  <2>1. CASE compares
    <3>1. it' = it /\ Writes(PC, 0, 4)
      BY <1>2, <1>6, <1>7, <2>1 DEF Finish, Writes, Ready, PC
    <3> QED BY <3>1
  <2>2. CASE ~compares
    <3>1. it' = it /\ Writes(3, Compared(sum).result, 4)
      BY <1>2, <1>6, <1>7, <2>2 DEF Finish, Write, Writes, Ready, PC
    <3> QED BY <3>1
  <2> QED BY <2>1, <2>2
<1>9. flags' \in Flags /\ Shows(flags', Compared(sum))
  BY <1>5, <1>7, FlaggedIs DEF Ready
<1> QED BY <1>7, <1>8, <1>9 DEF Compares

LEMMA MovNarrowStep ==
  ASSUME Next, Ready, ~InItBlock, NEW d \in 0..12, NEW i \in Word, Ins = DI("MOV_IMM", d, i)
  PROVE  Writes(d, i, 2) /\ flags' \in Flags /\ UNCHANGED <<program, start, it>>
<1>1. "MOV_IMM" \in Narrow /\ "MOV_IMM" \in DataProcessingTypes
  BY DEF Narrow, DataProcessingTypes
<1>2. Ins.type = "MOV_IMM" /\ ~Ins.wide /\ Ins.rd = d /\ Ins.imm = i /\ Has("imm")
  BY <1>1 DEF DI, Of, Has
<1>3. ~Skipped /\ ~Gated
  BY DEF Skipped, Gated
<1>4. ExecuteDataProcessing
  BY <1>1, <1>2, <1>3, TypesRun, StepIs DEF Ready
<1>5. Outcomes16 = {Plain(i)}
  BY <1>2 DEF Outcomes16, Operand2
<1>6. Plain(i).result = i /\ Plain(i).c \in BOOLEAN /\ Plain(i).v \in BOOLEAN
  BY DEF Plain, Result
<1>7. Finish(Write(d, i)) /\ flags' = Flagged(Plain(i)) /\ UNCHANGED <<program, start>>
  BY <1>2, <1>4, <1>5, <1>6 DEF ExecuteDataProcessing, Compares16, Silent16
<1>8. NextPc = Low(r[PC] + 2)
  BY <1>2 DEF NextPc
<1>9. it' = it /\ Writes(d, i, 2)
  BY <1>3, <1>7, <1>8 DEF Finish, Write, Writes, Ready, PC
<1> QED BY <1>6, <1>7, <1>9, FlaggedIs DEF Ready

LEMMA BranchStep ==
  ASSUME Next, Ready, ~InItBlock, r[PC] \in Int,
         NEW type \in {"B_COND", "T32_B_COND"}, NEW c, NEW i \in Int, Ins = If(type, c, i)
  PROVE  /\ Writes(PC, 0, IF CheckCondition(c, flags) THEN 4 + i ELSE IF type = "B_COND" THEN 2 ELSE 4)
         /\ it' = IF CheckCondition(c, flags) THEN NoIt ELSE it
         /\ UNCHANGED <<program, start, flags>>
<1>1. "B_COND" \in Narrow /\ "T32_B_COND" \notin Narrow /\ type \in BranchTypes
  BY DEF Narrow, DataProcessingTypes, LoadStoreTypes, AluTable, LoadStoreTable, BranchTypes
<1>2. Ins.type = type /\ (Ins.wide <=> type = "T32_B_COND") /\ Ins.cond = c /\ Ins.imm = i
  BY <1>1 DEF If, Of
<1>3. ~Skipped /\ ~Gated
  BY DEF Skipped, Gated
<1>4. ExecuteBranch
  BY <1>1, <1>2, <1>3, TypesRun, StepIs DEF Ready
<1>5. NextPc = Low(r[PC] + IF type = "B_COND" THEN 2 ELSE 4)
  BY <1>2 DEF NextPc
<1>6. CASE CheckCondition(c, flags)
  <2>1. Leave(r, Low(r[PC] + 4 + i)) /\ UNCHANGED <<program, start, flags>>
    BY <1>2, <1>4, <1>6 DEF ExecuteBranch
  <2>2. r[PC] + 4 + i = r[PC] + (4 + i)
    OBVIOUS
  <2> QED BY <1>6, <2>1, <2>2 DEF Leave, Writes, Ready, PC
<1>7. CASE ~CheckCondition(c, flags)
  <2>1. Finish(r) /\ UNCHANGED <<program, start, flags>>
    BY <1>2, <1>4, <1>7 DEF ExecuteBranch
  <2> QED BY <1>3, <1>5, <1>7, <2>1 DEF Finish, Writes, Ready, PC
<1> QED BY <1>6, <1>7

LEMMA ItStep ==
  ASSUME Next, Ready, ~InItBlock, NEW c, NEW mask, Ins = If("IT", c, mask)
  PROVE  /\ Writes(PC, 0, 2)
         /\ it' = [cond |-> c, mask |-> mask, len |-> IF mask \in DOMAIN ItLength THEN ItLength[mask] ELSE 0,
                   index |-> 0, holds |-> CheckCondition(c, flags)]
         /\ UNCHANGED <<program, start, flags>>
<1>1. "IT" \in Narrow
  BY DEF Narrow
<1>2. Ins.type = "IT" /\ ~Ins.wide /\ Ins.cond = c /\ Ins.imm = mask
  BY <1>1 DEF If, Of
<1>3. ~Skipped
  BY DEF Skipped, Gated
<1>4. ExecuteIt
  BY <1>2, <1>3, TypesRun, StepIs DEF Ready
<1>5. NextPc = Low(r[PC] + 2)
  BY <1>2 DEF NextPc
<1>6. r' = [r EXCEPT ![PC] = NextPc] /\ UNCHANGED <<program, start, flags>>
  BY <1>4 DEF ExecuteIt
<1>7. it' = [cond |-> c, mask |-> mask, len |-> IF mask \in DOMAIN ItLength THEN ItLength[mask] ELSE 0,
             index |-> 0, holds |-> CheckCondition(c, flags)]
  BY <1>2, <1>4, Zenon DEF ExecuteIt
<1> QED BY <1>5, <1>6, <1>7 DEF Writes, Ready, PC

LEMMA CompareStep ==
  ASSUME Next, Ready, ~InItBlock, r[0] = x, r[1] = y, x \in Word, y \in Word,
         NEW v \in DOMAIN Compare, Ins = Compare[v]
  PROVE  Compares(v \in SumsCompare, Bytes(Compare[v]))
<1> DEFINE sum == v \in SumsCompare
<1>1. v \in {"CMP_REG", "CMP_HI", "CMP_W", "SUB_REG", "SUB_W", "RSB_W", "CMN", "CMN_W", "ADD_REG", "ADD_W"}
  BY DEF Compare
<1>2. {"CMP_REG", "CMP_HI", "CMN", "ADD_REG", "SUB_REG"} \subseteq Narrow
  BY DEF Narrow, DataProcessingTypes, AluTable
<1>3. sum \in BOOLEAN /\ (sum <=> v \in {"CMN", "CMN_W", "ADD_REG", "ADD_W"})
  BY DEF SumsCompare
<1> HIDE DEF sum
<1>4. CASE v \in {"CMP_REG", "CMP_HI", "CMN", "ADD_REG", "SUB_REG"}
  <2>1. /\ Ins.type = v /\ ~Ins.wide
        /\ (v \in {"ADD_REG", "SUB_REG"} => Ins.rd = 3)
        /\ Operand1 = x /\ Operand2 = y
    <3>1. CASE v = "CMP_REG"
      BY <1>2, <3>1 DEF Compare, DM, Of, Has, Operand1, Operand2
    <3>2. CASE v = "CMP_HI"
      BY <1>2, <3>2 DEF Compare, Of, Has, Operand1, Operand2
    <3>3. CASE v = "CMN"
      BY <1>2, <3>3 DEF Compare, DM, Of, Has, Operand1, Operand2
    <3>4. CASE v = "ADD_REG"
      BY <1>2, <3>4 DEF Compare, DNM, Of, Has, Operand1, Operand2
    <3>5. CASE v = "SUB_REG"
      BY <1>2, <3>5 DEF Compare, DNM, Of, Has, Operand1, Operand2
    <3> QED BY <1>4, <3>1, <3>2, <3>3, <3>4, <3>5
  <2>2. Bytes(Compare[v]) = 2
    BY <2>1 DEF Bytes
  <2> QED BY <1>3, <1>4, <2>1, <2>2, NarrowCompareStep DEF sum
<1>5. ASSUME NEW op \in {"CMP", "CMN", "SUB", "RSB", "ADD"}, NEW d, NEW n, NEW m,
             Compare[v] = Reg(op, d, n, m, TRUE),
             n = IF op = "RSB" THEN 1 ELSE 0, m = IF op = "RSB" THEN 0 ELSE 1,
             op \in {"SUB", "RSB", "ADD"} => d = 3, sum <=> op \in {"CMN", "ADD"}
      PROVE  Compares(sum, Bytes(Compare[v]))
  <2>1. "T32_" \o op \o "_REG" \notin Narrow
    BY TypesAssumption DEF Operations32
  <2>2. /\ Ins.type = T32(op, "_REG") /\ Ins.wide /\ ~Has("imm") /\ Has("s") /\ Ins.s
        /\ Ins.stype = 0 /\ Ins.shift = 0 /\ Ins.rd = d /\ Ins.rn = n /\ Ins.rm = m
    BY <1>5, <2>1 DEF Reg, Shifted, Of, Has, T32
  <2>3. Bytes(Compare[v]) = 4
    BY <2>2 DEF Bytes
  <2> QED BY <1>3, <1>5, <2>2, <2>3, WideCompareStep
<1>6. CASE v = "CMP_W"
  <2>1. Compare[v] = Reg("CMP", 15, 0, 1, TRUE)
    BY <1>6 DEF Compare
  <2> QED BY <1>3, <1>5, <1>6, <2>1 DEF sum
<1>7. CASE v = "SUB_W"
  <2>1. Compare[v] = Reg("SUB", 3, 0, 1, TRUE)
    BY <1>7 DEF Compare
  <2> QED BY <1>3, <1>5, <1>7, <2>1 DEF sum
<1>8. CASE v = "RSB_W"
  <2>1. Compare[v] = Reg("RSB", 3, 1, 0, TRUE)
    BY <1>8 DEF Compare
  <2> QED BY <1>3, <1>5, <1>8, <2>1 DEF sum
<1>9. CASE v = "CMN_W"
  <2>1. Compare[v] = Reg("CMN", 15, 0, 1, TRUE)
    BY <1>9 DEF Compare
  <2> QED BY <1>3, <1>5, <1>9, <2>1 DEF sum
<1>10. CASE v = "ADD_W"
  <2>1. Compare[v] = Reg("ADD", 3, 0, 1, TRUE)
    BY <1>10 DEF Compare
  <2> QED BY <1>3, <1>5, <1>10, <2>1 DEF sum
<1> QED BY <1>1, <1>4, <1>6, <1>7, <1>8, <1>9, <1>10

-----------------------------------------------------------------------------
(* Where the instructions of a short program are *)

Rises(n, at, b) == at[1] = 0 /\ \A i \in 1 .. n : b[i] \in {2, 4} /\ at[i + 1] = at[i] + b[i]

LEMMA Rising ==
  ASSUME NEW n \in 1 .. 6, NEW at, NEW b, Rises(n, at, b)
  PROVE  /\ \A i \in 1 .. n + 1 : at[i] \in Nat
         /\ \A i, j \in 1 .. n + 1 : i < j => at[i] < at[j]
<1>1. /\ at[2] = at[1] + b[1] /\ b[1] \in {2, 4}
      /\ n >= 2 => at[3] = at[2] + b[2] /\ b[2] \in {2, 4}
      /\ n >= 3 => at[4] = at[3] + b[3] /\ b[3] \in {2, 4}
      /\ n >= 4 => at[5] = at[4] + b[4] /\ b[4] \in {2, 4}
      /\ n >= 5 => at[6] = at[5] + b[5] /\ b[5] \in {2, 4}
      /\ n >= 6 => at[7] = at[6] + b[6] /\ b[6] \in {2, 4}
  BY DEF Rises
<1>2. /\ at[1] \in Nat /\ at[2] \in Nat /\ at[1] < at[2]
  BY <1>1 DEF Rises
<1>3. n >= 2 => at[3] \in Nat /\ at[2] < at[3]
  BY <1>1, <1>2
<1>4. n >= 3 => at[4] \in Nat /\ at[3] < at[4]
  BY <1>1, <1>3
<1>5. n >= 4 => at[5] \in Nat /\ at[4] < at[5]
  BY <1>1, <1>4
<1>6. n >= 5 => at[6] \in Nat /\ at[5] < at[6]
  BY <1>1, <1>5
<1>7. n >= 6 => at[7] \in Nat /\ at[6] < at[7]
  BY <1>1, <1>6
<1>8. \A i \in 1 .. n + 1 : \/ i \in {1, 2} \/ (i = 3 /\ n >= 2) \/ (i = 4 /\ n >= 3)
                           \/ (i = 5 /\ n >= 4) \/ (i = 6 /\ n >= 5) \/ (i = 7 /\ n >= 6)
  OBVIOUS
<1>9. ASSUME NEW i \in 1 .. n + 1 PROVE at[i] \in Nat
  BY <1>2, <1>3, <1>4, <1>5, <1>6, <1>7, <1>8
<1>10. ASSUME NEW i \in 1 .. n PROVE at[i] < at[i + 1]
  BY <1>9 DEF Rises
<1>11. ASSUME NEW i \in 1 .. n + 1, NEW j \in 1 .. n + 1, i < j PROVE at[i] < at[j]
  <2>1. /\ at[1] < at[2] 
        /\ n >= 2 => at[2] < at[3]
        /\ n >= 3 => at[3] < at[4]
        /\ n >= 4 => at[4] < at[5]
        /\ n >= 5 => at[5] < at[6]
        /\ n >= 6 => at[6] < at[7]
     BY <1>10
  <2> QED BY <1>2, <1>3, <1>4, <1>5, <1>6, <1>7, <1>8, <2>1, <1>11
<1> QED BY <1>9, <1>11

LEMMA OffsetsAre ==
  ASSUME NEW n \in 1 .. 6, NEW code, Len(code) = n
  PROVE  /\ Offsets(code)[1] = 0
         /\ \A i \in 1 .. n : Offsets(code)[i + 1] = Offsets(code)[i] + Bytes(code[i])
         /\ \A i \in 1 .. n : Bytes(code[i]) \in {2, 4}
<1> DEFINE P(f) == f = [i \in 1 .. n + 1 |-> IF i = 1 THEN 0 ELSE f[i - 1] + Bytes(code[i - 1])]
           b(i) == Bytes(code[i])
           g == [i \in 1 .. n + 1 |->
                   CASE i = 1 -> 0 [] i = 2 -> b(1) [] i = 3 -> b(1) + b(2) [] i = 4 -> b(1) + b(2) + b(3)
                     [] i = 5 -> b(1) + b(2) + b(3) + b(4) [] i = 6 -> b(1) + b(2) + b(3) + b(4) + b(5)
                     [] i = 7 -> b(1) + b(2) + b(3) + b(4) + b(5) + b(6)]
<1>1. \A i : b(i) \in {2, 4}
  BY DEF Bytes
<1>2. P(g)
  <2> HIDE DEF b
  <2>1. \A i \in 1 .. n + 1 : g[i] = IF i = 1 THEN 0 ELSE g[i - 1] + b(i - 1)
    BY <1>1
  <2> HIDE DEF g
  <2>2. g = [i \in 1 .. n + 1 |-> g[i]]
    BY DEF g
  <2> QED BY <2>1, <2>2 DEF b
<1>3. P(CHOOSE f : P(f))
  BY <1>2
<1>4. Offsets(code) = CHOOSE f : P(f)
  BY DEF Offsets
<1>5. P(Offsets(code))
  BY <1>3, <1>4
<1>6. \A i \in 1 .. n + 1 : Offsets(code)[i] = IF i = 1 THEN 0 ELSE Offsets(code)[i - 1] + b(i - 1)
  BY <1>5
<1> HIDE DEF b
<1>7. Offsets(code)[1] = 0
  BY <1>6
<1>8. \A i \in 1 .. n : Offsets(code)[i + 1] = Offsets(code)[i] + b(i)
  BY <1>6
<1> QED BY <1>1, <1>7, <1>8 DEF b

(* PC names the instruction at its offset, and the end. *)
Placed(n, code) ==
  LET at == Offsets(code) IN
  /\ at[1] = 0
  /\ \A i \in 1 .. n + 1 : at[i] \in Nat
  /\ \A i \in 1 .. n : at[i + 1] = at[i] + Bytes(code[i]) /\ Low(at[i + 1]) = at[i + 1]
  /\ \A i \in 1 .. n : r[PC] = at[i] => Ins = code[i] /\ ~Done
  /\ r[PC] = at[n + 1] => ~Fetched /\ Done

LEMMA LaidIs ==
  ASSUME NEW n \in 1 .. 6, NEW name, NEW code, Len(code) = n, DOMAIN code = 1 .. n,
         program = Laid(name, "M3", code), program.end \in Word
  PROVE  Placed(n, code)
<1> DEFINE at == Offsets(code)
           b == [i \in 1 .. n |-> Bytes(code[i])]
<1>1. Rises(n, at, b)
  BY OffsetsAre DEF Rises
<1>2. /\ program.end = at[n + 1]
      /\ program.code = [a \in {at[i] : i \in 1 .. n} |-> code[CHOOSE i \in 1 .. n : at[i] = a]]
  BY DEF Laid, Length
<1> HIDE DEF at, b
<1>3. \A i \in 1 .. n + 1 : at[i] \in Nat
  BY <1>1, Rising
<1>4. \A i, j \in 1 .. n + 1 : i < j => at[i] < at[j]
  BY <1>1, Rising
<1>5. ASSUME NEW i \in 1 .. n
      PROVE  at[i] \in DOMAIN program.code /\ program.code[at[i]] = code[i]
  <2>1. \A j \in 1 .. n : at[j] = at[i] => j = i
    BY <1>3, <1>4
  <2> DEFINE k == CHOOSE j \in 1 .. n : at[j] = at[i]
  <2>2. k \in 1 .. n /\ at[k] = at[i]
    OBVIOUS
  <2>3. k = i
    <3> HIDE DEF k
    <3> QED BY <2>1, <2>2
  <2>4. at[i] \in {at[j] : j \in 1 .. n}
    OBVIOUS
  <2>5. program.code[at[i]] = code[k]
    BY <1>2, <2>4
  <2> QED BY <1>2, <2>3, <2>4, <2>5
<1>6. \A i \in 1 .. n : at[n + 1] # at[i]
  BY <1>3, <1>4
<1>7. at[n + 1] \notin DOMAIN program.code
  BY <1>2, <1>6
<1>8. ASSUME NEW i \in 1 .. n PROVE Low(at[i + 1]) = at[i + 1]
  <2>1. at[i + 1] <= at[n + 1]
    BY <1>3, <1>4
  <2> QED BY <1>2, <1>3, <2>1, LowIs, Sizes
<1>9. ASSUME NEW i \in 1 .. n, r[PC] = at[i] PROVE Ins = code[i] /\ ~Done
  BY <1>2, <1>5, <1>6, <1>9 DEF Ins, Done
<1>10. ASSUME r[PC] = at[n + 1] PROVE ~Fetched /\ Done
  BY <1>2, <1>7, <1>10 DEF Fetched, Done
<1>11. \A i \in 1 .. n : at[i + 1] = at[i] + Bytes(code[i])
  BY <1>1 DEF b, Rises
<1>12. at[1] = 0
  BY <1>1 DEF Rises
<1> QED BY <1>2, <1>3, <1>8, <1>9, <1>10, <1>11, <1>12 DEF at, Placed

LEMMA OrderStays ==
  ASSUME start' = start
  PROVE  /\ \A c, sum : Order(c, sum)' = Order(c, sum)
         /\ \A sum : Compared(sum)' = Compared(sum)
         /\ x' = x /\ y' = y
  BY DEF Order, Compared, x, y

LEMMA SizesOf ==
  /\ \A d, i : Bytes(Mov(d, i)) = 4
  /\ \A d, i : Bytes(DI("MOV_IMM", d, i)) = 2
  /\ \A c, i : Bytes(If("B_COND", c, i)) = 2 /\ Bytes(If("IT", c, i)) = 2
  /\ \A c, i : Bytes(If("T32_B_COND", c, i)) = 4
  /\ Bytes(DM("CMP_REG", 0, 1)) = 2
<1>1. {"MOV_IMM", "CMP_REG", "B_COND", "IT"} \subseteq Narrow /\ "T32_B_COND" \notin Narrow
  BY DEF Narrow, DataProcessingTypes, LoadStoreTypes, AluTable, LoadStoreTable
<1>2. \A d, i : Bytes(Mov(d, i)) = 4
  BY MovIs DEF Bytes
<1>3. \A d, i : Bytes(DI("MOV_IMM", d, i)) = 2
  BY <1>1 DEF Bytes, DI, Of
<1>4. \A c, i : Bytes(If("B_COND", c, i)) = 2
  BY <1>1 DEF Bytes, If, Of
<1>5. \A c, i : Bytes(If("IT", c, i)) = 2
  BY <1>1 DEF Bytes, If, Of
<1>6. \A c, i : Bytes(If("T32_B_COND", c, i)) = 4
  BY <1>1 DEF Bytes, If, Of
<1>7. Bytes(DM("CMP_REG", 0, 1)) = 2
  BY <1>1 DEF Bytes, DM, Of
<1> QED BY <1>2, <1>3, <1>4, <1>5, <1>6, <1>7

-----------------------------------------------------------------------------
(* Comparisons *)

(* Where a program that decides by condition c on comparison v is, and what *)
(* it has computed by then.                                                 *)
DecideFor(v, c, use) ==
  LET at     == Offsets(DecideCode(v, c, use))
      before == IF use = 2 THEN 0 ELSE 1
      sum    == v \in SumsCompare
  IN  /\ Ready /\ x \in Word /\ y \in Word
      /\ \/ r[PC] = at[1] /\ it = NoIt /\ r[0] = x /\ r[1] = y
         \/ r[PC] = at[2] /\ it = NoIt /\ r[0] = x /\ r[1] = y /\ r[2] = before
         \/ r[PC] = at[3] /\ it = NoIt /\ r[2] = before /\ Shows(flags, Compared(sum))
         \/ /\ r[PC] = at[4] /\ r[2] = before
            /\ IF use = 2 THEN /\ it.len = 1 /\ it.index = 0
                               /\ it.holds \in BOOLEAN /\ (it.holds <=> Order(c, sum))
                          ELSE it = NoIt /\ ~Order(c, sum)
         \/ r[PC] = at[5] /\ r[2] = IF Order(c, sum) THEN 1 ELSE 0

DecideInv == Group = "decide" => DecideFor(Variant, Third, Fourth)

LEMMA DecideCodeIs ==
  ASSUME NEW v \in DOMAIN Compare, NEW c \in 0 .. 13, NEW use \in 0 .. 2
  PROVE  LET code == DecideCode(v, c, use) IN
         /\ Len(code) = 4 /\ DOMAIN code = 1 .. 4
         /\ code[1] = Mov(2, IF use = 2 THEN 0 ELSE 1)
         /\ code[2] = Compare[v]
         /\ use = 0 => code[3] = If("B_COND", c, 0)
         /\ use = 1 => code[3] = If("T32_B_COND", c, 2)
         /\ use = 2 => code[3] = If("IT", c, 8)
         /\ code[4] = IF use = 2 THEN Mov(2, 1) ELSE DI("MOV_IMM", 2, 0)
  BY DEF DecideCode

LEMMA DecideStep ==
  ASSUME NEW name, NEW v \in DOMAIN Compare, NEW c \in 0 .. 13, NEW use \in 0 .. 2,
         program = Laid(name, "M3", DecideCode(v, c, use)), program.end \in Word,
         Next, DecideFor(v, c, use)
  PROVE  DecideFor(v, c, use)'
<1> DEFINE code   == DecideCode(v, c, use)
           at     == Offsets(code)
           before == IF use = 2 THEN 0 ELSE 1
           sum    == v \in SumsCompare
<1>1. /\ at[1] = 0 /\ \A i \in 1 .. 5 : at[i] \in Nat
      /\ \A i \in 1 .. 4 : at[i + 1] = at[i] + Bytes(code[i]) /\ Low(at[i + 1]) = at[i + 1]
      /\ \A i \in 1 .. 4 : r[PC] = at[i] => Ins = code[i]
      /\ r[PC] = at[5] => ~Fetched
  <2>1. 4 \in 1 .. 6 /\ Len(code) = 4 /\ DOMAIN code = 1 .. 4 /\ program = Laid(name, "M3", code)
    BY DecideCodeIs
  <2> HIDE DEF code
  <2>2. Placed(4, code)
    BY <2>1, LaidIs
  <2> QED BY <2>2 DEF Placed
<1>2. /\ code[1] = Mov(2, before) /\ code[2] = Compare[v]
      /\ use = 0 => code[3] = If("B_COND", c, 0)
      /\ use = 1 => code[3] = If("T32_B_COND", c, 2)
      /\ use = 2 => code[3] = If("IT", c, 8)
      /\ use = 2 => code[4] = Mov(2, 1)
      /\ use # 2 => code[4] = DI("MOV_IMM", 2, 0)
  BY DecideCodeIs
<1>3. program' = program /\ start' = start /\ Fetched
  BY ProgramStays, StepIs
<1>4. Ready /\ x \in Word /\ y \in Word
  BY DEF DecideFor
<1>5. 0 \in Word /\ 1 \in Word /\ before \in {0, 1}
  BY Sizes
<1>6. it = NoIt => ~InItBlock
  BY DEF InItBlock, NoIt
<1> DEFINE At(i) == r[PC] = at[i]
           outside == it = NoIt
           operands == r[0] = x /\ r[1] = y
           holds == Order(c, sum)
<1>7. sum \in BOOLEAN
  OBVIOUS
<1> HIDE DEF code, at, sum, holds
<1>8. \/ r[PC] = at[1] /\ it = NoIt /\ r[0] = x /\ r[1] = y
      \/ r[PC] = at[2] /\ it = NoIt /\ r[0] = x /\ r[1] = y /\ r[2] = before
      \/ r[PC] = at[3] /\ it = NoIt /\ r[2] = before /\ Shows(flags, Compared(sum))
      \/ /\ r[PC] = at[4] /\ r[2] = before
         /\ IF use = 2 THEN /\ it.len = 1 /\ it.index = 0
                            /\ it.holds \in BOOLEAN /\ (it.holds <=> holds)
                       ELSE it = NoIt /\ ~holds
      \/ r[PC] = at[5]
  BY Zenon DEF DecideFor, at, code, sum, holds
<1> DEFINE Next1 == r'[PC] = at[2] /\ it' = NoIt /\ r'[0] = x /\ r'[1] = y /\ r'[2] = before
           Next2 == r'[PC] = at[3] /\ it' = NoIt /\ r'[2] = before /\ Shows(flags', Compared(sum))
           Next3 == /\ r'[PC] = at[4] /\ r'[2] = before
                    /\ IF use = 2 THEN /\ it'.len = 1 /\ it'.index = 0
                                       /\ it'.holds \in BOOLEAN /\ (it'.holds <=> holds)
                                  ELSE it' = NoIt /\ ~holds
           Next4 == r'[PC] = at[5] /\ r'[2] = IF holds THEN 1 ELSE 0
<1>9. SUFFICES Ready' /\ (Next1 \/ Next2 \/ Next3 \/ Next4)
  BY <1>3, <1>4, OrderStays, Zenon DEF DecideFor, at, code, sum, holds
<1>10. CASE At(1) /\ outside /\ operands
  <2>1. Ins = Mov(2, before) /\ Bytes(code[1]) = 4
    BY <1>1, <1>2, <1>10, SizesOf
  <2>2. Writes(2, before, 4) /\ it' = it /\ flags' = flags
    BY <1>4, <1>5, <1>6, <1>10, <2>1, MovStep
  <2>3. Ready' /\ r'[PC] = Low(r[PC] + 4) /\ \A j \in 0 .. 14 : r'[j] = IF j = 2 THEN before ELSE r[j]
    BY <1>3, <1>4, <2>2, Written DEF Ready
  <2> QED BY <1>1, <1>10, <2>1, <2>2, <2>3
<1>11. CASE At(2) /\ outside /\ operands /\ r[2] = before
  <2>1. Ins = Compare[v] /\ at[3] = Low(at[2] + Bytes(Compare[v]))
    BY <1>1, <1>2, <1>11
  <2>2. Compares(sum, Bytes(Compare[v]))
    BY <1>4, <1>6, <1>11, <2>1, CompareStep DEF sum
  <2>3. PICK d, value : d \in {3, PC} /\ Writes(d, value, Bytes(Compare[v]))
    BY <2>2 DEF Compares
  <2>4. flags' \in Flags /\ Shows(flags', Compared(sum)) /\ it' = it
    BY <2>2 DEF Compares
  <2>5. Ready' /\ r'[PC] = at[3] /\ r'[2] = r[2]
    BY <1>3, <1>4, <1>11, <2>1, <2>3, <2>4, Written DEF PC
  <2> QED BY <1>11, <2>4, <2>5
<1>12. CASE At(3) /\ outside /\ r[2] = before /\ Shows(flags, Compared(sum))
  <2>1. CheckCondition(c, flags) <=> holds
    BY <1>4, <1>7, <1>12, ConditionIs, Zenon DEF holds
  <2>2. CASE use = 2
    <3>1. Ins = If("IT", c, 8) /\ Bytes(code[3]) = 2
      BY <1>1, <1>2, <1>12, <2>2, SizesOf
    <3>2. /\ Writes(PC, 0, 2) /\ flags' = flags
          /\ it' = [cond |-> c, mask |-> 8, len |-> IF 8 \in DOMAIN ItLength THEN ItLength[8] ELSE 0,
                    index |-> 0, holds |-> CheckCondition(c, flags)]
      BY <1>4, <1>6, <1>12, <3>1, ItStep
    <3>3. it'.len = 1 /\ it'.index = 0 /\ it'.holds = CheckCondition(c, flags)
      BY <3>2 DEF ItLength
    <3>4. it'.holds \in BOOLEAN /\ (it'.holds <=> holds)
      BY <2>1, <3>3, Zenon DEF CheckCondition
    <3>5. Ready' /\ r'[PC] = at[4] /\ r'[2] = r[2]
      BY <1>1, <1>3, <1>4, <1>12, <3>1, <3>2, Written DEF PC, Ready
    <3> QED BY <1>12, <2>2, <3>3, <3>4, <3>5, Zenon
  <2>3. CASE use # 2
    <3>1. PICK type \in {"B_COND", "T32_B_COND"}, i \in {0, 2} :
            /\ Ins = If(type, c, i)
            /\ Bytes(code[3]) = IF type = "B_COND" THEN 2 ELSE 4
            /\ 4 + i = Bytes(code[3]) + 2
      BY <1>1, <1>2, <1>12, <2>3, SizesOf
    <3>2. Bytes(code[4]) = 2 /\ r[PC] \in Nat
      BY <1>1, <1>2, <1>12, <2>3, SizesOf
    <3>3. /\ Writes(PC, 0, IF CheckCondition(c, flags) THEN 4 + i
                           ELSE IF type = "B_COND" THEN 2 ELSE 4)
          /\ it' = IF CheckCondition(c, flags) THEN NoIt ELSE it
          /\ flags' = flags
      BY <1>4, <1>6, <1>12, <3>1, <3>2, BranchStep
    <3>4. CASE holds
      <4>1. Writes(PC, 0, 4 + i)
        BY <2>1, <3>3, <3>4, Zenon
      <4>2. Ready' /\ r'[PC] = Low(r[PC] + (4 + i)) /\ r'[2] = r[2]
        BY <1>3, <1>4, <3>3, <4>1, Written DEF PC, Ready
      <4>3. r[PC] + (4 + i) = at[5] /\ Low(at[5]) = at[5]
        BY <1>1, <1>2, <1>12, <3>1, <3>2
      <4> QED BY <1>5, <1>12, <2>3, <3>4, <4>2, <4>3
    <3>5. CASE ~holds
      <4>1. Writes(PC, 0, Bytes(code[3])) /\ it' = NoIt
        BY <1>12, <2>1, <3>1, <3>3, <3>5, Zenon
      <4>2. Ready' /\ r'[PC] = Low(r[PC] + Bytes(code[3])) /\ r'[2] = r[2]
        BY <1>3, <1>4, <3>3, <4>1, Written DEF PC, Ready
      <4> QED BY <1>1, <1>12, <2>3, <3>5, <4>1, <4>2
    <3> QED BY <3>4, <3>5
  <2> QED BY <2>2, <2>3
<1>13. CASE /\ At(4) /\ r[2] = before /\ use = 2 /\ it.len = 1 /\ it.index = 0
            /\ it.holds \in BOOLEAN /\ (it.holds <=> holds)
  <2>1. Ins = Mov(2, 1) /\ Bytes(code[4]) = 4
    BY <1>1, <1>2, <1>13, SizesOf
  <2>2. InItBlock /\ CurrentItThen
    BY <1>13 DEF InItBlock, CurrentItThen
  <2>3. (CurrentItThen # it.holds) <=> ~holds
    BY <1>13, <2>2 DEF CurrentItThen
  <2>4. /\ holds => Writes(2, 1, 4)
        /\ ~holds => Writes(PC, 0, 4)
        /\ flags' = flags
    <3> USE MovStep
    <3>1. 2 \in 0 .. 12
      OBVIOUS
    <3> QED BY <1>4, <1>5, <2>1, <2>2, <2>3, <3>1, Zenon
  <2>5. CASE holds
    <3>1. Ready' /\ r'[PC] = Low(r[PC] + 4) /\ r'[2] = 1
      BY <1>3, <1>4, <2>4, <2>5, Written DEF Ready
    <3> QED BY <1>1, <1>13, <2>1, <2>5, <3>1
  <2>6. CASE ~holds
    <3>1. Ready' /\ r'[PC] = Low(r[PC] + 4) /\ r'[2] = r[2]
      BY <1>3, <1>4, <2>4, <2>6, Written DEF Ready, PC
    <3> QED BY <1>1, <1>13, <2>1, <2>6, <3>1
  <2> QED BY <2>5, <2>6
<1>14. CASE At(4) /\ r[2] = before /\ use # 2 /\ it = NoIt /\ ~holds
  <2>1. Ins = DI("MOV_IMM", 2, 0) /\ Bytes(code[4]) = 2
    BY <1>1, <1>2, <1>14, SizesOf
  <2>2. Writes(2, 0, 2) /\ flags' \in Flags
    BY <1>4, <1>5, <1>6, <1>14, <2>1, MovNarrowStep
  <2>3. Ready' /\ r'[PC] = Low(r[PC] + 2) /\ r'[2] = 0
    BY <1>3, <1>4, <2>2, Written
  <2> QED BY <1>1, <1>14, <2>1, <2>3
<1> QED BY <1>1, <1>3, <1>8, <1>10, <1>11, <1>12, <1>13, <1>14

IsMode(size, k) ==
  /\ size \in {"", "B", "H", "SB", "SH"} /\ k \in 1 .. 12
  /\ size \in {"SB", "SH"} => k \in 2 .. 8

LEMMA NameIs ==
  ASSUME NEW name \in ProgramNames
  PROVE  /\ name[1] = "decide" => /\ name[2] \in DOMAIN Compare /\ name[3] \in 0 .. 13
                                  /\ name[4] \in 0 .. 2
                                  /\ ProgramCode(name) = DecideCode(name[2], name[3], name[4])
         /\ name[1] = "it" => /\ name[3] \in 0 .. 13 /\ name[4] \in DOMAIN ItLength
                              /\ ProgramCode(name) = ItCode(name[3], name[4])
         /\ name[1] = "wide" => /\ name[2] \in DOMAIN WideCode
                                /\ ProgramCode(name) = WideCode[name[2]]
         /\ name[1] = "call" => /\ name \in CallNames /\ name[2] \in DOMAIN CallCode
                                /\ ProgramCode(name) = CallCode[name[2]]
         /\ name[1] = "transfer" => /\ name \in ModeNames /\ IsMode(name[2], name[3])
                                    /\ ProgramCode(name) = Mode(name[2], name[3])[1]
<1>1. ASSUME name \in DecideNames
      PROVE  /\ name[1] = "decide" /\ name[2] \in DOMAIN Compare /\ name[3] \in 0 .. 13
             /\ name[4] \in 0 .. 2
  <2>1. "CMP_REG" \in DOMAIN Compare
    BY DEF Compare
  <2> QED BY <1>1, <2>1 DEF DecideNames
<1>2. ASSUME name \in ItNames
      PROVE  name[1] = "it" /\ name[3] \in 0 .. 13 /\ name[4] \in DOMAIN ItLength
  BY <1>2 DEF ItNames
<1>3. name \in WideNames => name[1] = "wide" /\ name[2] \in DOMAIN WideCode
  BY DEF WideNames
<1>4. name \in CallNames => name[1] = "call" /\ name[2] \in DOMAIN CallCode
  BY DEF CallNames
<1>5. name \in ModeNames => name[1] = "transfer" /\ IsMode(name[2], name[3])
  <2> SUFFICES ASSUME name \in ModeNames PROVE name[1] = "transfer" /\ IsMode(name[2], name[3])
    OBVIOUS
  <2> DEFINE Short == {"", "B", "H"} \X (1 .. 12)
             Signs == {"SB", "SH"} \X (2 .. 8)
  <2>1. PICK m \in Short \cup Signs : name = <<"transfer", m[1], m[2], 0>>
    BY Zenon DEF ModeNames
  <2>2. CASE m \in Short
    <3>1. m[1] \in {"", "B", "H"} /\ m[2] \in 1 .. 12
      BY <2>2, Zenon
    <3>2. m[1] \in {"", "B", "H", "SB", "SH"} /\ m[1] \notin {"SB", "SH"}
      BY <3>1, Zenon
    <3>3. IsMode(m[1], m[2])
      BY <3>1, <3>2, Zenon DEF IsMode
    <3> QED BY <2>1, <3>3
  <2>3. CASE m \in Signs
    <3>1. m[1] \in {"SB", "SH"} /\ m[2] \in 2 .. 8
      BY <2>3
    <3>2. m[1] \in {"", "B", "H", "SB", "SH"} /\ m[2] \in 1 .. 12
      <4>1. m[1] \in {"", "B", "H", "SB", "SH"}
        BY <3>1, Zenon
      <4> HIDE DEF Short, Signs
      <4>2. m[2] \in 1 .. 12
        BY <3>1
      <4> QED BY <4>1, <4>2
    <3>3. IsMode(m[1], m[2])
      BY <3>1, <3>2, Zenon DEF IsMode
    <3> QED BY <2>1, <3>3
  <2> QED BY <2>1, <2>2, <2>3, Zenon
<1> DEFINE Is(group) == name[1] = group
<1>6. ProgramCode(name) = CASE Is("decide")   -> DecideCode(name[2], name[3], name[4])
                            [] Is("wide")     -> WideCode[name[2]]
                            [] Is("call")     -> CallCode[name[2]]
                            [] Is("it")       -> ItCode(name[3], name[4])
                            [] Is("transfer") -> Mode(name[2], name[3])[1]
  BY Zenon DEF ProgramCode
<1> QED BY <1>1, <1>2, <1>3, <1>4, <1>5, <1>6 DEF ProgramNames

(* The start of a program that the theorems below are about. *)
LEMMA Initially ==
  ASSUME Init, Group \in {"decide", "it", "wide", "transfer", "call"}
  PROVE  /\ Ready /\ program.end \in Word /\ x \in Word /\ y \in Word
         /\ program.name \in ProgramNames
         /\ program = Laid(program.name, "M3", ProgramCode(program.name))
         /\ r[PC] = 0 /\ it = NoIt /\ r[0] = x /\ r[1] = y
         /\ \A i \in 2 .. 12 : r[i] = InitialRegister(i)
         /\ r[SP] = StackTop /\ mem = InitialMem
<1>1. /\ program \in Programs /\ program.end \in Word
      /\ program.name \in ProgramNames
      /\ program = Laid(program.name, "M3", ProgramCode(program.name))
      /\ start \in Word \X Word \X BOOLEAN
  BY NamesAssumption DEF Init, Group
<1>2. program.core = "M3"
  BY <1>1 DEF Laid
<1>3. /\ r[PC] = 0 /\ it = NoIt /\ r[0] = x /\ r[1] = y
      /\ \A i \in 2 .. 12 : r[i] = InitialRegister(i)
      /\ r[SP] = StackTop /\ mem = InitialMem
      /\ r = [j \in 0 .. 15 |-> r[j]]
  BY DEF Init, PC, SP, x, y
<1>4. flags \in Flags
  BY <1>1 DEF Init, Flags
<1> QED BY <1>1, <1>2, <1>3, <1>4 DEF Ready, x, y

IsNamed == /\ program.end \in Word /\ program.name \in ProgramNames
           /\ program = Laid(program.name, "M3", ProgramCode(program.name))

LEMMA DecidePlaced ==
  ASSUME IsNamed, Group = "decide"
  PROVE  /\ Variant \in DOMAIN Compare /\ Third \in 0 .. 13 /\ Fourth \in 0 .. 2
         /\ program = Laid(program.name, "M3", DecideCode(Variant, Third, Fourth))
         /\ Placed(4, DecideCode(Variant, Third, Fourth))
<1>1. /\ Variant \in DOMAIN Compare /\ Third \in 0 .. 13 /\ Fourth \in 0 .. 2
      /\ program = Laid(program.name, "M3", DecideCode(Variant, Third, Fourth))
  BY NameIs DEF IsNamed, Group, Variant, Third, Fourth
<1> DEFINE code == DecideCode(Variant, Third, Fourth)
<1>2. 4 \in 1 .. 6 /\ Len(code) = 4 /\ DOMAIN code = 1 .. 4
  BY <1>1, DecideCodeIs
<1> HIDE DEF code
<1>3. Placed(4, code)
  BY <1>1, <1>2, LaidIs DEF code, IsNamed
<1> QED BY <1>1, <1>3 DEF code

(***************************************************************************)
(* The decision taken after a comparison is the one that the two integers  *)
(* call for, for words of every length and all operands.                   *)
(***************************************************************************)
THEOREM ComparesDecideCorrect == Spec => []ComparesDecide
<1> DEFINE Named == Group = "decide" => IsNamed
<1>1. Init => Named /\ DecideInv
  <2> SUFFICES ASSUME Init, Group = "decide" PROVE Named /\ DecideInv
    BY DEF DecideInv
  <2>1. Named
    BY Initially DEF IsNamed
  <2>2. Offsets(DecideCode(Variant, Third, Fourth))[1] = 0
    BY <2>1, DecidePlaced DEF Placed
  <2> QED BY <2>1, <2>2, Initially DEF DecideInv, DecideFor
<1>2. Named /\ DecideInv /\ [Next]_vars => Named' /\ DecideInv'
  <2> SUFFICES ASSUME Named, DecideInv, [Next]_vars, Group' = "decide" PROVE Named' /\ DecideInv'
    BY DEF DecideInv
  <2>1. program' = program /\ start' = start
    BY ProgramStays DEF vars
  <2>2. Group = "decide" /\ Named'
    BY <2>1 DEF Group, IsNamed
  <2>3. PICK v, c, use : v = Variant /\ c = Third /\ use = Fourth
    OBVIOUS
  <2>4. v \in DOMAIN Compare /\ c \in 0 .. 13 /\ use \in 0 .. 2
    BY <2>2, <2>3, DecidePlaced
  <2>5. program = Laid(program.name, "M3", DecideCode(v, c, use)) /\ program.end \in Word
    BY <2>2, <2>3, DecidePlaced DEF IsNamed
  <2>6. DecideFor(v, c, use)
    BY <2>2, <2>3 DEF DecideInv
  <2>7. DecideFor(v, c, use)'
    <3>1. CASE Next
      BY <2>2, <2>4, <2>5, <2>6, <3>1, DecideStep
    <3>2. CASE UNCHANGED vars
      BY <2>6, <3>2, OrderStays DEF DecideFor, vars, Ready
    <3> QED BY <3>1, <3>2
  <2> QED BY <2>1, <2>2, <2>3, <2>7 DEF DecideInv, Variant, Third, Fourth
<1>3. Named /\ DecideInv => ComparesDecide
  <2> SUFFICES ASSUME Named, DecideInv, Done, Group = "decide"
               PROVE  r[2] = IF Order(Third, Variant \in SumsCompare) THEN 1 ELSE 0
    BY DEF ComparesDecide
  <2> DEFINE at == Offsets(DecideCode(Variant, Third, Fourth))
  <2>1. r[PC] # at[1] /\ r[PC] # at[2] /\ r[PC] # at[3] /\ r[PC] # at[4]
    BY DecidePlaced DEF Placed
  <2> QED BY <2>1, Zenon DEF DecideInv, DecideFor
<1> QED BY <1>1, <1>2, <1>3, PTL DEF Spec

-----------------------------------------------------------------------------
(* IT blocks *)

LEMMA MasksAre ==
  ASSUME NEW p \in {0, 1}, NEW mask \in DOMAIN ItLength, NEW k \in 0 .. 3
  PROVE  LET state == ((p * 16 + mask) * 2^k) % 32 IN
         /\ ItLength[mask] \in 1 .. 4
         /\ state % 16 # 0 <=> k < ItLength[mask]
         /\ state \div 16 \in {0, 1}
         /\ k < ItLength[mask] => (state \div 16 = p <=> k = 0 \/ Bit(mask, 4 - k) = p)
<1>1. 2^0 = 1 /\ 2^1 = 2 /\ 2^2 = 4 /\ 2^3 = 8
  OBVIOUS
<1>2. /\ mask \in {1, 2, 3, 4, 6, 7, 8, 12, 13, 14, 15}
      /\ ItLength[mask] = IF mask = 8 THEN 1 ELSE IF mask \in {4, 12} THEN 2
                          ELSE IF mask \in {2, 6, 14} THEN 3 ELSE 4
  BY DEF ItLength
<1>3. CASE k = 0
  BY <1>1, <1>2, <1>3
<1>4. CASE k = 1
  <2>1. 4 - k = 3 /\ 2^k = 2 /\ Bit(mask, 3) = (mask \div 8) % 2
    BY <1>1, <1>4 DEF Bit, Bits
  <2> QED BY <1>2, <1>4, <2>1
<1>5. CASE k = 2
  <2>1. 4 - k = 2 /\ 2^k = 4 /\ Bit(mask, 2) = (mask \div 4) % 2
    BY <1>1, <1>5 DEF Bit, Bits
  <2> QED BY <1>2, <1>5, <2>1
<1>6. CASE k = 3
  <2>1. 4 - k = 1 /\ 2^k = 8 /\ Bit(mask, 1) = (mask \div 2) % 2
    BY <1>1, <1>6 DEF Bit, Bits
  <2> QED BY <1>2, <1>6, <2>1
<1> QED BY <1>3, <1>4, <1>5, <1>6

(* Two conditions that differ in their last bit are each other's negation. *)
LEMMA OppositeOrders ==
  ASSUME NEW c \in 0 .. 13, NEW q \in {0, 1}, NEW sum
  PROVE  Order((c \div 2) * 2 + q, sum) <=> (Order(c, sum) <=> q = c % 2)
<1> DEFINE d == (c \div 2) * 2 + q
           even(k) == Order(k + k, sum)
<1>1. d \div 2 = c \div 2 /\ d % 2 = q /\ c % 2 \in {0, 1}
  OBVIOUS
<1>2. (2 * (c \div 2)) \div 2 = c \div 2 /\ (2 * (c \div 2)) % 2 = 0
  OBVIOUS
<1> DEFINE e == 2 * (c \div 2)
<1>3. Order(c, sum) = IF c % 2 = 0 THEN Order(e, sum) ELSE ~Order(e, sum)
  BY <1>2 DEF Order
<1>4. Order(d, sum) = IF q = 0 THEN Order(e, sum) ELSE ~Order(e, sum)
  BY <1>1, <1>2 DEF Order
<1> HIDE DEF d, e
<1> QED BY <1>1, <1>3, <1>4 DEF d

(* An instruction of the block is executed if the letter that the code reads from *)
(* the mask agrees with the condition; that is the condition of its ITSTATE.      *)
LEMMA SlotIs ==
  ASSUME NEW c \in 0 .. 13, NEW mask \in DOMAIN ItLength, NEW k \in 0 .. 3
  PROVE  LET slot == ItSlot(c, mask, k) IN
         /\ slot.inside <=> k < ItLength[mask]
         /\ k < ItLength[mask] =>
              (Order(slot.cond, FALSE) <=> (Order(c, FALSE) <=> k = 0 \/ Bit(mask, 4 - k) = c % 2))
<1> DEFINE state == (((c % 2) * 16 + mask) * 2^k) % 32
           q == state \div 16
<1>1. c % 2 \in {0, 1}
  OBVIOUS
<1>2. /\ state % 16 # 0 <=> k < ItLength[mask]
      /\ q \in {0, 1}
      /\ k < ItLength[mask] => (q = c % 2 <=> k = 0 \/ Bit(mask, 4 - k) = c % 2)
  BY <1>1, MasksAre
<1>3. /\ ItSlot(c, mask, k).inside <=> state % 16 # 0
      /\ ItSlot(c, mask, k).cond = (c \div 2) * 2 + q
  BY DEF ItSlot
<1> HIDE DEF q, state
<1>4. Order((c \div 2) * 2 + q, FALSE) <=> (Order(c, FALSE) <=> q = c % 2)
  BY <1>2, OppositeOrders
<1> QED BY <1>2, <1>3, <1>4

(* The IT state before instruction k of the block or behind it, and what the *)
(* instruction at k leaves in its register.                                  *)
ItAt(c, mask, k) ==
  IF k < ItLength[mask]
  THEN /\ DOMAIN it = {"cond", "mask", "len", "index", "holds"}
       /\ it.cond = c /\ it.mask = mask /\ it.len = ItLength[mask] /\ it.index = k
       /\ it.holds \in BOOLEAN /\ (it.holds <=> Order(c, FALSE))
  ELSE it = NoIt

Outcome(c, mask, i) ==
  LET slot == ItSlot(c, mask, i)
  IN  IF slot.inside /\ ~Order(slot.cond, FALSE) THEN InitialRegister(4 + i) ELSE 1

(* Where a program with an IT block is, and what it has computed by then. *)
ItFor(c, mask) ==
  LET at == Offsets(ItCode(c, mask))
      Reached(k) == \A i \in 0 .. 3 :
                      r[4 + i] = IF i < k THEN Outcome(c, mask, i) ELSE InitialRegister(4 + i)
  IN  /\ Ready /\ x \in Word /\ y \in Word
      /\ \/ r[PC] = at[1] /\ it = NoIt /\ r[0] = x /\ r[1] = y /\ Reached(0)
         \/ r[PC] = at[2] /\ it = NoIt /\ Shows(flags, Compared(FALSE)) /\ Reached(0)
         \/ \E k \in 0 .. 4 : r[PC] = at[k + 3] /\ ItAt(c, mask, k) /\ Reached(k)

ItInv == Group = "it" => ItFor(Third, Fourth)

LEMMA ItCodeIs ==
  ASSUME NEW c \in 0 .. 13, NEW mask
  PROVE  LET code == ItCode(c, mask) IN
         /\ Len(code) = 6 /\ DOMAIN code = 1 .. 6
         /\ code[1] = DM("CMP_REG", 0, 1) /\ code[2] = If("IT", c, mask)
         /\ \A k \in 0 .. 3 : code[k + 3] = Mov(4 + k, 1)
  BY DEF ItCode

LEMMA BlockStep ==
  ASSUME NEW name, NEW c \in 0 .. 13, NEW mask \in DOMAIN ItLength,
         program = Laid(name, "M3", ItCode(c, mask)), program.end \in Word,
         Next, ItFor(c, mask)
  PROVE  ItFor(c, mask)'
<1> DEFINE code == ItCode(c, mask)
           at   == Offsets(code)
           len  == ItLength[mask]
           holds == Order(c, FALSE)
           final(i) == Outcome(c, mask, i)
           initial(i) == InitialRegister(4 + i)
<1>1. /\ code[1] = DM("CMP_REG", 0, 1) /\ code[2] = If("IT", c, mask)
      /\ \A k \in 0 .. 3 : code[k + 3] = Mov(4 + k, 1)
  BY ItCodeIs
<1>2. /\ \A i \in 1 .. 6 : at[i + 1] = at[i] + Bytes(code[i]) /\ Low(at[i + 1]) = at[i + 1]
      /\ \A i \in 1 .. 6 : r[PC] = at[i] => Ins = code[i]
      /\ r[PC] = at[7] => ~Fetched
  <2>1. 6 \in 1 .. 6 /\ Len(code) = 6 /\ DOMAIN code = 1 .. 6 /\ program = Laid(name, "M3", code)
    BY ItCodeIs
  <2> HIDE DEF code
  <2>2. Placed(6, code)
    BY <2>1, LaidIs
  <2> QED BY <2>2 DEF Placed
<1>3. program' = program /\ start' = start /\ Fetched
  BY ProgramStays, StepIs
<1>4. Ready /\ x \in Word /\ y \in Word
  BY DEF ItFor
<1>5. 1 \in Word /\ len \in 1 .. 4
  <2>1. len \in 1 .. 4
    BY DEF ItLength
  <2> QED BY <2>1, Sizes
<1>6. it = NoIt => ~InItBlock
  BY DEF InItBlock, NoIt
<1> HIDE DEF code, at, len, holds, final, initial
<1> DEFINE before(k) == \A i \in 0 .. 3 : r[4 + i] = IF i < k THEN final(i) ELSE initial(i)
           after(k) == \A i \in 0 .. 3 : r'[4 + i] = IF i < k THEN final(i) ELSE initial(i)
           It(k) == IF k < len
                    THEN /\ DOMAIN it = {"cond", "mask", "len", "index", "holds"}
                         /\ it.cond = c /\ it.mask = mask /\ it.len = len /\ it.index = k
                         /\ it.holds \in BOOLEAN /\ (it.holds <=> holds)
                    ELSE it = NoIt
           ItThen(k) == IF k < len
                    THEN /\ DOMAIN it' = {"cond", "mask", "len", "index", "holds"}
                         /\ it'.cond = c /\ it'.mask = mask /\ it'.len = len /\ it'.index = k
                         /\ it'.holds \in BOOLEAN /\ (it'.holds <=> holds)
                    ELSE it' = NoIt
<1>7. \/ r[PC] = at[1] /\ it = NoIt /\ r[0] = x /\ r[1] = y /\ before(0)
      \/ r[PC] = at[2] /\ it = NoIt /\ Shows(flags, Compared(FALSE)) /\ before(0)
      \/ \E k \in 0 .. 4 : r[PC] = at[k + 3] /\ It(k) /\ before(k)
  BY Zenon DEF ItFor, ItAt, at, code, len, holds, final, initial
<1>8. SUFFICES /\ Ready'
               /\ \/ r'[PC] = at[2] /\ it' = NoIt /\ Shows(flags', Compared(FALSE)) /\ after(0)
                  \/ \E k \in 0 .. 4 : r'[PC] = at[k + 3] /\ ItThen(k) /\ after(k)
  <2>1. /\ Order(c, FALSE)' = Order(c, FALSE) /\ Compared(FALSE)' = Compared(FALSE)
        /\ x' = x /\ y' = y
    BY <1>3, OrderStays
  <2>2. \A i : Outcome(c, mask, i)' = Outcome(c, mask, i)
    BY <1>3, OrderStays, Zenon DEF Outcome
  <2> QED BY <1>4, <2>1, <2>2, Zenon DEF ItFor, ItAt, at, code, len, holds, final, initial
<1>9. CASE r[PC] = at[1] /\ it = NoIt /\ r[0] = x /\ r[1] = y /\ before(0)
  <2>1. "CMP_REG" \in DOMAIN Compare /\ Compare["CMP_REG"] = DM("CMP_REG", 0, 1)
    BY DEF Compare
  <2>2. Ins = Compare["CMP_REG"] /\ "CMP_REG" \notin SumsCompare
    BY <1>1, <1>2, <1>9, <2>1 DEF SumsCompare
  <2>3. Bytes(Compare["CMP_REG"]) = 2 /\ Bytes(code[1]) = 2
    BY <1>1, <2>1, SizesOf
  <2>4. Compares(FALSE, 2)
    <3>1. Compares("CMP_REG" \in SumsCompare, 2)
      BY <1>4, <1>6, <1>9, <2>1, <2>2, <2>3, CompareStep
    <3>2. ("CMP_REG" \in SumsCompare) = FALSE
      BY <2>2
    <3> QED BY <3>1, <3>2
  <2>5. PICK d, value : d \in {3, PC} /\ Writes(d, value, 2)
    BY <2>4 DEF Compares
  <2>6. flags' \in Flags /\ Shows(flags', Compared(FALSE)) /\ it' = it
    BY <2>4 DEF Compares
  <2>7. Ready' /\ r'[PC] = Low(r[PC] + 2) /\ \A j \in 0 .. 14 : r'[j] = IF j = d THEN value ELSE r[j]
    BY <1>3, <1>4, <2>5, <2>6, Written
  <2>8. after(0)
    BY <1>9, <2>5, <2>7 DEF PC
  <2>9. r'[PC] = at[2] /\ it' = NoIt
    BY <1>2, <1>9, <2>3, <2>6, <2>7
  <2> HIDE DEF after
  <2> QED BY <2>6, <2>7, <2>8, <2>9
<1>10. CASE r[PC] = at[2] /\ it = NoIt /\ Shows(flags, Compared(FALSE)) /\ before(0)
  <2>1. Ins = If("IT", c, mask) /\ Bytes(code[2]) = 2
    BY <1>1, <1>2, <1>10, SizesOf
  <2>2. /\ Writes(PC, 0, 2) /\ flags' = flags
        /\ it' = [cond |-> c, mask |-> mask, len |-> IF mask \in DOMAIN ItLength THEN ItLength[mask] ELSE 0,
                  index |-> 0, holds |-> CheckCondition(c, flags)]
    BY <1>4, <1>6, <1>10, <2>1, ItStep
  <2>3. /\ DOMAIN it' = {"cond", "mask", "len", "index", "holds"}
        /\ it'.cond = c /\ it'.mask = mask /\ it'.len = len /\ it'.index = 0
        /\ it'.holds = CheckCondition(c, flags)
    BY <2>2 DEF len
  <2>4. it'.holds \in BOOLEAN /\ (it'.holds <=> holds)
    <3>1. CheckCondition(c, flags) <=> holds
      <4>1. FALSE \in BOOLEAN
        OBVIOUS
      <4> QED BY <1>4, <1>10, <4>1, ConditionIs, Zenon DEF holds
    <3> QED BY <2>3, <3>1, Zenon DEF CheckCondition
  <2>5. ItThen(0)
    BY <1>5, <2>3, <2>4
  <2>6. Ready' /\ r'[PC] = Low(r[PC] + 2) /\ \A j \in 0 .. 14 : r'[j] = IF j = PC THEN 0 ELSE r[j]
    <3>1. flags' \in Flags
      BY <1>4, <2>2 DEF Ready
    <3>2. Writes(PC, 0, 2)
      BY <2>2
    <3> QED BY <1>3, <1>4, <3>1, <3>2, Written
  <2>7. after(0)
    BY <1>10, <2>6 DEF PC
  <2>8. r'[PC] = at[0 + 3]
    BY <1>2, <1>10, <2>1, <2>6
  <2>9. 0 \in 0 .. 4
    OBVIOUS
  <2> HIDE DEF after, ItThen
  <2> QED BY <2>5, <2>6, <2>7, <2>8, <2>9, Zenon
<1>11. ASSUME NEW k \in 0 .. 3, r[PC] = at[k + 3], It(k), before(k)
       PROVE  Ready' /\ r'[PC] = at[k + 4] /\ ItThen(k + 1) /\ after(k + 1)
  <2> DEFINE then == k = 0 \/ Bit(mask, 4 - k) = c % 2
             slot == ItSlot(c, mask, k)
             runs == Order(slot.cond, FALSE)
  <2>1. Ins = Mov(4 + k, 1) /\ Bytes(code[k + 3]) = 4
    BY <1>1, <1>2, <1>11, SizesOf
  <2>2. 4 + k \in 0 .. 12
    OBVIOUS
  <2>3. /\ ~Skipped => Writes(4 + k, 1, 4)
        /\ Skipped => Writes(PC, 0, 4)
        /\ Skipped <=> InItBlock /\ CurrentItThen # it.holds
        /\ it' = IF InItBlock THEN Advanced ELSE it
        /\ flags' = flags
    BY <1>4, <1>5, <2>1, <2>2, MovStep, Zenon
  <2>4. /\ slot.inside <=> k < len
        /\ k < len => (runs <=> (holds <=> then))
    BY SlotIs DEF len, holds
  <2>5. final(k) = IF slot.inside /\ ~runs THEN initial(k) ELSE 1
    BY Zenon DEF final, initial, Outcome
  <2> HIDE DEF slot, runs, then
  <2>6. ItThen(k + 1) /\ (Skipped <=> slot.inside /\ ~runs)
    <3>1. CASE k < len
      <4>1. InItBlock
        BY <1>11, <3>1 DEF InItBlock
      <4>2. CurrentItThen <=> then
        BY <1>11, <3>1 DEF CurrentItThen, then
      <4>3. CurrentItThen \in BOOLEAN
        BY DEF CurrentItThen
      <4>4. (CurrentItThen # it.holds) <=> ~(holds <=> then)
        BY <1>11, <3>1, <4>2, <4>3, Zenon
      <4>5. ItThen(k + 1)
        BY <1>11, <2>3, <3>1, <4>1 DEF Advanced
      <4> QED BY <2>3, <2>4, <3>1, <4>1, <4>4, <4>5, Zenon
    <3>2. CASE ~(k < len)
      <4>1. it = NoIt /\ ~InItBlock
        BY <1>6, <1>11, <3>2
      <4>2. ItThen(k + 1)
        BY <1>5, <2>3, <3>2, <4>1
      <4> QED BY <2>3, <2>4, <3>2, <4>1, <4>2, Zenon
    <3> QED BY <3>1, <3>2
  <2>7. PICK d, value : /\ Writes(d, value, 4)
                        /\ d = IF slot.inside /\ ~runs THEN PC ELSE 4 + k
                        /\ value = IF slot.inside /\ ~runs THEN 0 ELSE 1
    BY <2>3, <2>6
  <2>8. Ready' /\ r'[PC] = Low(r[PC] + 4) /\ \A j \in 0 .. 14 : r'[j] = IF j = d THEN value ELSE r[j]
    <3>1. flags' \in Flags
      BY <1>4, <2>3 DEF Ready
    <3>2. Writes(d, value, 4)
      BY <2>7
    <3> QED BY <1>3, <1>4, <3>1, <3>2, Written
  <2>9. r'[PC] = at[k + 4]
    BY <1>2, <1>11, <2>1, <2>8
  <2>10. ASSUME NEW i \in 0 .. 3
         PROVE  r'[4 + i] = IF i < k + 1 THEN final(i) ELSE initial(i)
    <3>1. r[4 + i] = IF i < k THEN final(i) ELSE initial(i)
      BY <1>11
    <3>2. r'[4 + i] = IF 4 + i = d THEN value ELSE r[4 + i]
      BY <2>8
    <3>3. CASE i = k
      <4>1. r[4 + k] = initial(k)
        BY <3>1, <3>3
      <4>2. 4 + i = d <=> ~(slot.inside /\ ~runs)
        BY <2>7, <3>3 DEF PC
      <4> QED BY <2>5, <2>7, <3>2, <3>3, <4>1, <4>2
    <3>4. CASE i # k
      <4>1. 4 + i # d
        BY <2>7, <3>4 DEF PC
      <4> QED BY <3>1, <3>2, <3>4, <4>1
    <3> QED BY <3>3, <3>4
  <2> QED BY <2>6, <2>8, <2>9, <2>10
<1> QED
  <2>1. CASE \E k \in 0 .. 4 : r[PC] = at[k + 3] /\ It(k) /\ before(k)
    <3>1. PICK k \in 0 .. 4 : r[PC] = at[k + 3] /\ It(k) /\ before(k)
      BY <2>1
    <3>2. k \in 0 .. 3
      BY <1>2, <1>3, <3>1
    <3>3. k + 1 \in 0 .. 4 /\ (k + 1) + 3 = k + 4
      BY <3>2
    <3>4. Ready' /\ r'[PC] = at[k + 4] /\ ItThen(k + 1) /\ after(k + 1)
      BY <1>11, <3>1, <3>2
    <3> QED BY <3>3, <3>4
  <2> QED BY <1>7, <1>9, <1>10, <2>1

LEMMA BlockPlaced ==
  ASSUME IsNamed, Group = "it"
  PROVE  /\ Third \in 0 .. 13 /\ Fourth \in DOMAIN ItLength
         /\ program = Laid(program.name, "M3", ItCode(Third, Fourth))
         /\ Placed(6, ItCode(Third, Fourth))
<1>1. /\ Third \in 0 .. 13 /\ Fourth \in DOMAIN ItLength
      /\ program = Laid(program.name, "M3", ItCode(Third, Fourth))
  BY NameIs DEF IsNamed, Group, Third, Fourth
<1> DEFINE code == ItCode(Third, Fourth)
<1>2. 6 \in 1 .. 6 /\ Len(code) = 6 /\ DOMAIN code = 1 .. 6
  BY <1>1, ItCodeIs
<1> HIDE DEF code
<1>3. Placed(6, code)
  BY <1>1, <1>2, LaidIs DEF code, IsNamed
<1> QED BY <1>1, <1>3 DEF code

(***************************************************************************)
(* In every IT block that the code supports, an instruction is executed    *)
(* exactly if the condition of its ITSTATE holds of the two integers that  *)
(* were compared, for words of every length and all operands.              *)
(***************************************************************************)
THEOREM BlocksFollowItStateCorrect == Spec => []BlocksFollowItState
<1> DEFINE Named == Group = "it" => IsNamed
<1>1. Init => Named /\ ItInv
  <2> SUFFICES ASSUME Init, Group = "it" PROVE Named /\ ItInv
    BY DEF ItInv
  <2>1. Named
    BY Initially DEF IsNamed
  <2>2. Offsets(ItCode(Third, Fourth))[1] = 0
    BY <2>1, BlockPlaced DEF Placed
  <2>3. \A i \in 0 .. 3 : r[4 + i] = IF i < 0 THEN Outcome(Third, Fourth, i) ELSE InitialRegister(4 + i)
    BY Initially
  <2>4. /\ Ready /\ x \in Word /\ y \in Word
        /\ r[PC] = 0 /\ it = NoIt /\ r[0] = x /\ r[1] = y
    BY Initially
  <2> QED BY <2>1, <2>2, <2>3, <2>4, Zenon DEF ItInv, ItFor
<1>2. Named /\ ItInv /\ [Next]_vars => Named' /\ ItInv'
  <2> SUFFICES ASSUME Named, ItInv, [Next]_vars, Group' = "it" PROVE Named' /\ ItInv'
    BY DEF ItInv
  <2>1. program' = program /\ start' = start
    BY ProgramStays DEF vars
  <2>2. Group = "it" /\ Named'
    BY <2>1 DEF Group, IsNamed
  <2>3. PICK c, mask : c = Third /\ mask = Fourth
    OBVIOUS
  <2>4. c \in 0 .. 13 /\ mask \in DOMAIN ItLength
    BY <2>2, <2>3, BlockPlaced
  <2>5. program = Laid(program.name, "M3", ItCode(c, mask)) /\ program.end \in Word
    BY <2>2, <2>3, BlockPlaced DEF IsNamed
  <2>6. ItFor(c, mask)
    BY <2>2, <2>3 DEF ItInv
  <2>7. ItFor(c, mask)'
    <3>1. CASE Next
      BY <2>4, <2>5, <2>6, <3>1, BlockStep
    <3>2. CASE UNCHANGED vars
      <4>1. /\ UNCHANGED <<program, r, flags, it>>
            /\ Order(c, FALSE)' = Order(c, FALSE) /\ Compared(FALSE)' = Compared(FALSE)
            /\ x' = x /\ y' = y
        BY <2>1, <3>2, OrderStays DEF vars
      <4>2. \A i : Outcome(c, mask, i)' = Outcome(c, mask, i)
        BY <2>1, OrderStays, Zenon DEF Outcome
      <4>3. Ready'
        BY <2>6, <4>1 DEF Ready, ItFor
      <4> QED BY <2>6, <4>1, <4>2, <4>3, Zenon DEF ItFor, ItAt
    <3> QED BY <3>1, <3>2
  <2> QED BY <2>1, <2>2, <2>3, <2>7 DEF ItInv, Third, Fourth
<1>3. Named /\ ItInv => BlocksFollowItState
  <2> SUFFICES ASSUME Named, ItInv, Done, Group = "it", NEW i \in 0 .. 3
               PROVE  r[4 + i] = Outcome(Third, Fourth, i)
    BY Zenon DEF BlocksFollowItState, Outcome
  <2> DEFINE at == Offsets(ItCode(Third, Fourth))
             final == Outcome(Third, Fourth, i)
  <2>1. \A j \in 1 .. 6 : r[PC] # at[j]
    BY BlockPlaced DEF Placed
  <2>2. PICK k \in 0 .. 4 : r[PC] = at[k + 3] /\ r[4 + i] = IF i < k THEN final ELSE InitialRegister(4 + i)
    <3> HIDE DEF at, final
    <3>1. r[PC] # at[1] /\ r[PC] # at[2]
      BY <2>1
    <3> QED BY <3>1, Zenon DEF ItInv, ItFor, at, final
  <2>3. k = 4
    BY <2>1, <2>2
  <2> QED BY <2>2, <2>3
<1> QED BY <1>1, <1>2, <1>3, PTL DEF Spec

-----------------------------------------------------------------------------
(* Numbers of two words *)

LEMMA SquareIs ==
  /\ Square = Modulus * Modulus /\ Square \in Nat \ {0}
  /\ 2^(2 * WordBits - 1) = HalfWay * Modulus /\ Square = 2 * (HalfWay * Modulus)
<1>1. Square = Modulus * Modulus /\ 2^(2 * WordBits - 1) = HalfWay * Modulus
  BY PowerAssumption, Sizes DEF Square, Modulus, HalfWay
<1>2. Modulus * Modulus = 2 * (HalfWay * Modulus)
  BY Sizes
<1>3. Modulus * Modulus \in Nat \ {0}
  BY Sizes
<1> QED BY <1>1, <1>2, <1>3

LEMMA PairIs ==
  ASSUME NEW h \in Word, NEW l \in Word
  PROVE  /\ Pair(h, l) = h * Modulus + l
         /\ Pair(h, l) \in 0 .. Square - 1
         /\ Signed2(Pair(h, l)) = Signed(h) * Modulus + l
<1>1. h \in 0 .. Modulus - 1 /\ l \in 0 .. Modulus - 1
  BY Sizes
<1>2. Pair(h, l) = h * Modulus + l
  BY DEF Pair, Modulus
<1>3. h * Modulus \in Nat /\ h * Modulus <= (Modulus - 1) * Modulus
  BY <1>1, Sizes, Ordered
<1>4. (Modulus - 1) * Modulus = Modulus * Modulus - Modulus
  BY Sizes
<1>5. Pair(h, l) \in 0 .. Square - 1
  BY <1>1, <1>2, <1>3, <1>4, Sizes, SquareIs
<1>6. Pair(h, l) % Square = Pair(h, l)
  BY <1>5, SquareIs, Truncated
<1>7. Signed2(Pair(h, l)) = IF Pair(h, l) >= HalfWay * Modulus THEN Pair(h, l) - Square ELSE Pair(h, l)
  BY <1>6, SquareIs DEF Signed2, SignExtend, Square
<1>8. CASE h >= HalfWay
  <2>1. HalfWay * Modulus <= h * Modulus
    BY <1>1, <1>8, Sizes, Ordered
  <2>2. Signed(h) = h - Modulus
    BY <1>8, SignFacts
  <2>3. (h - Modulus) * Modulus = h * Modulus - Modulus * Modulus
    BY <1>1, Sizes
  <2> QED BY <1>1, <1>2, <1>3, <1>5, <1>7, <2>1, <2>2, <2>3, SquareIs, Sizes
<1>9. CASE ~(h >= HalfWay)
  <2>1. h * Modulus <= (HalfWay - 1) * Modulus
    BY <1>1, <1>9, Sizes, Ordered
  <2>2. (HalfWay - 1) * Modulus = HalfWay * Modulus - Modulus
    BY Sizes
  <2>3. Signed(h) = h
    BY <1>9, SignFacts
  <2> QED BY <1>1, <1>2, <1>3, <1>5, <1>7, <2>1, <2>2, <2>3, SquareIs, Sizes
<1> QED BY <1>2, <1>5, <1>8, <1>9

(* A high word H, truncated to h and read as d, before a low word. *)
LEMMA Truncates ==
  ASSUME NEW h \in Word, NEW l \in Word, NEW H \in Int, NEW d \in Int,
         NEW p \in {-1, 0, 1}, h = H - p * Modulus, d = Signed(h) <=> d \in SignedRange
  PROVE  /\ (H * Modulus + l) % Square = Pair(h, l)
         /\ H * Modulus + l >= Square <=> p = 1
         /\ H * Modulus + l >= 0 <=> p # -1
         /\ Signed2(H * Modulus + l) = d * Modulus + l <=> d \in SignedRange
<1>1. h \in 0 .. Modulus - 1 /\ l \in 0 .. Modulus - 1 /\ Modulus \in Nat \ {0} /\ Signed(h) \in Int
  BY Sizes, SignFacts
<1>2. /\ Pair(h, l) = h * Modulus + l
      /\ Pair(h, l) \in 0 .. Square - 1
      /\ Signed2(Pair(h, l)) = Signed(h) * Modulus + l
  BY PairIs
<1>3. H * Modulus + l = Pair(h, l) + p * Square
  <2>1. (H - Modulus) * Modulus = H * Modulus - Square /\ (H + Modulus) * Modulus = H * Modulus + Square
    BY <1>1, SquareIs, Distributed
  <2> QED BY <1>1, <1>2, <2>1, SquareIs
<1>4. (H * Modulus + l) % Square = Pair(h, l) /\ Pair(h, l) % Square = Pair(h, l)
  BY <1>2, <1>3, SquareIs, Truncated
<1>5. Signed2(H * Modulus + l) = Signed(h) * Modulus + l
  BY <1>2, <1>4 DEF Signed2
<1>6. Signed(h) * Modulus + l = d * Modulus + l <=> d = Signed(h)
  BY <1>1, Cancel
<1> QED BY <1>2, <1>3, <1>4, <1>5, <1>6, SquareIs

(***************************************************************************)
(* ADDS of the low words and ADCS of the high ones, of either length, add  *)
(* two numbers of two words (execute_data_processing and its 32-bit form), *)
(* with the carry and the overflow of the whole.                           *)
(***************************************************************************)
THEOREM PairSum ==
  ASSUME NEW h1 \in Word, NEW l1 \in Word, NEW h2 \in Word, NEW l2 \in Word
  PROVE  LET low  == Add(l1, l2)
             high == AddCarry(h1, h2, IF low.c THEN 1 ELSE 0)
             P    == Pair(high.result, low.result)
             X    == Pair(h1, l1)
             Y    == Pair(h2, l2)
         IN  /\ low.result \in Word /\ high.result \in Word
             /\ P = (X + Y) % Square
             /\ high.c <=> X + Y >= Square
             /\ high.v <=> Signed2(X + Y) # Signed2(X) + Signed2(Y)
<1> DEFINE low  == Add(l1, l2)
           c    == IF low.c THEN 1 ELSE 0
           high == AddCarry(h1, h2, c)
           l == low.result
           h == high.result
           H == h1 + h2 + c
           d == Signed(h1) + Signed(h2) + c
<1>1. /\ h1 \in 0 .. Modulus - 1 /\ l1 \in 0 .. Modulus - 1
      /\ h2 \in 0 .. Modulus - 1 /\ l2 \in 0 .. Modulus - 1
  BY Sizes
<1>2. c \in Carry /\ c \in {0, 1}
  BY DEF Carry
<1>3. /\ l = l1 + l2 - c * Modulus
      /\ l \in Word /\ l \in 0 .. Modulus - 1
  <2>1. /\ l = l1 + l2 - (IF low.c THEN Modulus ELSE 0)
        /\ low.c <=> l1 + l2 >= Modulus
    BY AddExact
  <2>2. c * Modulus = IF low.c THEN Modulus ELSE 0
    BY Sizes
  <2> HIDE DEF low, c, l
  <2> QED BY <1>1, <2>1, <2>2, Sizes
<1> HIDE DEF low, c, l
<1> DEFINE p == IF high.c THEN 1 ELSE 0
<1>4. /\ high.c => h = H - Modulus
      /\ ~high.c => h = H
      /\ high.c <=> H >= Modulus
      /\ high.v <=> d \notin SignedRange
  <2>1. /\ high.result = h1 + h2 + c - IF high.c THEN Modulus ELSE 0
        /\ high.c <=> h1 + h2 + c >= Modulus
        /\ high.v <=> Signed(h1) + Signed(h2) + c \notin SignedRange
    BY <1>2, AddCarryExact, Zenon
  <2>2. \A q \in Int : q - 0 = q
    OBVIOUS
  <2>3. h1 + h2 + c \in Int
    BY <1>1, <1>2
  <2> HIDE DEF high
  <2>4. high.v <=> d \notin SignedRange
    BY <2>1, Zenon
  <2>5. high.c <=> H >= Modulus
    BY <2>1, Zenon
  <2>6. high.result = H - IF high.c THEN Modulus ELSE 0
    BY <1>1, <1>2, <2>1, Sizes
  <2>7. (high.c => h = H - Modulus) /\ (~high.c => h = H)
    BY <2>2, <2>3, <2>6
  <2> QED BY <2>4, <2>5, <2>7, Zenon
<1>5. p \in {-1, 0, 1} /\ (high.c <=> p = 1)
  OBVIOUS
<1> HIDE DEF high, h, p
<1>6. H \in Int /\ h \in Word /\ h \in 0 .. Modulus - 1
  <2>1. H \in Int /\ h = H - p * Modulus
    BY <1>1, <1>2, <1>4, Sizes DEF p
  <2> QED BY <1>1, <1>2, <1>4, <2>1, Sizes
<1>7. Pair(h1, l1) + Pair(h2, l2) = H * Modulus + l
  <2>1. /\ H * Modulus = h1 * Modulus + h2 * Modulus + c * Modulus
        /\ h1 * Modulus \in Int /\ h2 * Modulus \in Int /\ c * Modulus \in Int
    BY <1>1, <1>2, Sizes, Distributed
  <2>2. Pair(h1, l1) = h1 * Modulus + l1 /\ Pair(h2, l2) = h2 * Modulus + l2
    BY PairIs
  <2> QED BY <1>1, <1>3, <2>1, <2>2
<1>8. Signed(h1) \in Int /\ Signed(h2) \in Int /\ d \in Int
  <2>1. Signed(h1) \in Int /\ Signed(h2) \in Int
    BY SignFacts, Sizes
  <2> QED BY <1>2, <2>1
<1>9. Signed2(Pair(h1, l1)) + Signed2(Pair(h2, l2)) = d * Modulus + l
  <2>1. /\ Signed2(Pair(h1, l1)) = Signed(h1) * Modulus + l1
        /\ Signed2(Pair(h2, l2)) = Signed(h2) * Modulus + l2
    BY PairIs
  <2>2. Modulus \in Int /\ c \in Int
    BY <1>2, Sizes
  <2>3. /\ d * Modulus = Signed(h1) * Modulus + Signed(h2) * Modulus + c * Modulus
        /\ Signed(h1) * Modulus \in Int /\ Signed(h2) * Modulus \in Int /\ c * Modulus \in Int
    BY <1>8, <2>2, Distributed
  <2> QED BY <1>1, <1>3, <2>1, <2>3
<1>10. d = Signed(h) <=> d \in SignedRange
  <2>1. /\ Signed(h1) = IF h1 >= HalfWay THEN h1 - Modulus ELSE h1
        /\ Signed(h2) = IF h2 >= HalfWay THEN h2 - Modulus ELSE h2
        /\ Signed(h) = IF h >= HalfWay THEN h - Modulus ELSE h
    BY <1>6, SignFacts
  <2>2. p * Modulus = IF p = 1 THEN Modulus ELSE 0
    BY <1>5, Sizes DEF p
  <2> QED BY <1>1, <1>2, <1>4, <1>5, <1>6, <2>1, <2>2, Sizes DEF SignedRange
<1>11. /\ (H * Modulus + l) % Square = Pair(h, l)
       /\ H * Modulus + l >= Square <=> p = 1
       /\ Signed2(H * Modulus + l) = d * Modulus + l <=> d \in SignedRange
  <2> HIDE DEF H, d
  <2>1. h = H - p * Modulus
    BY <1>1, <1>4, <1>5, <1>6, Sizes DEF p
  <2> QED BY <1>3, <1>5, <1>6, <1>8, <1>10, <2>1, Truncates
<1> HIDE DEF H, d
<1> QED BY <1>3, <1>4, <1>5, <1>6, <1>7, <1>9, <1>11 DEF high, h, low, l, c

(***************************************************************************)
(* SUBS of the low words and the 32-bit SBCS of the high ones subtract two *)
(* numbers of two words (execute_t32_data_processing), with the borrow and *)
(* the overflow of the whole.                                              *)
(***************************************************************************)
THEOREM PairDifference ==
  ASSUME NEW h1 \in Word, NEW l1 \in Word, NEW h2 \in Word, NEW l2 \in Word
  PROVE  LET low  == Subtract(l1, l2)
             high == SubtractCarry32(h1, h2, IF low.c THEN 1 ELSE 0)
             P    == Pair(high.result, low.result)
             X    == Pair(h1, l1)
             Y    == Pair(h2, l2)
         IN  /\ low.result \in Word /\ high.result \in Word
             /\ P = (X - Y) % Square
             /\ high.c <=> X >= Y
             /\ high.v <=> Signed2(X - Y) # Signed2(X) - Signed2(Y)
<1> DEFINE low  == Subtract(l1, l2)
           c    == IF low.c THEN 1 ELSE 0
           b    == 1 - c
           high == SubtractCarry32(h1, h2, c)
           l == low.result
           h == high.result
           H == h1 - h2 - b
           d == Signed(h1) - Signed(h2) - b
<1>1. /\ h1 \in 0 .. Modulus - 1 /\ l1 \in 0 .. Modulus - 1
      /\ h2 \in 0 .. Modulus - 1 /\ l2 \in 0 .. Modulus - 1
  BY Sizes
<1>2. c \in Carry /\ b \in {0, 1}
  BY DEF Carry
<1>3. /\ l = l1 - l2 + b * Modulus
      /\ l \in Word /\ l \in 0 .. Modulus - 1
  <2>1. /\ l = l1 - l2 + (IF low.c THEN 0 ELSE Modulus)
        /\ low.c <=> l1 >= l2
    BY SubtractExact
  <2>2. b * Modulus = IF low.c THEN 0 ELSE Modulus
    BY Sizes
  <2> HIDE DEF low, b, l
  <2> QED BY <1>1, <2>1, <2>2, Sizes
<1> HIDE DEF low, c, l
<1> DEFINE p == IF high.c THEN 0 ELSE -1
<1>4. /\ high.c => h = H
      /\ ~high.c => h = H + Modulus
      /\ high.c <=> H >= 0
      /\ high.v <=> d \notin SignedRange
  <2>1. /\ high.result = h1 - h2 - b + IF high.c THEN 0 ELSE Modulus
        /\ high.c <=> h1 >= h2 + b
        /\ high.v <=> Signed(h1) - Signed(h2) - b \notin SignedRange
    BY <1>2, SubtractCarryExact, Zenon
  <2>2. \A q \in Int : q + 0 = q
    OBVIOUS
  <2>3. h1 - h2 - b \in Int
    BY <1>1, <1>2
  <2> HIDE DEF high, b
  <2>4. high.v <=> d \notin SignedRange
    BY <2>1, Zenon
  <2>5. high.c <=> H >= 0
    BY <1>1, <1>2, <2>1
  <2>6. high.result = H + IF high.c THEN 0 ELSE Modulus
    BY <1>1, <1>2, <2>1, Sizes
  <2>7. (high.c => h = H) /\ (~high.c => h = H + Modulus)
    BY <2>2, <2>3, <2>6
  <2> QED BY <2>4, <2>5, <2>7, Zenon
<1>5. p \in {-1, 0, 1} /\ (high.c <=> p # -1)
  OBVIOUS
<1> HIDE DEF high, h, p, b
<1>6. H \in Int /\ h \in Word /\ h \in 0 .. Modulus - 1 /\ h = H - p * Modulus
  <2>1. H \in Int /\ h = H - p * Modulus
    BY <1>1, <1>2, <1>4, Sizes DEF p
  <2> QED BY <1>1, <1>2, <1>4, <2>1, Sizes
<1>7. Pair(h1, l1) - Pair(h2, l2) = H * Modulus + l
  <2>1. /\ H * Modulus = h1 * Modulus - h2 * Modulus - b * Modulus
        /\ h1 * Modulus \in Int /\ h2 * Modulus \in Int /\ b * Modulus \in Int
    BY <1>1, <1>2, Sizes, Distributed
  <2>2. Pair(h1, l1) = h1 * Modulus + l1 /\ Pair(h2, l2) = h2 * Modulus + l2
    BY PairIs
  <2> QED BY <1>1, <1>3, <2>1, <2>2
<1>8. Signed(h1) \in Int /\ Signed(h2) \in Int /\ d \in Int
  <2>1. Signed(h1) \in Int /\ Signed(h2) \in Int
    BY SignFacts, Sizes
  <2> QED BY <1>2, <2>1
<1>9. Signed2(Pair(h1, l1)) - Signed2(Pair(h2, l2)) = d * Modulus + l
  <2>1. /\ Signed2(Pair(h1, l1)) = Signed(h1) * Modulus + l1
        /\ Signed2(Pair(h2, l2)) = Signed(h2) * Modulus + l2
    BY PairIs
  <2>2. Modulus \in Int /\ b \in Int
    BY <1>2, Sizes
  <2>3. /\ d * Modulus = Signed(h1) * Modulus - Signed(h2) * Modulus - b * Modulus
        /\ Signed(h1) * Modulus \in Int /\ Signed(h2) * Modulus \in Int /\ b * Modulus \in Int
    BY <1>8, <2>2, Distributed
  <2> QED BY <1>1, <1>3, <2>1, <2>3
<1>10. d = Signed(h) <=> d \in SignedRange
  <2>1. /\ Signed(h1) = IF h1 >= HalfWay THEN h1 - Modulus ELSE h1
        /\ Signed(h2) = IF h2 >= HalfWay THEN h2 - Modulus ELSE h2
        /\ Signed(h) = IF h >= HalfWay THEN h - Modulus ELSE h
    BY <1>6, SignFacts
  <2> QED BY <1>1, <1>2, <1>4, <1>6, <2>1, Sizes DEF SignedRange
<1>11. /\ (H * Modulus + l) % Square = Pair(h, l)
       /\ H * Modulus + l >= 0 <=> p # -1
       /\ Signed2(H * Modulus + l) = d * Modulus + l <=> d \in SignedRange
  <2> HIDE DEF H, d
  <2> QED BY <1>3, <1>5, <1>6, <1>8, <1>10, Truncates
<1>12. Pair(h1, l1) - Pair(h2, l2) >= 0 <=> Pair(h1, l1) >= Pair(h2, l2)
  BY PairIs, SquareIs
<1> HIDE DEF H, d
<1> QED BY <1>3, <1>4, <1>5, <1>6, <1>7, <1>9, <1>11, <1>12 DEF high, h, low, l, c

(* A number of two words is cut into its halves. *)
LEMMA Halves ==
  ASSUME NEW n \in 0 .. Square - 1
  PROVE  /\ n \div 2^WordBits \in Word /\ Low(n) \in Word
         /\ Pair(n \div 2^WordBits, Low(n)) = n
<1>1. 2^WordBits = Modulus /\ Modulus \in Nat \ {0} /\ n \in 0 .. Modulus * Modulus - 1 /\ n \in Int
  BY Sizes, SquareIs DEF Modulus
<1>2. n \div Modulus \in 0 .. Modulus - 1 /\ n = (n \div Modulus) * Modulus + (n % Modulus)
  BY <1>1, DivBounds, DivMod
<1>3. n % Modulus \in 0 .. Modulus - 1
  BY <1>1, DivMod
<1> QED BY <1>1, <1>2, <1>3, Sizes, PairIs DEF Low

LEMMA SquareWraps ==
  ASSUME NEW d \in Int, d >= -(HalfWay * Modulus), d < HalfWay * Modulus
  PROVE  d % Square \in 0 .. Square - 1 /\ Signed2(d % Square) = d
<1> DEFINE half == HalfWay * Modulus
<1>1. half \in Nat /\ Square = 2 * half /\ Square \in Nat \ {0}
  BY Sizes, SquareIs
<1>2. Signed2(d % Square) = IF (d % Square) % Square >= half THEN ((d % Square) % Square) - Square
                            ELSE (d % Square) % Square
  BY SquareIs DEF Signed2, SignExtend, Square
<1>3. d >= -half /\ d < half
  OBVIOUS
<1> HIDE DEF half
<1>4. d % Square = IF d < 0 THEN d + Square ELSE d
  <2>1. Square \in Nat \ {0} /\ (d \in -Square .. -1 \/ d \in 0 .. Square - 1)
    BY <1>1, <1>3
  <2>2. /\ d \in -Square .. -1 => d % Square = d + Square
        /\ d \in 0 .. Square - 1 => d % Square = d
    BY <2>1, Truncated, Zenon
  <2> QED BY <1>1, <2>1, <2>2
<1>5. d % Square \in 0 .. Square - 1
  BY <1>1, <1>3, <1>4
<1>6. (d % Square) % Square = d % Square
  <2>1. d % Square \in Int
    BY <1>1, <1>5
  <2> QED BY <1>1, <1>5, <2>1, Truncated, Zenon
<1> QED BY <1>1, <1>2, <1>3, <1>4, <1>5, <1>6

-----------------------------------------------------------------------------
(* Steps that compute *)

(* The instruction is finished and PC moves on by n. *)
Steps(n) ==
  /\ r' = [j \in 0 .. 15 |-> r'[j]] /\ r'[PC] = Low(r[PC] + n)
  /\ flags' \in Flags
  /\ UNCHANGED <<program, start, it>>

(* Of the registers but PC, only d is written. *)
Sets(d, value) == \A j \in 0 .. 14 : r'[j] = IF j = d THEN value ELSE r[j]

ShowsAll(out) == flags'.z = (out.result = 0) /\ flags'.c = out.c /\ flags'.v = out.v

LEMMA WritesIs ==
  ASSUME Ready, NEW d, NEW value, NEW n, Writes(d, value, n),
         flags' \in Flags, UNCHANGED <<program, start, it>>
  PROVE  Steps(n) /\ Sets(d, value)
  BY Written DEF Steps, Sets, Ready

(* What the operations of the data processing forms yield. *)
Yield(op, a, b) ==
  CASE op = "ADD" -> Add(a, b)
    [] op = "SUB" -> Subtract(a, b)
    [] op = "ADC" -> AddCarry(a, b, CarryIn)
    [] op = "SBC" -> SubtractCarry32(a, b, CarryIn)

LEMMA YieldIsFlags ==
  ASSUME NEW op \in {"ADD", "SUB", "ADC", "SBC"}, NEW a, NEW b
  PROVE  Yield(op, a, b).c \in BOOLEAN /\ Yield(op, a, b).v \in BOOLEAN
<1>1. CASE op = "ADD"
  BY <1>1, FlagsAreBooleans DEF Yield
<1>2. CASE op = "SUB"
  BY <1>2, FlagsAreBooleans DEF Yield
<1>3. CASE op = "ADC"
  BY <1>3 DEF Yield, AddCarry, Result
<1>4. CASE op = "SBC"
  BY <1>4 DEF Yield, SubtractCarry32, Result
<1> QED BY <1>1, <1>2, <1>3, <1>4

(* A T32 register form that sets the flags. *)
LEMMA WideRegisterStep ==
  ASSUME Next, Ready, ~InItBlock, NEW op \in {"ADD", "SUB", "ADC", "SBC"},
         NEW d \in 0 .. 12, NEW n \in 0 .. 12, NEW m \in 0 .. 12, r[m] \in Word,
         Ins = Reg(op, d, n, m, TRUE)
  PROVE  LET out == Yield(op, r[n], r[m])
         IN  Steps(4) /\ Sets(d, out.result) /\ ShowsAll(out)
<1> DEFINE out == Yield(op, r[n], r[m])
<1>1. /\ HandlerOf[program.core][T32(op, "_REG")] = "execute_t32_data_processing"
      /\ Operation32[T32(op, "_REG")] = op
  BY TypesRun DEF Ready, Operations32
<1>2. "T32_" \o op \o "_REG" \notin Narrow
  BY TypesAssumption DEF Operations32
<1>3. /\ Ins.type = T32(op, "_REG") /\ Ins.wide /\ ~Has("imm") /\ Has("s") /\ Ins.s
      /\ Ins.stype = 0 /\ Ins.shift = 0 /\ Ins.rd = d /\ Ins.rn = n /\ Ins.rm = m
  BY <1>2 DEF Reg, Shifted, Of, Has, T32
<1>4. ~Skipped /\ ~Gated
  BY DEF Skipped, Gated
<1>5. ExecuteT32DataProcessing
  BY <1>1, <1>3, <1>4, StepIs
<1>6. Outcome32 = out
  <2>1. Adjusted(n) = r[n] /\ Adjusted(m) = r[m]
    BY DEF Adjusted, PC
  <2>2. Operand32 = r[m]
    BY <1>3, <2>1, NoShift DEF Operand32
  <2> QED BY <1>1, <1>3, <2>1, <2>2 DEF Outcome32, Yield
<1>7. out.c \in BOOLEAN /\ out.v \in BOOLEAN
  BY YieldIsFlags
<1> HIDE DEF out
<1>8. Finish(Write(d, out.result)) /\ flags' = Flagged(out) /\ UNCHANGED <<program, start>>
  BY <1>1, <1>3, <1>5, <1>6 DEF ExecuteT32DataProcessing
<1>9. NextPc = Low(r[PC] + 4)
  BY <1>3 DEF NextPc
<1>10. it' = it /\ Writes(d, out.result, 4)
  BY <1>4, <1>8, <1>9 DEF Finish, Write, Writes, Ready, PC
<1>11. flags' \in Flags /\ Shows(flags', out)
  BY <1>7, <1>8, FlaggedIs DEF Ready
<1>12. Steps(4) /\ Sets(d, out.result)
  BY <1>8, <1>10, <1>11, WritesIs
<1> QED BY <1>11, <1>12, Zenon DEF Shows, ShowsAll, out

(* A 16-bit form that writes a register, with the operands and the outcome it has. *)
LEMMA NarrowStep ==
  ASSUME Next, Ready, ~InItBlock, ~Ins.wide, Ins.type \in DataProcessingTypes,
         Ins.type \notin Compares16, NEW d \in 0 .. 12, Ins.rd = d,
         NEW out, Outcomes16 = {out}, out.c \in BOOLEAN, out.v \in BOOLEAN
  PROVE  Steps(2) /\ Sets(d, out.result) /\ (Ins.type \notin Silent16 => ShowsAll(out))
<1>1. ~Skipped /\ ~Gated
  BY DEF Skipped, Gated
<1>2. ExecuteDataProcessing
  BY <1>1, TypesRun, StepIs DEF Ready
<1>3. /\ Finish(Write(d, out.result))
      /\ flags' = (IF Ins.type \in Silent16 THEN flags ELSE Flagged(out))
      /\ UNCHANGED <<program, start>>
  BY <1>2 DEF ExecuteDataProcessing
<1>4. NextPc = Low(r[PC] + 2)
  BY DEF NextPc
<1>5. it' = it /\ Writes(d, out.result, 2)
  BY <1>1, <1>3, <1>4 DEF Finish, Write, Writes, Ready, PC
<1>6. Flagged(out) \in Flags /\ Shows(Flagged(out), out)
  BY FlaggedIs DEF Ready
<1>7. flags' \in Flags
  BY <1>3, <1>6 DEF Ready
<1>8. Steps(2) /\ Sets(d, out.result)
  BY <1>3, <1>5, <1>7, WritesIs
<1>9. Ins.type \notin Silent16 => Shows(flags', out)
  BY <1>3, <1>6
<1> QED BY <1>8, <1>9, Zenon DEF Shows, ShowsAll

LEMMA MoveStep ==
  ASSUME Next, Ready, ~InItBlock, NEW d \in 0 .. 12, NEW i \in Word, Ins = Mov(d, i)
  PROVE  Steps(4) /\ Sets(d, i) /\ flags' = flags
<1>1. ~Skipped /\ ~Gated
  BY DEF Skipped, Gated
<1>2. Writes(d, i, 4) /\ UNCHANGED <<program, flags, start, it>>
  BY <1>1, MovStep
<1> QED BY <1>2, WritesIs DEF Ready

LEMMA CopyStep ==
  ASSUME Next, Ready, ~InItBlock, NEW d \in 0 .. 12, NEW m \in 0 .. 12, Ins = Copy(d, m)
  PROVE  Steps(2) /\ Sets(d, r[m]) /\ flags' = flags
<1>1. "MOV_HI" \in Narrow /\ "MOV_HI" \in DataProcessingTypes /\ "MOV_HI" \notin Compares16
  BY DEF Narrow, DataProcessingTypes, Compares16
<1>2. Ins.type = "MOV_HI" /\ ~Ins.wide /\ Ins.rd = d /\ Ins.rm = m /\ ~Has("imm")
  BY <1>1 DEF Copy, Of, Has
<1>3. Outcomes16 = {Plain(r[m])}
  BY <1>2 DEF Outcomes16, Operand2
<1>4. Plain(r[m]).result = r[m] /\ Plain(r[m]).c \in BOOLEAN /\ Plain(r[m]).v \in BOOLEAN
  BY DEF Plain, Result
<1>5. Steps(2) /\ Sets(d, r[m])
  BY <1>1, <1>2, <1>3, <1>4, NarrowStep
<1>6. flags' = flags
  <2>1. ~Skipped /\ ExecuteDataProcessing
    BY <1>1, <1>2, TypesRun, StepIs DEF Ready, Skipped, Gated
  <2> QED BY <1>2, <2>1 DEF ExecuteDataProcessing, Silent16
<1> QED BY <1>5, <1>6

(* The handlers that write one register, in their 32-bit forms. *)
LEMMA ComputeStep ==
  ASSUME Next, Ready, ~InItBlock, Ins.wide, NEW d \in 0 .. 12, Ins.rd = d,
         NEW h, NEW value, Computes(h, value)
  PROVE  Steps(4) /\ Sets(d, value)
<1>1. ~Gated /\ NextPc = Low(r[PC] + 4)
  BY DEF Gated, NextPc
<1>2. Finish(Write(d, value)) /\ UNCHANGED <<program, flags, start>>
  BY DEF Computes
<1>3. it' = it /\ Writes(d, value, 4)
  BY <1>1, <1>2 DEF Finish, Write, Writes, Ready, PC
<1> QED BY <1>2, <1>3, WritesIs DEF Ready

LEMMA WideTypes ==
  {"T32_MUL", "T32_MLA", "T32_MLS", "T32_UDIV", "T32_SDIV",
   "T32_UMULL", "T32_SMULL", "T32_UMLAL", "T32_SMLAL"} \cap Narrow = {}
  BY DEF Narrow, DataProcessingTypes, LoadStoreTypes, AluTable, LoadStoreTable

LEMMA MultiplyStep ==
  ASSUME Next, Ready, ~InItBlock, NEW d \in 0 .. 12, NEW n \in 0 .. 12, NEW m \in 0 .. 12,
         NEW a \in 0 .. 12
  PROVE  /\ Ins = DNM("T32_MUL", d, n, m) => Steps(4) /\ Sets(d, Low(r[n] * r[m]))
         /\ Ins = Accumulate("T32_MLA", d, n, m, a) => Steps(4) /\ Sets(d, Low(r[a] + r[n] * r[m]))
         /\ Ins = Accumulate("T32_MLS", d, n, m, a) => Steps(4) /\ Sets(d, Low(r[a] - r[n] * r[m]))
<1>1. ~Skipped
  BY DEF Skipped, Gated
<1>2. ASSUME Ins = DNM("T32_MUL", d, n, m) PROVE Steps(4) /\ Sets(d, Low(r[n] * r[m]))
  <2>1. Ins.type = "T32_MUL" /\ Ins.wide /\ Ins.rd = d /\ Ins.rn = n /\ Ins.rm = m
    BY <1>2, WideTypes DEF DNM, Of
  <2>2. ExecuteMul
    BY <1>1, <2>1, TypesRun, StepIs DEF Ready
  <2> QED BY <2>1, <2>2, ComputeStep DEF ExecuteMul
<1>3. ASSUME Ins = Accumulate("T32_MLA", d, n, m, a)
      PROVE  Steps(4) /\ Sets(d, Low(r[a] + r[n] * r[m]))
  <2>1. /\ Ins.type = "T32_MLA" /\ Ins.wide
        /\ Ins.rd = d /\ Ins.rn = n /\ Ins.rm = m /\ Ins.rs = a
    BY <1>3, WideTypes DEF Accumulate, Of
  <2>2. ExecuteMla
    BY <1>1, <2>1, TypesRun, StepIs DEF Ready
  <2> QED BY <2>1, <2>2, ComputeStep DEF ExecuteMla
<1>4. ASSUME Ins = Accumulate("T32_MLS", d, n, m, a)
      PROVE  Steps(4) /\ Sets(d, Low(r[a] - r[n] * r[m]))
  <2>1. /\ Ins.type = "T32_MLS" /\ Ins.wide
        /\ Ins.rd = d /\ Ins.rn = n /\ Ins.rm = m /\ Ins.rs = a
    BY <1>4, WideTypes DEF Accumulate, Of
  <2>2. ExecuteMls
    BY <1>1, <2>1, TypesRun, StepIs DEF Ready
  <2> QED BY <2>1, <2>2, ComputeStep DEF ExecuteMls
<1> QED BY <1>2, <1>3, <1>4

LEMMA DivideStep ==
  ASSUME Next, Ready, ~InItBlock, NEW type \in {"T32_UDIV", "T32_SDIV"},
         NEW d \in 0 .. 12, NEW n \in 0 .. 12, NEW m \in 0 .. 12, Ins = DNM(type, d, n, m)
  PROVE  /\ Steps(4) /\ Sets(d, Divide(type, r[n], r[m]))
         /\ type = "T32_SDIV" => ~(r[n] = HalfWay /\ r[m] = Modulus - 1)
<1>1. ~Skipped
  BY DEF Skipped, Gated
<1>2. Ins.type = type /\ Ins.wide /\ Ins.rd = d /\ Ins.rn = n /\ Ins.rm = m
  BY WideTypes DEF DNM, Of
<1>3. ExecuteDivide
  BY <1>1, <1>2, TypesRun, StepIs DEF Ready
<1>4. Computes("execute_divide", Divide(type, r[n], r[m]))
  BY <1>2, <1>3 DEF ExecuteDivide
<1>5. type = "T32_SDIV" => ~(r[n] = HalfWay /\ r[m] = Modulus - 1)
  BY <1>2, <1>3 DEF ExecuteDivide, HalfWay, Modulus
<1> QED BY <1>2, <1>4, <1>5, ComputeStep

LEMMA LongStep ==
  ASSUME Next, Ready, ~InItBlock, NEW type \in {"T32_UMULL", "T32_SMULL", "T32_UMLAL", "T32_SMLAL"},
         Ins = Long(type)
  PROVE  LET n == LongMultiply(type, r[0], r[1], r[3], r[2])
         IN  Steps(4) /\ r'[2] = Low(n) /\ r'[3] = n \div 2^WordBits
<1> DEFINE n == LongMultiply(type, r[0], r[1], r[3], r[2])
<1>1. ~Skipped /\ ~Gated
  BY DEF Skipped, Gated
<1>2. /\ Ins.type = type /\ Ins.wide
      /\ Ins.rd = 2 /\ Ins.rs = 3 /\ Ins.rn = 0 /\ Ins.rm = 1
  BY WideTypes DEF Long, Of
<1>3. ExecuteLongMultiply
  BY <1>1, <1>2, TypesRun, StepIs DEF Ready
<1>4. Finish([r EXCEPT ![2] = Low(n), ![3] = n \div 2^WordBits]) /\ UNCHANGED <<program, flags, start>>
  BY <1>2, <1>3 DEF ExecuteLongMultiply
<1>5. NextPc = Low(r[PC] + 4)
  BY <1>2 DEF NextPc
<1> HIDE DEF n
<1>6. it' = it /\ r'[PC] = Low(r[PC] + 4) /\ r'[2] = Low(n) /\ r'[3] = n \div 2^WordBits
  BY <1>1, <1>4, <1>5 DEF Finish, Ready, PC
<1>7. r' = [j \in 0 .. 15 |-> r'[j]]
  BY <1>4 DEF Finish, Ready
<1> QED BY <1>4, <1>6, <1>7 DEF Steps, Ready, n

(* The 16-bit sums and differences, and the product. *)
LEMMA NarrowSumStep ==
  ASSUME Next, Ready, ~InItBlock, NEW d \in 0 .. 12, NEW n \in 0 .. 12, NEW m \in 0 .. 12
  PROVE  /\ Ins = DNM("ADD_REG", d, n, m)
              => LET out == Add(r[n], r[m]) IN Steps(2) /\ Sets(d, out.result) /\ ShowsAll(out)
         /\ Ins = DNM("SUB_REG", d, n, m)
              => LET out == Subtract(r[n], r[m]) IN Steps(2) /\ Sets(d, out.result) /\ ShowsAll(out)
         /\ Ins = DM("NEG", d, m)
              => LET out == Subtract(0, r[m]) IN Steps(2) /\ Sets(d, out.result) /\ ShowsAll(out)
         /\ Ins = DM("ADC", d, m)
              => LET out == AddCarry(r[d], r[m], CarryIn)
                 IN  Steps(2) /\ Sets(d, out.result) /\ ShowsAll(out)
         /\ Ins = DM("SBC", d, m)
              => LET out == SubtractCarry16(r[d], r[m], CarryIn)
                 IN  Steps(2) /\ Sets(d, out.result) /\ ShowsAll(out)
         /\ Ins = DM("MUL", d, m) => Steps(2) /\ Sets(d, Low(r[d] * r[m]))
<1>1. /\ {"ADD_REG", "SUB_REG", "NEG", "ADC", "SBC", "MUL"} \subseteq DataProcessingTypes
      /\ {"ADD_REG", "SUB_REG", "NEG", "ADC", "SBC", "MUL"} \subseteq Narrow
      /\ {"ADD_REG", "SUB_REG", "NEG", "ADC", "SBC", "MUL"} \cap Compares16 = {}
      /\ {"ADD_REG", "SUB_REG", "NEG", "ADC", "SBC", "MUL"} \cap Silent16 = {}
  <2>1. {"ADD_REG", "SUB_REG", "NEG", "ADC", "SBC", "MUL"} \subseteq DataProcessingTypes
    BY DEF DataProcessingTypes, AluTable
  <2> QED BY <2>1 DEF Narrow, Compares16, Silent16
<1>2. ASSUME NEW type \in {"ADD_REG", "SUB_REG", "NEG", "ADC", "SBC", "MUL"},
             Ins.type = type, ~Ins.wide, Ins.rd = d, NEW out, Outcomes16 = {out},
             out.c \in BOOLEAN, out.v \in BOOLEAN
      PROVE  Steps(2) /\ Sets(d, out.result) /\ ShowsAll(out)
  <2>1. Ins.type \in DataProcessingTypes /\ Ins.type \notin Compares16 /\ Ins.type \notin Silent16
    BY <1>1, <1>2
  <2> QED BY <1>2, <2>1, NarrowStep
<1>3. ASSUME NEW type \in {"ADD_REG", "SUB_REG"}, Ins = DNM(type, d, n, m)
      PROVE  Ins.type = type /\ ~Ins.wide /\ Ins.rd = d /\ Operand1 = r[n] /\ Operand2 = r[m]
  BY <1>1, <1>3 DEF DNM, Of, Has, Operand1, Operand2
<1>4. ASSUME NEW type \in {"NEG", "ADC", "SBC", "MUL"}, Ins = DM(type, d, m)
      PROVE  Ins.type = type /\ ~Ins.wide /\ Ins.rd = d /\ Operand1 = r[d] /\ Operand2 = r[m]
  BY <1>1, <1>4 DEF DM, Of, Has, Operand1, Operand2
<1>5. ASSUME Ins = DNM("ADD_REG", d, n, m)
      PROVE  LET out == Add(r[n], r[m]) IN Steps(2) /\ Sets(d, out.result) /\ ShowsAll(out)
  <2>1. Outcomes16 = {Add(r[n], r[m])}
    BY <1>3, <1>5 DEF Outcomes16
  <2> QED BY <1>2, <1>3, <1>5, <2>1, FlagsAreBooleans
<1>6. ASSUME Ins = DNM("SUB_REG", d, n, m)
      PROVE  LET out == Subtract(r[n], r[m]) IN Steps(2) /\ Sets(d, out.result) /\ ShowsAll(out)
  <2>1. Outcomes16 = {Subtract(r[n], r[m])}
    BY <1>3, <1>6 DEF Outcomes16
  <2> QED BY <1>2, <1>3, <1>6, <2>1, FlagsAreBooleans
<1>7. ASSUME Ins = DM("NEG", d, m)
      PROVE  LET out == Subtract(0, r[m]) IN Steps(2) /\ Sets(d, out.result) /\ ShowsAll(out)
  <2>1. Outcomes16 = {Subtract(0, r[m])}
    BY <1>4, <1>7 DEF Outcomes16, AluOutcome
  <2> QED BY <1>2, <1>4, <1>7, <2>1, FlagsAreBooleans
<1>8. ASSUME Ins = DM("ADC", d, m)
      PROVE  LET out == AddCarry(r[d], r[m], CarryIn)
             IN  Steps(2) /\ Sets(d, out.result) /\ ShowsAll(out)
  <2> DEFINE out == AddCarry(r[d], r[m], CarryIn)
  <2>1. Outcomes16 = {out}
    BY <1>4, <1>8 DEF Outcomes16, AluOutcome
  <2>2. out.c \in BOOLEAN /\ out.v \in BOOLEAN
    BY DEF AddCarry, Result
  <2> HIDE DEF out
  <2>3. Steps(2) /\ Sets(d, out.result) /\ ShowsAll(out)
    BY <1>2, <1>4, <1>8, <2>1, <2>2
  <2> QED BY <2>3 DEF out
<1>9. ASSUME Ins = DM("SBC", d, m)
      PROVE  LET out == SubtractCarry16(r[d], r[m], CarryIn)
             IN  Steps(2) /\ Sets(d, out.result) /\ ShowsAll(out)
  <2> DEFINE out == SubtractCarry16(r[d], r[m], CarryIn)
  <2>1. Outcomes16 = {out}
    BY <1>4, <1>9 DEF Outcomes16, AluOutcome
  <2>2. out.c \in BOOLEAN /\ out.v \in BOOLEAN
    BY DEF SubtractCarry16, Result
  <2> HIDE DEF out
  <2>3. Steps(2) /\ Sets(d, out.result) /\ ShowsAll(out)
    BY <1>2, <1>4, <1>9, <2>1, <2>2
  <2> QED BY <2>3 DEF out
<1>10. ASSUME Ins = DM("MUL", d, m)
       PROVE  Steps(2) /\ Sets(d, Low(r[d] * r[m]))
  <2> DEFINE out == Plain(Low(r[d] * r[m]))
  <2>1. Outcomes16 = {out}
    BY <1>4, <1>10 DEF Outcomes16, AluOutcome
  <2>2. out.c \in BOOLEAN /\ out.v \in BOOLEAN /\ out.result = Low(r[d] * r[m])
    BY DEF Plain, Result
  <2> HIDE DEF out
  <2>3. Steps(2) /\ Sets(d, out.result)
    BY <1>2, <1>4, <1>10, <2>1, <2>2
  <2> QED BY <2>2, <2>3
<1> QED BY <1>5, <1>6, <1>7, <1>8, <1>9, <1>10

-----------------------------------------------------------------------------
(* Programs that compute with two words *)

CarryOf(out) == IF out.c THEN 1 ELSE 0

(* The outcomes of the two words, for operands a and b. *)
LowOut(v, a, b) ==
  CASE v \in {"ADD", "ADD_16"} -> Add(a, b)
    [] v \in {"SUB", "SUB_16"} -> Subtract(a, b)
    [] v = "NEG"               -> Subtract(0, a)
HighOut(v, a, b) ==
  LET c == CarryOf(LowOut(v, a, b))
  IN  CASE v \in {"ADD", "ADD_16"} -> AddCarry(b, a, c)
        [] v = "SUB"    -> SubtractCarry32(b, b, c)
        [] v = "SUB_16" -> SubtractCarry16(b, b, c)
        [] v = "NEG"    -> SubtractCarry32(0, b, c)

Operands(a, b) == r[0] = a /\ r[1] = b

(* The low word is done, and its carry is in the flags. *)
LowDone(v, a, b) ==
  Operands(a, b) /\ r[2] = LowOut(v, a, b).result /\ flags.c = LowOut(v, a, b).c
BothDone(v, a, b) ==
  LET high == HighOut(v, a, b)
  IN  /\ r[2] = LowOut(v, a, b).result /\ r[3] = high.result
      /\ flags.c = high.c /\ flags.v = high.v

LongDone(type, a, b) ==
  LET n == LongMultiply(type, a, b, InitialRegister(3), InitialRegister(2))
  IN  r[2] = Low(n) /\ r[3] = n \div 2^WordBits

(* What is computed after k instructions. *)
ChainStage(v, k, a, b) ==
  IF k = Len(WideCode[v]) THEN BothDone(v, a, b)
  ELSE LowDone(v, a, b) /\ (k = 2 => r[3] = IF v = "NEG" THEN 0 ELSE b)

DivisionStage(type, k, a, b) ==
  LET q == Divide(type, a, b)
  IN  /\ r[2] = q
      /\ type = "T32_SDIV" => ~(a = HalfWay /\ b = Modulus - 1)
      /\ k = 1 => Operands(a, b)
      /\ k = 2 => r[3] = Low(a - q * b)

Stage(v, k, a, b) ==
  IF k = 0 THEN Operands(a, b) /\ \A i \in {2, 3, 12} : r[i] = InitialRegister(i)
  ELSE /\ v \in {"ADD", "ADD_16", "SUB", "SUB_16", "NEG"} => ChainStage(v, k, a, b)
       /\ v = "UDIV"  => DivisionStage("T32_UDIV", k, a, b)
       /\ v = "SDIV"  => DivisionStage("T32_SDIV", k, a, b)
       /\ v = "UMULL" => LongDone("T32_UMULL", a, b)
       /\ v = "SMULL" => LongDone("T32_SMULL", a, b)
       /\ v = "UMLAL" => LongDone("T32_UMLAL", a, b)
       /\ v = "SMLAL" => LongDone("T32_SMLAL", a, b)
       /\ v = "MUL"   => /\ r[2] = Low(a * b)
                         /\ k = 1 => Operands(a, b)
                         /\ k = 2 => r[0] = r[2]
                         /\ k = 3 => flags.z
       /\ v = "MLA"   => r[2] = Low(InitialRegister(12) + a * b)

(* Where a program is, and what it has computed by then. *)
WideFor(v) ==
  /\ Ready /\ x \in Word /\ y \in Word /\ it = NoIt
  /\ \E k \in 0 .. Len(WideCode[v]) : r[PC] = Offsets(WideCode[v])[k + 1] /\ Stage(v, k, x, y)

WideInv == Group = "wide" => WideFor(Variant)

LEMMA WideCodeIs ==
  /\ DOMAIN WideCode = {"ADD", "ADD_16", "SUB", "SUB_16", "NEG", "UDIV", "SDIV", "UMULL", "SMULL",
                        "UMLAL", "SMLAL", "MUL", "MLA"}
  /\ WideCode["ADD"] = <<Reg("ADD", 2, 0, 1, TRUE), Reg("ADC", 3, 1, 0, TRUE)>>
  /\ WideCode["ADD_16"] = <<DNM("ADD_REG", 2, 0, 1), Copy(3, 1), DM("ADC", 3, 0)>>
  /\ WideCode["SUB"] = <<Reg("SUB", 2, 0, 1, TRUE), Reg("SBC", 3, 1, 1, TRUE)>>
  /\ WideCode["SUB_16"] = <<DNM("SUB_REG", 2, 0, 1), Copy(3, 1), DM("SBC", 3, 1)>>
  /\ WideCode["NEG"] = <<DM("NEG", 2, 0), Mov(3, 0), Reg("SBC", 3, 3, 1, TRUE)>>
  /\ WideCode["UDIV"] = <<DNM("T32_UDIV", 2, 0, 1), Accumulate("T32_MLS", 3, 2, 1, 0)>>
  /\ WideCode["SDIV"] = <<DNM("T32_SDIV", 2, 0, 1), Accumulate("T32_MLS", 3, 2, 1, 0)>>
  /\ WideCode["UMULL"] = <<Long("T32_UMULL")>> /\ WideCode["SMULL"] = <<Long("T32_SMULL")>>
  /\ WideCode["UMLAL"] = <<Long("T32_UMLAL")>> /\ WideCode["SMLAL"] = <<Long("T32_SMLAL")>>
  /\ WideCode["MUL"] = <<DNM("T32_MUL", 2, 0, 1), DM("MUL", 0, 1), Reg("SUB", 3, 2, 0, TRUE)>>
  /\ WideCode["MLA"] = <<Accumulate("T32_MLA", 2, 0, 1, 12), Mov(3, 0)>>
  BY DEF WideCode

LEMMA WideLengths ==
  ASSUME NEW v \in DOMAIN WideCode
  PROVE  /\ Len(WideCode[v]) \in 1 .. 3 /\ DOMAIN WideCode[v] = 1 .. Len(WideCode[v])
         /\ v \in {"ADD", "SUB", "UDIV", "SDIV", "MLA"} => Len(WideCode[v]) = 2
         /\ v \in {"ADD_16", "SUB_16", "NEG", "MUL"} => Len(WideCode[v]) = 3
         /\ v \in {"UMULL", "SMULL", "UMLAL", "SMLAL"} => Len(WideCode[v]) = 1
<1>1. v \in {"ADD", "SUB", "UDIV", "SDIV", "MLA"} \cup {"ADD_16", "SUB_16", "NEG", "MUL"}
             \cup {"UMULL", "SMULL", "UMLAL", "SMLAL"}
  BY WideCodeIs
<1>2. \A a : Len(<<a>>) = 1 /\ DOMAIN <<a>> = 1 .. 1
  OBVIOUS
<1>3. \A a, b : Len(<<a, b>>) = 2 /\ DOMAIN <<a, b>> = 1 .. 2
  OBVIOUS
<1>4. \A a, b, c : Len(<<a, b, c>>) = 3 /\ DOMAIN <<a, b, c>> = 1 .. 3
  OBVIOUS
<1>5. v \in {"ADD", "SUB", "UDIV", "SDIV", "MLA"} => Len(WideCode[v]) = 2 /\ DOMAIN WideCode[v] = 1 .. 2
  BY <1>3, WideCodeIs
<1>6. v \in {"ADD_16", "SUB_16", "NEG", "MUL"} => Len(WideCode[v]) = 3 /\ DOMAIN WideCode[v] = 1 .. 3
  BY <1>4, WideCodeIs
<1>7. v \in {"UMULL", "SMULL", "UMLAL", "SMLAL"} => Len(WideCode[v]) = 1 /\ DOMAIN WideCode[v] = 1 .. 1
  BY <1>2, WideCodeIs, Zenon
<1> QED BY <1>1, <1>5, <1>6, <1>7

LEMMA WideWidths ==
  /\ \A d, i : Bytes(Mov(d, i)) = 4
  /\ \A d, m : Bytes(Copy(d, m)) = 2
  /\ \A type \in {"T32_UDIV", "T32_SDIV", "T32_MUL"} : \A d, n, m : Bytes(DNM(type, d, n, m)) = 4
  /\ \A type \in {"ADD_REG", "SUB_REG"} : \A d, n, m : Bytes(DNM(type, d, n, m)) = 2
  /\ \A type \in {"NEG", "ADC", "SBC", "MUL"} : \A d, m : Bytes(DM(type, d, m)) = 2
  /\ \A type \in {"T32_MLA", "T32_MLS"} : \A d, n, m, a : Bytes(Accumulate(type, d, n, m, a)) = 4
  /\ \A type \in {"T32_UMULL", "T32_SMULL", "T32_UMLAL", "T32_SMLAL"} : Bytes(Long(type)) = 4
  /\ \A op \in {"ADD", "SUB", "ADC", "SBC"} : \A d, n, m : Bytes(Reg(op, d, n, m, TRUE)) = 4
<1>1. {"MOV_HI", "ADD_REG", "SUB_REG", "NEG", "ADC", "SBC", "MUL"} \subseteq Narrow
  <2>1. {"MOV_HI", "ADD_REG", "SUB_REG", "NEG", "ADC", "SBC", "MUL"} \subseteq DataProcessingTypes
    BY DEF DataProcessingTypes, AluTable
  <2> QED BY <2>1 DEF Narrow
<1>2. \A d, m : Bytes(Copy(d, m)) = 2
  BY <1>1 DEF Bytes, Copy, Of
<1>3. \A type \in {"T32_UDIV", "T32_SDIV", "T32_MUL"} : \A d, n, m : Bytes(DNM(type, d, n, m)) = 4
  BY WideTypes DEF Bytes, DNM, Of
<1>4. \A type \in {"ADD_REG", "SUB_REG"} : \A d, n, m : Bytes(DNM(type, d, n, m)) = 2
  BY <1>1 DEF Bytes, DNM, Of
<1>5. \A type \in {"NEG", "ADC", "SBC", "MUL"} : \A d, m : Bytes(DM(type, d, m)) = 2
  BY <1>1 DEF Bytes, DM, Of
<1>6. \A type \in {"T32_MLA", "T32_MLS"} : \A d, n, m, a : Bytes(Accumulate(type, d, n, m, a)) = 4
  BY WideTypes DEF Bytes, Accumulate, Of
<1>7. \A type \in {"T32_UMULL", "T32_SMULL", "T32_UMLAL", "T32_SMLAL"} : Bytes(Long(type)) = 4
  BY WideTypes DEF Bytes, Long, Of
<1>8. \A op \in {"ADD", "SUB", "ADC", "SBC"} : \A d, n, m : Bytes(Reg(op, d, n, m, TRUE)) = 4
  <2> SUFFICES ASSUME NEW op \in {"ADD", "SUB", "ADC", "SBC"}, NEW d, NEW n, NEW m
               PROVE  Bytes(Reg(op, d, n, m, TRUE)) = 4
    OBVIOUS
  <2>1. "T32_" \o op \o "_REG" \notin Narrow
    BY TypesAssumption DEF Operations32
  <2> QED BY <2>1 DEF Bytes, Reg, Shifted, Of
<1> QED BY <1>2, <1>3, <1>4, <1>5, <1>6, <1>7, <1>8, SizesOf

(* The next instruction is reached outside any IT block. *)
LEMMA MovedOn ==
  ASSUME NEW n \in 1 .. 3, NEW code, Placed(n, code), NEW k \in 0 .. n - 1,
         Ready, it = NoIt, r[PC] = Offsets(code)[k + 1], Steps(Bytes(code[k + 1]))
  PROVE  Ready' /\ it' = NoIt /\ r'[PC] = Offsets(code)[(k + 1) + 1]
<1>1. k + 1 \in 1 .. n
  OBVIOUS
<1>2. /\ Offsets(code)[(k + 1) + 1] = Offsets(code)[k + 1] + Bytes(code[k + 1])
      /\ Low(Offsets(code)[(k + 1) + 1]) = Offsets(code)[(k + 1) + 1]
  BY <1>1 DEF Placed
<1> QED BY <1>2 DEF Steps, Ready

(* A sum or difference with its carry. *)
LEMMA ChainMoves ==
  ASSUME Next, Ready, it = NoIt, NEW v \in {"ADD", "ADD_16", "SUB", "SUB_16", "NEG"},
         NEW a \in Word, NEW b \in Word, NEW k \in 0 .. Len(WideCode[v]) - 1,
         Stage(v, k, a, b), Ins = WideCode[v][k + 1]
  PROVE  Steps(Bytes(Ins)) /\ Stage(v, k + 1, a, b)'
<1> DEFINE low == LowOut(v, a, b)
           high == HighOut(v, a, b)
           n == IF v \in {"ADD", "SUB"} THEN 2 ELSE 3
<1>0. /\ "ADD" \in {"ADD", "SUB", "ADC", "SBC"} /\ "SUB" \in {"ADD", "SUB", "ADC", "SBC"}
      /\ "ADC" \in {"ADD", "SUB", "ADC", "SBC"} /\ "SBC" \in {"ADD", "SUB", "ADC", "SBC"}
      /\ 0 \in 0 .. 12 /\ 1 \in 0 .. 12 /\ 2 \in 0 .. 12 /\ 3 \in 0 .. 12
  OBVIOUS
<1>1. v \in DOMAIN WideCode /\ Len(WideCode[v]) = n /\ k \in 0 .. n - 1
  BY WideCodeIs, WideLengths
<1>2. ~InItBlock
  BY DEF InItBlock, NoIt
<1>3. Stage(v, k, a, b) <=> IF k = 0 THEN Operands(a, b) /\ \A i \in {2, 3, 12} : r[i] = InitialRegister(i)
                            ELSE ChainStage(v, k, a, b)
  BY DEF Stage
<1>4. SUFFICES Steps(Bytes(Ins)) /\ ChainStage(v, k + 1, a, b)'
  <2>1. k + 1 # 0
    BY <1>1
  <2> QED BY <2>1 DEF Stage
<1>5. CarryIn \in {0, 1} /\ (flags.c = low.c => CarryIn = CarryOf(low))
  BY DEF CarryIn, CarryOf
<1>6. ASSUME k = 0, Operands(a, b) PROVE Steps(Bytes(Ins)) /\ ChainStage(v, 1, a, b)'
  <2>1. r[0] = a /\ r[1] = b
    BY <1>6 DEF Operands
  <2>2. Steps(Bytes(Ins)) /\ Sets(2, low.result) /\ ShowsAll(low)
    <3>1. CASE v = "ADD"
      <4>1. Ins = Reg("ADD", 2, 0, 1, TRUE)
        BY <1>6, <3>1, WideCodeIs
      <4>2. Yield("ADD", r[0], r[1]) = low
        BY <2>1, <3>1 DEF Yield, LowOut
      <4>3. Bytes(Ins) = 4
        BY <4>1, WideWidths
      <4> QED BY <1>0, <1>2, <2>1, <4>1, <4>2, <4>3, WideRegisterStep, Zenon
    <3>2. CASE v = "ADD_16"
      <4>1. Ins = DNM("ADD_REG", 2, 0, 1)
        BY <1>6, <3>2, WideCodeIs
      <4>2. Add(r[0], r[1]) = low
        BY <2>1, <3>2 DEF LowOut
      <4>3. Bytes(Ins) = 2
        BY <4>1, WideWidths
      <4> QED BY <1>0, <1>2, <4>1, <4>2, <4>3, NarrowSumStep, Zenon
    <3>3. CASE v = "SUB"
      <4>1. Ins = Reg("SUB", 2, 0, 1, TRUE)
        BY <1>6, <3>3, WideCodeIs
      <4>2. Yield("SUB", r[0], r[1]) = low
        BY <2>1, <3>3 DEF Yield, LowOut
      <4>3. Bytes(Ins) = 4
        BY <4>1, WideWidths
      <4> QED BY <1>0, <1>2, <2>1, <4>1, <4>2, <4>3, WideRegisterStep, Zenon
    <3>4. CASE v = "SUB_16"
      <4>1. Ins = DNM("SUB_REG", 2, 0, 1)
        BY <1>6, <3>4, WideCodeIs
      <4>2. Subtract(r[0], r[1]) = low
        BY <2>1, <3>4 DEF LowOut
      <4>3. Bytes(Ins) = 2
        BY <4>1, WideWidths
      <4> QED BY <1>0, <1>2, <4>1, <4>2, <4>3, NarrowSumStep, Zenon
    <3>5. CASE v = "NEG"
      <4>1. Ins = DM("NEG", 2, 0)
        BY <1>6, <3>5, WideCodeIs
      <4>2. Subtract(0, r[0]) = low
        BY <2>1, <3>5 DEF LowOut
      <4>3. Bytes(Ins) = 2
        BY <4>1, WideWidths
      <4> QED BY <1>0, <1>2, <4>1, <4>2, <4>3, NarrowSumStep, Zenon
    <3> QED BY <3>1, <3>2, <3>3, <3>4, <3>5
  <2>3. LowDone(v, a, b)'
    BY <2>1, <2>2 DEF Sets, ShowsAll, LowDone, Operands
  <2> QED BY <1>1, <2>2, <2>3 DEF ChainStage
<1>7. ASSUME k = 1, LowDone(v, a, b), v \in {"ADD_16", "SUB_16", "NEG"}
      PROVE  Steps(Bytes(Ins)) /\ ChainStage(v, 2, a, b)'
  <2> DEFINE third == IF v = "NEG" THEN 0 ELSE b
  <2>1. r[0] = a /\ r[1] = b /\ r[2] = low.result /\ flags.c = low.c
    BY <1>7 DEF Operands, LowDone
  <2>2. Steps(Bytes(Ins)) /\ Sets(3, third) /\ flags' = flags
    <3>1. CASE v = "NEG"
      <4>1. Ins = Mov(3, 0) /\ 0 \in Word
        BY <1>7, <3>1, WideCodeIs, Sizes
      <4>2. Bytes(Ins) = 4
        BY <4>1, WideWidths
      <4> QED BY <1>0, <1>2, <3>1, <4>1, <4>2, MoveStep, Zenon
    <3>2. CASE v \in {"ADD_16", "SUB_16"}
      <4>1. Ins = Copy(3, 1)
        BY <1>7, <3>2, WideCodeIs
      <4>2. Bytes(Ins) = 2
        BY <4>1, WideWidths
      <4> QED BY <1>0, <1>2, <2>1, <3>2, <4>1, <4>2, CopyStep, Zenon
    <3> QED BY <1>7, <3>1, <3>2
  <2>3. LowDone(v, a, b)' /\ r'[3] = third
    BY <2>1, <2>2 DEF Sets, LowDone, Operands
  <2> QED BY <1>1, <1>7, <2>2, <2>3 DEF ChainStage
<1>8. ASSUME k = n - 1, LowDone(v, a, b), n = 3 => r[3] = IF v = "NEG" THEN 0 ELSE b
      PROVE  Steps(Bytes(Ins)) /\ BothDone(v, a, b)'
  <2>1. r[0] = a /\ r[1] = b /\ r[2] = low.result /\ CarryIn = CarryOf(low)
    BY <1>5, <1>8 DEF Operands, LowDone
  <2>2. Steps(Bytes(Ins)) /\ Sets(3, high.result) /\ ShowsAll(high)
    <3>1. CASE v = "ADD"
      <4>1. Ins = Reg("ADC", 3, 1, 0, TRUE)
        BY <1>8, <3>1, WideCodeIs
      <4>2. Yield("ADC", r[1], r[0]) = high
        BY <2>1, <3>1 DEF Yield, HighOut
      <4>3. Bytes(Ins) = 4
        BY <4>1, WideWidths
      <4> QED BY <1>0, <1>2, <2>1, <4>1, <4>2, <4>3, WideRegisterStep, Zenon
    <3>2. CASE v = "ADD_16"
      <4>1. Ins = DM("ADC", 3, 0) /\ r[3] = b
        BY <1>8, <3>2, WideCodeIs
      <4>2. AddCarry(r[3], r[0], CarryIn) = high
        BY <2>1, <3>2, <4>1 DEF HighOut
      <4>3. Bytes(Ins) = 2
        BY <4>1, WideWidths
      <4> QED BY <1>0, <1>2, <4>1, <4>2, <4>3, NarrowSumStep, Zenon
    <3>3. CASE v = "SUB"
      <4>1. Ins = Reg("SBC", 3, 1, 1, TRUE)
        BY <1>8, <3>3, WideCodeIs
      <4>2. Yield("SBC", r[1], r[1]) = high
        BY <2>1, <3>3 DEF Yield, HighOut
      <4>3. Bytes(Ins) = 4
        BY <4>1, WideWidths
      <4> QED BY <1>0, <1>2, <2>1, <4>1, <4>2, <4>3, WideRegisterStep, Zenon
    <3>4. CASE v = "SUB_16"
      <4>1. Ins = DM("SBC", 3, 1) /\ r[3] = b
        BY <1>8, <3>4, WideCodeIs
      <4>2. SubtractCarry16(r[3], r[1], CarryIn) = high
        BY <2>1, <3>4, <4>1 DEF HighOut
      <4>3. Bytes(Ins) = 2
        BY <4>1, WideWidths
      <4> QED BY <1>0, <1>2, <4>1, <4>2, <4>3, NarrowSumStep, Zenon
    <3>5. CASE v = "NEG"
      <4>1. Ins = Reg("SBC", 3, 3, 1, TRUE) /\ r[3] = 0
        BY <1>8, <3>5, WideCodeIs
      <4>2. Yield("SBC", r[3], r[1]) = high
        BY <2>1, <3>5, <4>1 DEF Yield, HighOut
      <4>3. Bytes(Ins) = 4
        BY <4>1, WideWidths
      <4> QED BY <1>0, <1>2, <2>1, <4>1, <4>2, <4>3, WideRegisterStep, Zenon
    <3> QED BY <3>1, <3>2, <3>3, <3>4, <3>5
  <2>3. BothDone(v, a, b)'
    BY <2>1, <2>2 DEF Sets, ShowsAll, BothDone
  <2> QED BY <2>2, <2>3
<1> HIDE DEF low, high
<1>9. CASE k = 0
  BY <1>3, <1>6, <1>9
<1>10. CASE k = 1 /\ n = 3
  <2>1. LowDone(v, a, b)
    BY <1>1, <1>3, <1>10 DEF ChainStage
  <2> QED BY <1>7, <1>10, <2>1
<1>11. CASE k = n - 1
  <2>1. k \in {1, 2} /\ (n = 3 => k = 2)
    BY <1>1, <1>11
  <2>2. LowDone(v, a, b) /\ (n = 3 => r[3] = IF v = "NEG" THEN 0 ELSE b)
    BY <1>1, <1>3, <1>11, <2>1 DEF ChainStage
  <2>3. Steps(Bytes(Ins)) /\ BothDone(v, a, b)'
    BY <1>8, <1>11, <2>2
  <2>4. k + 1 = Len(WideCode[v])
    BY <1>1, <1>11
  <2> QED BY <2>3, <2>4 DEF ChainStage
<1> QED BY <1>1, <1>9, <1>10, <1>11

LEMMA DivisionMoves ==
  ASSUME Next, Ready, it = NoIt, NEW v \in {"UDIV", "SDIV"},
         NEW a \in Word, NEW b \in Word, NEW k \in 0 .. 1,
         Stage(v, k, a, b), Ins = WideCode[v][k + 1]
  PROVE  Steps(Bytes(Ins)) /\ Stage(v, k + 1, a, b)'
<1>1. ~InItBlock /\ 0 \in 0 .. 12 /\ 1 \in 0 .. 12 /\ 2 \in 0 .. 12 /\ 3 \in 0 .. 12
  BY DEF InItBlock, NoIt
<1>2. PICK type \in {"T32_UDIV", "T32_SDIV"} : type = IF v = "UDIV" THEN "T32_UDIV" ELSE "T32_SDIV"
  OBVIOUS
<1> DEFINE q == Divide(type, a, b)
<1>3. CASE k = 0
  <2>1. r[0] = a /\ r[1] = b
    BY <1>3 DEF Stage, Operands
  <2>2. Ins = DNM(type, 2, 0, 1)
    BY <1>2, <1>3, WideCodeIs
  <2>3. Bytes(Ins) = 4
    BY <2>2, WideWidths
  <2>4. Steps(4) /\ Sets(2, q) /\ (type = "T32_SDIV" => ~(a = HalfWay /\ b = Modulus - 1))
    BY <1>1, <2>1, <2>2, DivideStep, Zenon
  <2>5. DivisionStage(type, 1, a, b)'
    BY <2>1, <2>4 DEF DivisionStage, Operands, Sets
  <2> QED BY <1>2, <1>3, <2>3, <2>4, <2>5 DEF Stage
<1>4. CASE k = 1
  <2>1. DivisionStage(type, 1, a, b)
    BY <1>2, <1>4 DEF Stage
  <2>2. r[0] = a /\ r[1] = b /\ r[2] = q /\ (type = "T32_SDIV" => ~(a = HalfWay /\ b = Modulus - 1))
    BY <2>1 DEF DivisionStage, Operands
  <2>3. Ins = Accumulate("T32_MLS", 3, 2, 1, 0)
    BY <1>4, WideCodeIs
  <2>4. Bytes(Ins) = 4
    BY <2>3, WideWidths
  <2>5. Steps(4) /\ Sets(3, Low(a - q * b))
    <3>1. Steps(4) /\ Sets(3, Low(r[0] - r[2] * r[1]))
      BY <1>1, <2>3, MultiplyStep, Zenon
    <3> QED BY <2>2, <3>1
  <2>6. DivisionStage(type, 2, a, b)'
    BY <2>2, <2>5 DEF DivisionStage, Sets
  <2> QED BY <1>2, <1>4, <2>4, <2>5, <2>6 DEF Stage
<1> QED BY <1>3, <1>4

LEMMA LongMoves ==
  ASSUME Next, Ready, it = NoIt, NEW v \in {"UMULL", "SMULL", "UMLAL", "SMLAL"},
         NEW a \in Word, NEW b \in Word, Stage(v, 0, a, b), Ins = WideCode[v][1]
  PROVE  Steps(Bytes(Ins)) /\ Stage(v, 1, a, b)'
<1>1. ~InItBlock
  BY DEF InItBlock, NoIt
<1>2. PICK type \in {"T32_UMULL", "T32_SMULL", "T32_UMLAL", "T32_SMLAL"} :
        type = CASE v = "UMULL" -> "T32_UMULL" [] v = "SMULL" -> "T32_SMULL"
                 [] v = "UMLAL" -> "T32_UMLAL" [] v = "SMLAL" -> "T32_SMLAL"
  OBVIOUS
<1>3. r[0] = a /\ r[1] = b /\ r[2] = InitialRegister(2) /\ r[3] = InitialRegister(3)
  BY DEF Stage, Operands
<1>4. Ins = Long(type)
  BY <1>2, WideCodeIs
<1>5. Bytes(Ins) = 4
  BY <1>4, WideWidths
<1>6. LongDone(type, a, b)' /\ Steps(4)
  BY <1>1, <1>3, <1>4, LongStep DEF LongDone
<1> QED BY <1>2, <1>5, <1>6 DEF Stage

LEMMA ProductMoves ==
  ASSUME Next, Ready, it = NoIt, NEW v \in {"MUL", "MLA"},
         NEW a \in Word, NEW b \in Word, NEW k \in 0 .. Len(WideCode[v]) - 1,
         Stage(v, k, a, b), Ins = WideCode[v][k + 1]
  PROVE  Steps(Bytes(Ins)) /\ Stage(v, k + 1, a, b)'
<1> DEFINE p == Low(a * b)
<1>1. ~InItBlock /\ 0 \in 0 .. 12 /\ 1 \in 0 .. 12 /\ 2 \in 0 .. 12 /\ 3 \in 0 .. 12 /\ 12 \in 0 .. 12
  BY DEF InItBlock, NoIt
<1>2. v = "MUL" => k \in {0, 1, 2}
  <2>1. v = "MUL" => Len(WideCode[v]) = 3
    BY WideCodeIs, WideLengths
  <2> QED BY <2>1
<1>3. ASSUME v = "MLA" PROVE k \in {0, 1}
  <2>1. Len(WideCode[v]) = 2
    BY <1>3, WideCodeIs, WideLengths
  <2> QED BY <2>1
<1>4. CASE v = "MUL" /\ k = 0
  <2>1. r[0] = a /\ r[1] = b
    BY <1>4 DEF Stage, Operands
  <2>2. Ins = DNM("T32_MUL", 2, 0, 1)
    BY <1>4, WideCodeIs
  <2>3. Bytes(Ins) = 4
    BY <2>2, WideWidths
  <2>4. Steps(4) /\ Sets(2, Low(r[0] * r[1]))
    BY <1>1, <2>2, MultiplyStep, Zenon
  <2>5. Operands(a, b)' /\ r'[2] = p
    BY <2>1, <2>4 DEF Operands, Sets
  <2> QED BY <1>4, <2>3, <2>4, <2>5 DEF Stage
<1>5. CASE v = "MUL" /\ k = 1
  <2>1. r[0] = a /\ r[1] = b /\ r[2] = p
    BY <1>5 DEF Stage, Operands
  <2>2. Ins = DM("MUL", 0, 1)
    BY <1>5, WideCodeIs
  <2>3. Bytes(Ins) = 2
    BY <2>2, WideWidths
  <2>4. Steps(2) /\ Sets(0, Low(r[0] * r[1]))
    BY <1>1, <2>2, NarrowSumStep, Zenon
  <2>5. r'[0] = p /\ r'[2] = p
    BY <2>1, <2>4 DEF Sets
  <2> QED BY <1>5, <2>3, <2>4, <2>5 DEF Stage
<1>6. CASE v = "MUL" /\ k = 2
  <2>1. r[0] = p /\ r[2] = p /\ p \in Word
    <3>1. r[0] = p /\ r[2] = p
      BY <1>6 DEF Stage
    <3>2. a * b \in Int
      BY Sizes
    <3>3. (a * b) % Modulus \in 0 .. Modulus - 1
      BY <3>2, Sizes, DivMod
    <3> QED BY <3>1, <3>3, Sizes DEF Low, Modulus
  <2>2. Ins = Reg("SUB", 3, 2, 0, TRUE)
    BY <1>6, WideCodeIs
  <2>3. Bytes(Ins) = 4
    BY <2>2, WideWidths
  <2>4. "SUB" \in {"ADD", "SUB", "ADC", "SBC"} /\ r[0] \in Word
    BY <2>1
  <2> HIDE DEF p
  <2>5. Steps(4) /\ Sets(3, Yield("SUB", r[2], r[0]).result) /\ ShowsAll(Yield("SUB", r[2], r[0]))
    BY <1>1, <2>2, <2>4, WideRegisterStep, Zenon
  <2>6. Yield("SUB", r[2], r[0]) = Subtract(p, p)
    BY <2>1 DEF Yield
  <2>7. Subtract(p, p).result = 0
    <3>1. p - p = 0
      BY <2>1, Sizes
    <3> QED BY <3>1, LowIs, Sizes DEF Subtract, Result
  <2>8. flags'.z
    <3>1. flags'.z = (Yield("SUB", r[2], r[0]).result = 0)
      BY <2>5, Zenon DEF ShowsAll
    <3> QED BY <2>6, <2>7, <3>1, Zenon
  <2>9. r'[2] = p
    BY <2>1, <2>5 DEF Sets
  <2> QED BY <1>6, <2>3, <2>5, <2>8, <2>9 DEF Stage, p
<1>7. CASE v = "MLA" /\ k = 0
  <2>1. r[0] = a /\ r[1] = b /\ r[12] = InitialRegister(12)
    BY <1>7 DEF Stage, Operands
  <2>2. Ins = Accumulate("T32_MLA", 2, 0, 1, 12)
    BY <1>7, WideCodeIs
  <2>3. Bytes(Ins) = 4
    BY <2>2, WideWidths
  <2>4. Steps(4) /\ Sets(2, Low(r[12] + r[0] * r[1]))
    BY <1>1, <2>2, MultiplyStep, Zenon
  <2>5. r'[2] = Low(InitialRegister(12) + a * b)
    BY <2>1, <2>4 DEF Sets
  <2> QED BY <1>7, <2>3, <2>4, <2>5 DEF Stage
<1>8. CASE v = "MLA" /\ k = 1
  <2>1. r[2] = Low(InitialRegister(12) + a * b)
    BY <1>8 DEF Stage
  <2>2. Ins = Mov(3, 0) /\ 0 \in Word
    BY <1>8, WideCodeIs, Sizes
  <2>3. Bytes(Ins) = 4
    BY <2>2, WideWidths
  <2>4. Steps(4) /\ Sets(3, 0)
    BY <1>1, <2>2, MoveStep
  <2>5. r'[2] = r[2]
    BY <2>4 DEF Sets
  <2> QED BY <1>8, <2>1, <2>3, <2>4, <2>5 DEF Stage
<1> QED BY <1>2, <1>3, <1>4, <1>5, <1>6, <1>7, <1>8

LEMMA WideMoves ==
  ASSUME Next, Ready, it = NoIt, NEW v \in DOMAIN WideCode,
         NEW a \in Word, NEW b \in Word, NEW k \in 0 .. Len(WideCode[v]) - 1,
         Stage(v, k, a, b), Ins = WideCode[v][k + 1]
  PROVE  Steps(Bytes(Ins)) /\ Stage(v, k + 1, a, b)'
<1>1. CASE v \in {"ADD", "ADD_16", "SUB", "SUB_16", "NEG"}
  BY <1>1, ChainMoves
<1>2. CASE v \in {"UDIV", "SDIV"}
  <2>1. k \in 0 .. 1
    BY <1>2, WideLengths
  <2> QED BY <1>2, <2>1, DivisionMoves
<1>3. CASE v \in {"UMULL", "SMULL", "UMLAL", "SMLAL"}
  <2>1. k = 0 /\ k + 1 = 1
    BY <1>3, WideLengths
  <2> QED BY <1>3, <2>1, LongMoves
<1>4. CASE v \in {"MUL", "MLA"}
  BY <1>4, ProductMoves
<1> QED BY <1>1, <1>2, <1>3, <1>4, WideCodeIs

LEMMA WideStep ==
  ASSUME NEW name, NEW v \in DOMAIN WideCode, program = Laid(name, "M3", WideCode[v]),
         program.end \in Word, Next, WideFor(v)
  PROVE  WideFor(v)'
<1> DEFINE code == WideCode[v]
           n    == Len(code)
<1>1. n \in 1 .. 3 /\ n \in 1 .. 6 /\ DOMAIN code = 1 .. n
  BY WideLengths
<1> HIDE DEF code
<1>2. Placed(n, code)
  BY <1>1, LaidIs DEF code
<1>3. PICK a \in Word, b \in Word, k \in 0 .. n :
        a = x /\ b = y /\ r[PC] = Offsets(code)[k + 1] /\ Stage(v, k, a, b)
  BY DEF WideFor, code
<1>4. Ready /\ it = NoIt /\ Fetched /\ start' = start
  BY ProgramStays, StepIs DEF WideFor
<1> HIDE DEF n
<1>5. k \in 0 .. n - 1
  <2>1. k # n
    BY <1>2, <1>3, <1>4 DEF Placed
  <2> QED BY <1>1, <2>1
<1>6. k + 1 \in 1 .. n /\ k + 1 \in 0 .. n
  BY <1>1, <1>5
<1>7. Ins = code[k + 1]
  BY <1>2, <1>3, <1>6 DEF Placed
<1>8. Steps(Bytes(Ins)) /\ Stage(v, k + 1, a, b)'
  BY <1>3, <1>4, <1>5, <1>7, WideMoves DEF code, n
<1>9. Ready' /\ it' = NoIt /\ r'[PC] = Offsets(code)[(k + 1) + 1]
  BY <1>1, <1>2, <1>3, <1>4, <1>5, <1>7, <1>8, MovedOn
<1>10. x' = a /\ y' = b
  BY <1>3, <1>4 DEF x, y
<1>11. Stage(v, k + 1, x, y)'
  BY <1>8, <1>10 DEF Stage, ChainStage, DivisionStage, LongDone, LowDone, BothDone, Operands, LowOut, HighOut
<1> QED BY <1>3, <1>6, <1>9, <1>10, <1>11 DEF WideFor, code, n

-----------------------------------------------------------------------------
(* What a program has computed behind its last instruction. *)

(* The pair of high and low word is n, with these flags. *)
Exactly(low, high, n, carry, exact) ==
  LET P == Pair(high.result, low.result)
  IN  P = n % Square /\ high.c = carry /\ high.v = (Signed2(n) # exact)

LEMMA ChainIs ==
  ASSUME NEW a \in Word, NEW b \in Word
  PROVE  LET X == Pair(b, a)
             Y == Pair(a, b)
             Z == Pair(b, b)
             Of2(v, n, carry, exact) == Exactly(LowOut(v, a, b), HighOut(v, a, b), n, carry, exact)
         IN  /\ \A v \in {"ADD", "ADD_16"} : Of2(v, X + Y, X + Y >= Square, Signed2(X) + Signed2(Y))
             /\ Of2("SUB", X - Z, X >= Z, Signed2(X) - Signed2(Z))
             /\ ~(b = 2^WordBits - 1 /\ a < b) => Of2("SUB_16", X - Z, X >= Z, Signed2(X) - Signed2(Z))
             /\ Pair(HighOut("SUB_16", a, b).result, LowOut("SUB_16", a, b).result) = (X - Z) % Square
             /\ Of2("NEG", -X, X = 0, -Signed2(X))
<1> DEFINE X == Pair(b, a)
           Y == Pair(a, b)
           Z == Pair(b, b)
           Of2(v, n, carry, exact) == Exactly(LowOut(v, a, b), HighOut(v, a, b), n, carry, exact)
<1>1. \A v \in {"ADD", "ADD_16"} : Of2(v, X + Y, X + Y >= Square, Signed2(X) + Signed2(Y))
  <2> SUFFICES ASSUME NEW v \in {"ADD", "ADD_16"}
               PROVE  Of2(v, X + Y, X + Y >= Square, Signed2(X) + Signed2(Y))
    OBVIOUS
  <2> DEFINE low == Add(a, b)
             high == AddCarry(b, a, IF low.c THEN 1 ELSE 0)
  <2>1. LowOut(v, a, b) = low /\ HighOut(v, a, b) = high
    BY DEF LowOut, HighOut, CarryOf
  <2>2. /\ Pair(high.result, low.result) = (X + Y) % Square
        /\ high.c <=> X + Y >= Square
        /\ high.v <=> Signed2(X + Y) # Signed2(X) + Signed2(Y)
    BY PairSum
  <2>3. high.c \in BOOLEAN /\ high.v \in BOOLEAN
    BY DEF AddCarry, Result
  <2>4. (X + Y >= Square) \in BOOLEAN
    OBVIOUS
  <2> HIDE DEF low, high, X, Y
  <2> QED BY <2>1, <2>2, <2>3, <2>4, Zenon DEF Exactly
<1> DEFINE low  == Subtract(a, b)
           c    == IF low.c THEN 1 ELSE 0
           high == SubtractCarry32(b, b, c)
           high16 == SubtractCarry16(b, b, c)
<1>2. /\ Pair(high.result, low.result) = (X - Z) % Square
      /\ high.c <=> X >= Z
      /\ high.v <=> Signed2(X - Z) # Signed2(X) - Signed2(Z)
  BY PairDifference
<1>3. /\ LowOut("SUB", a, b) = low /\ HighOut("SUB", a, b) = high
      /\ LowOut("SUB_16", a, b) = low /\ HighOut("SUB_16", a, b) = high16
  BY DEF LowOut, HighOut, CarryOf
<1>4. /\ high.c \in BOOLEAN /\ high.v \in BOOLEAN /\ high16.c \in BOOLEAN
      /\ c \in Carry /\ (c = 0 <=> a < b)
  <2>1. high.c \in BOOLEAN /\ high.v \in BOOLEAN /\ high16.c \in BOOLEAN
    BY DEF SubtractCarry32, SubtractCarry16, Result
  <2>2. low.c <=> a >= b
    BY DEF Subtract, Result
  <2> HIDE DEF low, high, high16
  <2> QED BY <2>1, <2>2, Sizes DEF Carry
<1>5. /\ high16.result = high.result /\ high16.v = high.v
      /\ (high16.c <=> high.c) <=> ~(c = 0 /\ b = Modulus - 1)
  BY <1>4, SubtractCarryLosesOneBorrow
<1>6. (X >= Z) \in BOOLEAN
  OBVIOUS
<1> HIDE DEF low, high, high16, c
<1>7. Of2("SUB", X - Z, X >= Z, Signed2(X) - Signed2(Z))
  <2> HIDE DEF X, Z
  <2> QED BY <1>2, <1>3, <1>4, <1>6, Zenon DEF Exactly
<1>8. Pair(HighOut("SUB_16", a, b).result, LowOut("SUB_16", a, b).result) = (X - Z) % Square
  BY <1>2, <1>3, <1>5
<1>9. ASSUME ~(b = 2^WordBits - 1 /\ a < b)
      PROVE  Of2("SUB_16", X - Z, X >= Z, Signed2(X) - Signed2(Z))
  <2>1. high16.c <=> high.c
    BY <1>4, <1>5, <1>9 DEF Modulus
  <2> HIDE DEF X, Z
  <2> QED BY <1>2, <1>3, <1>4, <1>5, <1>6, <2>1, Zenon DEF Exactly
<1>10. Of2("NEG", -X, X = 0, -Signed2(X))
  <2> DEFINE lowN  == Subtract(0, a)
             highN == SubtractCarry32(0, b, IF lowN.c THEN 1 ELSE 0)
             O     == Pair(0, 0)
  <2>1. /\ Pair(highN.result, lowN.result) = (O - X) % Square
        /\ highN.c <=> O >= X
        /\ highN.v <=> Signed2(O - X) # Signed2(O) - Signed2(X)
    <3>1. 0 \in Word
      BY Sizes
    <3> QED BY <3>1, PairDifference
  <2>2. LowOut("NEG", a, b) = lowN /\ HighOut("NEG", a, b) = highN
    BY DEF LowOut, HighOut, CarryOf
  <2>3. highN.c \in BOOLEAN /\ highN.v \in BOOLEAN
    BY DEF SubtractCarry32, Result
  <2>4. O = 0 /\ Signed2(O) = 0 /\ X \in Nat /\ Signed2(X) \in Int
    <3>1. 0 \in Word /\ Signed(0) = 0
      BY Sizes, SignFacts
    <3>2. O = 0 /\ Signed2(O) = 0
      BY <3>1, PairIs, Sizes
    <3>3. X \in Nat
      BY PairIs, SquareIs
    <3>4. Signed2(X) = Signed(b) * Modulus + a
      BY PairIs
    <3>5. Signed(b) \in Int /\ Modulus \in Int /\ a \in Int
      BY SignFacts, Sizes
    <3> QED BY <3>2, <3>3, <3>4, <3>5
  <2> HIDE DEF lowN, highN, O, X
  <2>5. O - X = -X /\ Signed2(O) - Signed2(X) = -Signed2(X) /\ (O >= X <=> X = 0)
    BY <2>4
  <2>6. (X = 0) \in BOOLEAN
    OBVIOUS
  <2> QED BY <2>1, <2>2, <2>3, <2>5, <2>6, Zenon DEF Exactly
<1> QED BY <1>1, <1>7, <1>8, <1>9, <1>10

LEMMA DivisionIs ==
  ASSUME NEW a \in Word, NEW b \in Word, NEW type \in {"T32_UDIV", "T32_SDIV"},
         type = "T32_SDIV" => ~(a = HalfWay /\ b = Modulus - 1)
  PROVE  LET q == Divide(type, a, b)
             m == Low(a - q * b)
             s == IF Signed(a) < 0 THEN -1 ELSE 1
         IN  /\ b = 0 => q = 0
             /\ b # 0 /\ type = "T32_UDIV" => a = q * b + m /\ m < b
             /\ b # 0 /\ type = "T32_SDIV" =>
                  /\ Signed(a) = Signed(q) * Signed(b) + Signed(m)
                  /\ Signed(m) \in {k * s : k \in 0 .. Max({Signed(b), -Signed(b)}) - 1}
<1> DEFINE q == Divide(type, a, b)
           m == Low(a - q * b)
           s == IF Signed(a) < 0 THEN -1 ELSE 1
<1>1. b = 0 => q = 0
  BY DEF Divide
<1>2. ASSUME b # 0, type = "T32_UDIV" PROVE a = q * b + m /\ m < b
  <2>1. q = a \div b
    BY <1>2 DEF Divide
  <2>2. a \in Nat /\ b \in Nat \ {0} /\ b < Modulus
    BY <1>2, Sizes
  <2>3. q \in Int /\ a = q * b + (a % b) /\ a % b \in 0 .. b - 1
    BY <2>1, <2>2, DivMod
  <2>4. a - q * b = a % b /\ a % b \in 0 .. Modulus - 1
    <3>1. q * b \in Int
      BY <2>2, <2>3
    <3> HIDE DEF q
    <3> QED BY <2>2, <2>3, <3>1, Sizes
  <2>5. m = a % b
    BY <2>4, LowIs
  <2> QED BY <2>2, <2>3, <2>5
<1>3. ASSUME b # 0, type = "T32_SDIV"
      PROVE  /\ Signed(a) = Signed(q) * Signed(b) + Signed(m)
             /\ Signed(m) \in {k * s : k \in 0 .. Max({Signed(b), -Signed(b)}) - 1}
  BY <1>3, SignedQuotient
<1> QED BY <1>1, <1>2, <1>3

LEMMA LongIs ==
  ASSUME NEW a \in Word, NEW b \in Word
  PROVE  LET P(type) == LET n == LongMultiply(type, a, b, InitialRegister(3), InitialRegister(2))
                        IN  Pair(n \div 2^WordBits, Low(n))
         IN  /\ P("T32_UMULL") = a * b
             /\ Signed2(P("T32_SMULL")) = Signed(a) * Signed(b)
             /\ P("T32_UMLAL") = (InitialPair + a * b) % Square
             /\ Signed2(P("T32_SMLAL")) = InitialPair + Signed(a) * Signed(b)
<1> DEFINE N(type) == LongMultiply(type, a, b, InitialRegister(3), InitialRegister(2))
           P(type) == Pair(N(type) \div 2^WordBits, Low(N(type)))
           s == Signed(a) * Signed(b)
           I == InitialPair
           top == HalfWay * Modulus
<1>1. a \in 0 .. Modulus - 1 /\ b \in 0 .. Modulus - 1 /\ Modulus \in Nat \ {0}
  BY Sizes
<1>2. /\ N("T32_UMULL") = (a * b) % Square
      /\ N("T32_SMULL") = s % Square
      /\ N("T32_UMLAL") = (I + a * b) % Square
      /\ N("T32_SMLAL") = (I + s) % Square
  BY DEF LongMultiply, InitialPair, Pair, Square
<1>3. a * b \in 0 .. Square - 1
  <2>1. a * b \in 0 .. (Modulus - 1) * (Modulus - 1)
    <3>1. Modulus - 1 \in Nat /\ a \in Int /\ b \in Int
      BY <1>1
    <3> QED BY <1>1, <3>1, Product
  <2>2. (Modulus - 1) * (Modulus - 1) <= (Modulus - 1) * Modulus
    BY <1>1
  <2>3. (Modulus - 1) * Modulus = Modulus * Modulus - Modulus
    BY <1>1
  <2>4. (Modulus - 1) * (Modulus - 1) \in Int /\ Modulus * Modulus \in Int /\ a * b \in Int
    BY <1>1
  <2> QED BY <1>1, <2>1, <2>2, <2>3, <2>4, SquareIs
<1>4. s \in -(HalfWay * HalfWay) .. HalfWay * HalfWay /\ s \in Int
  <2>1. /\ Signed(a) \in -HalfWay .. HalfWay /\ Signed(b) \in -HalfWay .. HalfWay
        /\ Signed(a) \in Int /\ Signed(b) \in Int /\ HalfWay \in Nat
    BY SignFacts, Sizes
  <2> QED BY <2>1, Product
<1>5. /\ HalfWay * HalfWay \in Nat /\ top = HalfWay * HalfWay + HalfWay * HalfWay
      /\ HalfWay * HalfWay >= 1
  BY Sizes
<1>6. I \in Nat /\ I + HalfWay * HalfWay < top
  <2>1. InitialRegister(12) \in Word /\ InitialRegister(12) = 204
    BY InitialAssumption DEF InitialRegister
  <2>2. HalfWay >= 103 /\ HalfWay \in Nat
    BY <2>1, Sizes
  <2>3. I = 51 * Modulus + 34
    BY DEF InitialPair, Pair, InitialRegister, Modulus
  <2>4. 103 * HalfWay <= HalfWay * HalfWay
    BY <2>2, Ordered
  <2>5. HalfWay * HalfWay \in Nat
    BY <1>5
  <2> QED BY <1>5, <2>2, <2>3, <2>4, Sizes
<1>7. ASSUME NEW d \in Int
      PROVE  /\ d % Square \in 0 .. Square - 1
             /\ d \in 0 .. Square - 1 => d % Square = d
  BY SquareIs, DivMod, Truncated
<1> HIDE DEF s, I
<1>8. a * b \in Int /\ I + a * b \in Int /\ I + s \in Int
  BY <1>1, <1>4, <1>6
<1>9. \A type \in {"T32_UMULL", "T32_SMULL", "T32_UMLAL", "T32_SMLAL"} : P(type) = N(type)
  <2>1. \A type \in {"T32_UMULL", "T32_SMULL", "T32_UMLAL", "T32_SMLAL"} : N(type) \in 0 .. Square - 1
    BY <1>2, <1>4, <1>7, <1>8
  <2> HIDE DEF N
  <2> QED BY <2>1, Halves
<1> HIDE DEF N, P
<1>10. P("T32_UMULL") = a * b
  BY <1>2, <1>3, <1>7, <1>8, <1>9
<1>11. Signed2(P("T32_SMULL")) = s
  <2>1. s >= -top /\ s < top
    BY <1>4, <1>5
  <2> QED BY <1>2, <1>4, <1>9, <2>1, SquareWraps
<1>12. P("T32_UMLAL") = (I + a * b) % Square
  BY <1>2, <1>9
<1>13. Signed2(P("T32_SMLAL")) = I + s
  <2>1. I + s >= -top /\ I + s < top
    BY <1>4, <1>5, <1>6
  <2> QED BY <1>2, <1>8, <1>9, <2>1, SquareWraps
<1> QED BY <1>10, <1>11, <1>12, <1>13 DEF P, N, s, I

LEMMA WidePlaced ==
  ASSUME IsNamed, Group = "wide"
  PROVE  /\ Variant \in DOMAIN WideCode
         /\ program = Laid(program.name, "M3", WideCode[Variant])
         /\ Placed(Len(WideCode[Variant]), WideCode[Variant])
<1>1. /\ Variant \in DOMAIN WideCode
      /\ program = Laid(program.name, "M3", WideCode[Variant])
  BY NameIs DEF IsNamed, Group, Variant
<1> DEFINE code == WideCode[Variant]
<1>2. Len(code) \in 1 .. 6 /\ DOMAIN code = 1 .. Len(code)
  <2>1. Len(code) \in 1 .. 3 /\ DOMAIN code = 1 .. Len(code)
    BY <1>1, WideLengths
  <2> QED BY <2>1
<1> HIDE DEF code
<1>3. Placed(Len(code), code)
  BY <1>1, <1>2, LaidIs DEF code, IsNamed
<1> QED BY <1>1, <1>3 DEF code

(* A program that has ended has computed what it was written for. *)
LEMMA WideComputes ==
  ASSUME Group = "wide", Variant \in DOMAIN WideCode, x \in Word, y \in Word,
         Stage(Variant, Len(WideCode[Variant]), x, y)
  PROVE  WideArithmetic
<1> DEFINE P  == Pair(r[3], r[2])
           X  == Pair(y, x)
           Y  == Pair(x, y)
           Z  == Pair(y, y)
           sx == Signed(x)
           sy == Signed(y)
           n  == Len(WideCode[Variant])
<1>1. PICK v \in DOMAIN WideCode : v = Variant
  OBVIOUS
<1>2. Stage(v, n, x, y) /\ n # 0
  <2>1. n \in 1 .. 3
    BY WideLengths
  <2> QED BY <1>1, <2>1
<1> HIDE DEF n
<1>3. ASSUME v \in {"ADD", "ADD_16", "SUB", "SUB_16", "NEG"}
      PROVE  BothDone(v, x, y)
  BY <1>1, <1>2, <1>3 DEF Stage, ChainStage, n
<1>4. ASSUME v \in {"ADD", "ADD_16", "SUB", "SUB_16", "NEG"}, NEW s, NEW c, NEW e,
             Exactly(LowOut(v, x, y), HighOut(v, x, y), s, c, e)
      PROVE  Yields(P, s, c, e)
  BY <1>3, <1>4 DEF BothDone, Exactly, Yields
<1>5. ASSUME v \in {"ADD", "ADD_16"}
      PROVE  Yields(P, X + Y, X + Y >= Square, Signed2(X) + Signed2(Y))
  <2>1. Exactly(LowOut(v, x, y), HighOut(v, x, y), X + Y, X + Y >= Square, Signed2(X) + Signed2(Y))
    BY <1>5, ChainIs
  <2> HIDE DEF X, Y, P
  <2> QED BY <1>4, <1>5, <2>1
<1>6. ASSUME v = "SUB" \/ (v = "SUB_16" /\ ~LostBorrow)
      PROVE  Yields(P, X - Z, X >= Z, Signed2(X) - Signed2(Z))
  <2>1. Exactly(LowOut(v, x, y), HighOut(v, x, y), X - Z, X >= Z, Signed2(X) - Signed2(Z))
    BY <1>6, ChainIs DEF LostBorrow
  <2> HIDE DEF X, Z, P
  <2> QED BY <1>4, <1>6, <2>1
<1>7. ASSUME v = "SUB_16" PROVE P = (X - Z) % Square
  <2>1. Pair(HighOut(v, x, y).result, LowOut(v, x, y).result) = (X - Z) % Square
    BY <1>7, ChainIs
  <2> QED BY <1>3, <1>7, <2>1 DEF BothDone
<1>8. ASSUME v = "NEG" PROVE Yields(P, -X, X = 0, -Signed2(X))
  <2>1. Exactly(LowOut(v, x, y), HighOut(v, x, y), -X, X = 0, -Signed2(X))
    BY <1>8, ChainIs
  <2> HIDE DEF X, P
  <2> QED BY <1>4, <1>8, <2>1
<1>9. ASSUME v \in {"UDIV", "SDIV"}
      PROVE  \E type \in {"T32_UDIV", "T32_SDIV"} :
               /\ type = IF v = "UDIV" THEN "T32_UDIV" ELSE "T32_SDIV"
               /\ r[2] = Divide(type, x, y) /\ r[3] = Low(x - r[2] * y)
               /\ type = "T32_SDIV" => ~(x = HalfWay /\ y = Modulus - 1)
  <2>1. n = 2
    BY <1>1, <1>9, WideLengths DEF n
  <2>2. CASE v = "UDIV"
    BY <1>2, <2>1, <2>2 DEF Stage, DivisionStage
  <2>3. CASE v = "SDIV"
    BY <1>2, <2>1, <2>3 DEF Stage, DivisionStage
  <2> QED BY <1>9, <2>2, <2>3
<1>10. ASSUME v = "UDIV"
       PROVE  IF y = 0 THEN r[2] = 0 ELSE x = r[2] * y + r[3] /\ r[3] < y
  <2>1. r[2] = Divide("T32_UDIV", x, y) /\ r[3] = Low(x - r[2] * y)
    BY <1>9, <1>10
  <2> DEFINE q == Divide("T32_UDIV", x, y)
             m == Low(x - q * y)
  <2>2. (y = 0 => q = 0) /\ (y # 0 => x = q * y + m /\ m < y)
    BY DivisionIs
  <2> HIDE DEF q
  <2>3. r[2] = q /\ r[3] = m
    BY <2>1 DEF q
  <2> HIDE DEF m
  <2> QED BY <2>2, <2>3
<1>11. ASSUME v = "SDIV"
       PROVE  IF y = 0 THEN r[2] = 0
              ELSE /\ sx = Signed(r[2]) * sy + Signed(r[3])
                   /\ Signed(r[3]) \in {m * (IF sx < 0 THEN -1 ELSE 1) : m \in 0 .. Max({sy, -sy}) - 1}
  <2>1. /\ r[2] = Divide("T32_SDIV", x, y) /\ r[3] = Low(x - r[2] * y)
        /\ ~(x = HalfWay /\ y = Modulus - 1)
    BY <1>9, <1>11
  <2> DEFINE q == Divide("T32_SDIV", x, y)
             rest == Low(x - q * y)
             s == IF sx < 0 THEN -1 ELSE 1
  <2>2. /\ y = 0 => q = 0
        /\ y # 0 => /\ sx = Signed(q) * sy + Signed(rest)
                     /\ Signed(rest) \in {m * s : m \in 0 .. Max({sy, -sy}) - 1}
    BY <2>1, DivisionIs, Zenon DEF sx, sy
  <2> HIDE DEF q
  <2>3. r[2] = q /\ r[3] = rest
    BY <2>1 DEF q
  <2> HIDE DEF rest
  <2> QED BY <2>2, <2>3, Zenon
<1>12. v = "UMULL" => P = x * y
  BY <1>2, LongIs DEF Stage, LongDone
<1>13. v = "SMULL" => Signed2(P) = sx * sy
  BY <1>2, LongIs DEF Stage, LongDone
<1>14. v = "UMLAL" => P = (InitialPair + x * y) % Square
  BY <1>2, LongIs DEF Stage, LongDone
<1>15. v = "SMLAL" => Signed2(P) = InitialPair + sx * sy
  BY <1>2, LongIs DEF Stage, LongDone
<1>16. ASSUME v = "MUL" PROVE flags.z /\ r[2] = x * y % 2^WordBits
  <2>1. n = 3
    BY <1>1, <1>16, WideLengths DEF n
  <2> QED BY <1>2, <1>16, <2>1 DEF Stage, Low
<1>17. v = "MLA" => r[2] = (InitialRegister(12) + x * y) % 2^WordBits
  BY <1>2 DEF Stage, Low
<1> HIDE DEF P, X, Y, Z, sx, sy
<1> QED BY <1>1, <1>5, <1>6, <1>7, <1>8, <1>10, <1>11, <1>12, <1>13, <1>14, <1>15, <1>16, <1>17, Zenon
        DEF WideArithmetic, P, X, Y, Z, sx, sy

(***************************************************************************)
(* Arithmetic on two words is exact, for words of every length of at least *)
(* a byte and all operands: sums, differences and negation with carry and  *)
(* borrow between the words, quotient and remainder, and long products     *)
(* with and without accumulation.                                          *)
(***************************************************************************)
THEOREM WideArithmeticCorrect == Spec => []WideArithmetic
<1> DEFINE Named == Group = "wide" => IsNamed
<1>1. Init => Named /\ WideInv
  <2> SUFFICES ASSUME Init, Group = "wide" PROVE Named /\ WideInv
    BY DEF WideInv
  <2>1. Named
    BY Initially DEF IsNamed
  <2>2. Variant \in DOMAIN WideCode /\ Offsets(WideCode[Variant])[0 + 1] = 0
    BY <2>1, WidePlaced DEF Placed
  <2>3. 0 \in 0 .. Len(WideCode[Variant])
    BY <2>2, WideLengths
  <2>4. Stage(Variant, 0, x, y)
    BY Initially DEF Stage, Operands
  <2> QED BY <2>1, <2>2, <2>3, <2>4, Initially DEF WideInv, WideFor
<1>2. Named /\ WideInv /\ [Next]_vars => Named' /\ WideInv'
  <2> SUFFICES ASSUME Named, WideInv, [Next]_vars, Group' = "wide" PROVE Named' /\ WideInv'
    BY DEF WideInv
  <2>1. program' = program /\ start' = start
    BY ProgramStays DEF vars
  <2>2. Group = "wide" /\ Named'
    BY <2>1 DEF Group, IsNamed
  <2>3. PICK v : v = Variant
    OBVIOUS
  <2>4. /\ v \in DOMAIN WideCode
        /\ program = Laid(program.name, "M3", WideCode[v]) /\ program.end \in Word
    BY <2>2, <2>3, WidePlaced DEF IsNamed
  <2>5. WideFor(v)
    BY <2>2, <2>3 DEF WideInv
  <2>6. WideFor(v)'
    <3>1. CASE Next
      BY <2>4, <2>5, <3>1, WideStep
    <3>2. CASE UNCHANGED vars
      <4>1. UNCHANGED <<program, r, flags, it>> /\ x' = x /\ y' = y
        BY <3>2 DEF vars, x, y
      <4>2. PICK a, b, k : /\ a = x /\ b = y /\ k \in 0 .. Len(WideCode[v])
                           /\ r[PC] = Offsets(WideCode[v])[k + 1] /\ Stage(v, k, a, b)
        BY <2>5 DEF WideFor
      <4>3. Stage(v, k, a, b)'
        BY <4>1, <4>2 DEF Stage, ChainStage, DivisionStage, LongDone, LowDone, BothDone, Operands
      <4>4. Stage(v, k, x, y)'
        BY <4>1, <4>2, <4>3 DEF Stage, ChainStage, DivisionStage, LongDone, LowDone, BothDone,
           Operands, LowOut, HighOut
      <4>5. Ready'
        BY <2>5, <4>1 DEF WideFor, Ready
      <4> QED BY <2>5, <4>1, <4>2, <4>4, <4>5 DEF WideFor
    <3> QED BY <3>1, <3>2
  <2> QED BY <2>1, <2>2, <2>3, <2>6 DEF WideInv, Variant
<1>3. Named /\ WideInv => WideArithmetic
  <2> SUFFICES ASSUME Named, WideInv, Done, Group = "wide" PROVE WideArithmetic
    BY DEF WideArithmetic
  <2> DEFINE code == WideCode[Variant]
             n    == Len(code)
  <2>1. Variant \in DOMAIN WideCode /\ Placed(n, code) /\ n \in 1 .. 3
    BY WidePlaced, WideLengths
  <2>2. PICK k \in 0 .. n : r[PC] = Offsets(code)[k + 1] /\ Stage(Variant, k, x, y)
    BY DEF WideInv, WideFor
  <2>3. x \in Word /\ y \in Word
    BY DEF WideInv, WideFor
  <2> HIDE DEF code
  <2>4. k = n
    <3>1. SUFFICES ASSUME k # n PROVE FALSE
      OBVIOUS
    <3> HIDE DEF n
    <3>2. k + 1 \in 1 .. n
      BY <2>1, <2>2, <3>1
    <3> QED BY <2>1, <2>2, <3>2 DEF Placed
  <2> QED BY <2>1, <2>2, <2>3, <2>4, WideComputes DEF code
<1> QED BY <1>1, <1>2, <1>3, PTL DEF Spec
=============================================================================
