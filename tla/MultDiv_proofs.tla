-------------------------- MODULE MultDiv_proofs ---------------------------
(***************************************************************************)
(* The unit computes the product of any two words, and quotient and        *)
(* remainder of any two, of any width, and neither machine keeps an        *)
(* instruction waiting for ever.                                           *)
(***************************************************************************)
EXTENDS MultDiv, TLAPS

----------------------------------------------------------------------------
(* Numbers.                                                                *)

LEMMA Words ==
  /\ Modulus \in Nat \ {0}
  /\ Modulus % 2 = 0
  /\ Double \in Nat \ {0}
  /\ Width \in Nat \ {0}
  /\ Operands \subseteq Word
<1> DEFINE h == 2^(Width - 1)
<1>1. h \in Nat \ {0} /\ Modulus = 2 * h
  BY UnitAssumption DEF Modulus
<1> HIDE DEF h
<1>2. Modulus \in Nat \ {0} /\ Modulus % 2 = 0
  BY <1>1
<1>3. Modulus * Modulus \in Nat \ {0}
  BY <1>2
<1> QED
  BY <1>2, <1>3, UnitAssumption DEF Double, Word, Modulus

LEMMA ModRange ==
  ASSUME NEW n \in Int, NEW m \in Nat \ {0}
  PROVE  /\ n % m \in 0 .. m - 1
         /\ n \div m \in Int
         /\ n = m * (n \div m) + (n % m)
         /\ n \in 0 .. m - 1 => n % m = n
  OBVIOUS

LEMMA TimesZero == \A n \in Int : n * 0 = 0
  OBVIOUS

LEMMA Times == \A i, j \in Nat : i * j \in Nat
  OBVIOUS

LEMMA ProductOfWords ==
  ASSUME NEW a \in Word, NEW b \in Word
  PROVE  a * b \in 0 .. Double - 1
<1>1. Modulus \in Nat \ {0} /\ a \in 0 .. Modulus - 1 /\ b \in 0 .. Modulus - 1
  BY Words DEF Word
<1>2. a * b \in Nat /\ a * b <= a * Modulus
  BY <1>1
<1>3. a * Modulus < Modulus * Modulus
  BY <1>1
<1> QED
  BY <1>1, <1>2, <1>3 DEF Double

\* The two halves of a double word.
LEMMA Halves ==
  ASSUME NEW n \in 0 .. Double - 1
  PROVE  /\ (n \div Modulus) % Modulus \in Word
         /\ n % Modulus \in Word
         /\ ((n \div Modulus) % Modulus) * Modulus + (n % Modulus) = n
<1> DEFINE q == n \div Modulus
           r == n % Modulus
<1>1. Modulus \in Nat \ {0} /\ n \in Nat /\ n < Modulus * Modulus
  BY Words DEF Double
<1>2. q \in Int /\ r \in 0 .. Modulus - 1 /\ n = Modulus * q + r
  BY <1>1, ModRange
<1> HIDE DEF q, r
<1>3. q < Modulus
  <2>1. SUFFICES ASSUME q >= Modulus PROVE FALSE
    BY <1>1, <1>2
  <2>2. Modulus * q >= Modulus * Modulus
    BY <1>1, <1>2, <2>1
  <2> QED
    BY <1>1, <1>2, <2>2
<1>4. q >= 0
  <2>1. SUFFICES ASSUME q <= -1 PROVE FALSE
    BY <1>1, <1>2
  <2>2. Modulus * q <= -Modulus
    BY <1>1, <1>2, <2>1
  <2> QED
    BY <1>1, <1>2, <2>2
<1>5. q \in Word /\ q % Modulus = q
  <2>1. q \in 0 .. Modulus - 1
    BY <1>1, <1>2, <1>3, <1>4
  <2> QED
    BY <1>1, <1>2, <2>1, ModRange DEF Word
<1>6. q * Modulus = Modulus * q
  BY <1>1, <1>2
<1> QED
  BY <1>1, <1>2, <1>5, <1>6 DEF q, r, Word

LEMMA SumRange ==
  ASSUME NEW h \in Word, NEW l \in Word
  PROVE  h * Modulus + l \in 0 .. Double - 1
<1>1. Modulus \in Nat \ {0} /\ h \in 0 .. Modulus - 1 /\ l \in 0 .. Modulus - 1
  BY Words DEF Word
<1>2. h * Modulus <= (Modulus - 1) * Modulus /\ h * Modulus \in Nat
  BY <1>1
<1>3. (Modulus - 1) * Modulus = Modulus * Modulus - Modulus /\ Modulus * Modulus \in Nat
  BY <1>1
<1> QED
  BY <1>1, <1>2, <1>3 DEF Double

LEMMA SetSum ==
  ASSUME NEW n \in 0 .. Double - 1, Set(n)
  PROVE  mul_hi' \in Word /\ mul_lo' \in Word /\ Sum' = n
  BY Halves DEF Set, Sum

LEMMA Negated ==
  ASSUME NEW n \in Word
  PROVE  /\ Negate(n) \in Word
         /\ Negative(n) => Negate(n) = Modulus - n
<1>1. Modulus \in Nat \ {0} /\ n \in 0 .. Modulus - 1
  BY Words DEF Word
<1>2. -n \in Int
  BY <1>1
<1>3. Negate(n) \in Word
  BY <1>1, <1>2, ModRange DEF Negate, Word
<1>4. Negative(n) => n # 0
  BY <1>1 DEF Negative
<1>5. n # 0 => (-n) % Modulus = Modulus - n
  BY <1>1
<1> QED
  BY <1>3, <1>4, <1>5 DEF Negate

LEMMA MagnitudeType ==
  ASSUME NEW signed \in BOOLEAN, NEW n \in Word
  PROVE  Magnitude(signed, n) \in Word
  BY Negated DEF Magnitude

\* What the multiplier multiplies, and whether it negates the product.
LEMMA SignedProduct ==
  ASSUME NEW signed \in BOOLEAN, NEW s \in Word, NEW t \in Word
  PROVE  LET op == IF signed THEN "mult" ELSE "multu"
             p  == Magnitude(signed, s) * Magnitude(signed, t)
         IN  As(op, s) * As(op, t) = IF Differ(signed, s, t) THEN -p ELSE p
<1>1. Modulus \in Nat \ {0} /\ s \in Int /\ t \in Int
  BY Words DEF Word
<1>2. CASE ~signed
  BY <1>1, <1>2 DEF As, Magnitude, Differ
<1>3. CASE signed
  <2> DEFINE a == Magnitude(TRUE, s)
             b == Magnitude(TRUE, t)
  <2>1. a \in Int /\ Signed(s) = IF Negative(s) THEN -a ELSE a
    BY <1>1, Negated DEF Signed, Magnitude
  <2>2. b \in Int /\ Signed(t) = IF Negative(t) THEN -b ELSE b
    BY <1>1, Negated DEF Signed, Magnitude
  <2>3. Negative(s) \in BOOLEAN /\ Negative(t) \in BOOLEAN
    BY DEF Negative
  <2> HIDE DEF a, b
  <2>4. (-a) * (-b) = a * b /\ (-a) * b = -(a * b) /\ a * (-b) = -(a * b)
    BY <2>1, <2>2
  <2>5. Signed(s) * Signed(t) = IF Negative(s) # Negative(t) THEN -(a * b) ELSE a * b
    BY <2>1, <2>2, <2>3, <2>4
  <2> QED
    BY <1>3, <2>5 DEF As, Differ, a, b
<1> QED
  BY <1>2, <1>3

----------------------------------------------------------------------------
(* Types.                                                                  *)

LEMMA DivideType ==
  ASSUME UnitTypeOK, Divide
  PROVE  /\ div_busy' = div_busy
         /\ div_neg_res' \in BOOLEAN /\ div_neg_rem' \in BOOLEAN
         /\ divisor' \in Word /\ div_hi' \in Word /\ div_lo' \in Word
         /\ div_n' \in -1 .. Width - 1
         /\ div_n' = IF div_n >= 0 THEN div_n - 1 ELSE div_n
<1>1. Modulus \in Nat \ {0} /\ Modulus % 2 = 0 /\ Width \in Nat \ {0}
  BY Words
<1>2. CASE div_n >= 0
  <2> DEFINE c == (2 * div_lo) \div Modulus
             l == (2 * div_lo) % Modulus
  <2>1. div_hi \in 0 .. Modulus - 1 /\ div_lo \in 0 .. Modulus - 1 /\ divisor \in 0 .. Modulus - 1
    BY DEF UnitTypeOK, Word
  <2>2. 2 * div_lo \in Int
    BY <2>1
  <2>3. c \in Int /\ l \in 0 .. Modulus - 1 /\ 2 * div_lo = Modulus * c + l
    BY <1>1, <2>2, ModRange
  <2>4. l # Modulus - 1
    <3>1. PICK h \in Int : Modulus = 2 * h
      BY <1>1
    <3> HIDE DEF l, c
    <3>2. Modulus * c = 2 * (h * c) /\ h * c \in Int
      BY <2>3, <3>1
    <3> QED
      BY <2>1, <2>3, <3>1, <3>2
  <2> HIDE DEF l, c
  <2>5. Shifted = 2 * div_hi + c /\ Shifted \in Int
    BY <2>1, <2>3 DEF Shifted, c
  <2>6. Shifted % Modulus \in 0 .. Modulus - 1
    BY <1>1, <2>5, ModRange
  <2>7. div_hi' \in Word
    BY <1>1, <1>2, <2>1, <2>5, <2>6 DEF Divide, Fits, Word
  <2>8. div_lo' \in Word
    <3>1. div_lo' = l + (IF Fits THEN 1 ELSE 0)
      BY <1>2 DEF Divide, l
    <3> QED
      BY <1>1, <2>3, <2>4, <3>1 DEF Word
  <2> QED
    BY <1>1, <1>2, <2>7, <2>8 DEF Divide, UnitTypeOK
<1>3. CASE ~(div_n >= 0)
  BY <1>3 DEF Divide, divider, UnitTypeOK
<1> QED
  BY <1>2, <1>3

\* Bits shifted out of mul_a are lost.
LEMMA Shift ==
  ASSUME UnitTypeOK, mul_a' = (2 * mul_a) % Double
  PROVE  /\ mul_a' \in 0 .. Double - 1
         /\ 2 * mul_a < Double => mul_a' = 2 * mul_a
<1>1. Double \in Nat \ {0} /\ mul_a \in Nat
  BY Words DEF UnitTypeOK
<1> DEFINE n == 2 * mul_a
<1>2. n \in Nat
  BY <1>1
<1> HIDE DEF n
<1>3. mul_a' = n % Double /\ n % Double \in 0 .. Double - 1
  BY <1>1, <1>2, ModRange DEF n
<1>4. n < Double => n % Double = n
  BY <1>1, <1>2, ModRange
<1> QED
  BY <1>3, <1>4 DEF n

LEMMA SumType ==
  ASSUME UnitTypeOK
  PROVE  Sum \in 0 .. Double - 1
  BY SumRange DEF UnitTypeOK, Sum

LEMMA SumInt ==
  ASSUME UnitTypeOK
  PROVE  Sum \in Int /\ Sum + mul_a \in Int /\ -Sum \in Int
<1>1. mul_a \in Int /\ Sum \in Int
  BY SumType DEF UnitTypeOK
<1> HIDE DEF Sum
<1> QED
  BY <1>1

LEMMA InitType == UnitInit => UnitTypeOK
<1>1. Modulus \in Nat \ {0} /\ Double \in Nat \ {0} /\ Width \in Nat \ {0}
  BY Words
<1>2. 0 \in Word /\ 0 \in 0 .. Double - 1 /\ 0 \in -1 .. Width - 1
  BY <1>1 DEF Word
<1> QED
  BY <1>2 DEF UnitInit, UnitTypeOK

LEMMA StepType == UnitTypeOK /\ [UnitNext]_unit => UnitTypeOK'
<1> SUFFICES ASSUME UnitTypeOK, [UnitNext]_unit PROVE UnitTypeOK'
  OBVIOUS
<1>0. /\ Modulus \in Nat \ {0} /\ Double \in Nat \ {0} /\ Width \in Nat \ {0}
      /\ Operands \subseteq Word /\ 0 \in Word
      /\ \A w \in Word : w \in 0 .. Double - 1
  <2>1. \A w \in Word : w * 1 \in 0 .. Double - 1 \/ Modulus = 1
    BY Words, ProductOfWords DEF Word
  <2>2. \A w \in Word : w \in 0 .. Double - 1
    BY <2>1, Words DEF Word, Double
  <2> QED
    BY <2>2, Words DEF Word
<1>1. ASSUME NEW signed \in BOOLEAN, NEW s \in Operands, NEW t \in Operands, StartMult(signed, s, t)
      PROVE  UnitTypeOK'
  <2>1. mul_a' \in 0 .. Double - 1 /\ mul_b' \in Word
    BY <1>0, <1>1, MagnitudeType DEF StartMult
  <2>2. asked' \in Products
    BY <1>1 DEF StartMult, Products
  <2>3. mul_neg' \in BOOLEAN
    BY <1>1 DEF StartMult, Differ
  <2> QED
    BY <1>0, <1>1, <2>1, <2>2, <2>3, DivideType DEF StartMult, UnitTypeOK
<1>2. ASSUME NEW signed \in BOOLEAN, NEW s \in Operands, NEW t \in Operands, StartDiv(signed, s, t)
      PROVE  UnitTypeOK'
  <2>1. div_lo' \in Word /\ divisor' \in Word
    BY <1>0, <1>2, MagnitudeType DEF StartDiv
  <2>2. asked' \in Quotients
    BY <1>2 DEF StartDiv, Quotients
  <2>3. div_neg_res' \in BOOLEAN /\ div_neg_rem' \in BOOLEAN
    BY <1>2 DEF StartDiv, Differ, Negative
  <2>4. Width - 1 \in -1 .. Width - 1
    BY <1>0
  <2> QED
    BY <1>0, <1>2, <2>1, <2>2, <2>3, <2>4 DEF StartDiv, UnitTypeOK, multiplier, hilo
<1>3. ASSUME NEW s \in Operands, MoveTo(s) PROVE UnitTypeOK'
  BY <1>0, <1>3, DivideType DEF MoveTo, UnitTypeOK, multiplier
<1>4. CASE Wait
  BY <1>4, DivideType DEF Wait, UnitTypeOK, multiplier, hilo
<1>5. CASE AddBit
  <2>1. mul_hi' \in Word /\ mul_lo' \in Word
    <3>1. (Sum + mul_a) % Double \in 0 .. Double - 1
      BY <1>0, SumInt, ModRange
    <3> QED
      BY <1>5, <3>1, SetSum DEF AddBit, hilo, UnitTypeOK
  <2>2. mul_b' \in Word
    BY <1>0, <1>5 DEF AddBit, UnitTypeOK, Word
  <2> QED
    BY <1>5, <2>1, <2>2, Shift, DivideType DEF AddBit, UnitTypeOK
<1>6. CASE Sign
  <2>1. (-Sum) % Double \in 0 .. Double - 1
    BY <1>0, SumInt, ModRange
  <2>2. mul_hi' \in Word /\ mul_lo' \in Word
    BY <1>6, <2>1, SetSum DEF Sign
  <2> QED
    BY <1>6, <2>2, Shift, DivideType DEF Sign, UnitTypeOK
<1>7. CASE EndMult
  BY <1>7, Shift, DivideType DEF EndMult, UnitTypeOK, hilo
<1>8. CASE DivBit
  BY <1>8, DivideType DEF DivBit, UnitTypeOK, multiplier, hilo
<1>9. CASE EndDiv
  <2>1. mul_hi' \in Word /\ mul_lo' \in Word
    BY <1>9, Negated DEF EndDiv, UnitTypeOK
  <2> QED
    BY <1>9, <2>1 DEF EndDiv, UnitTypeOK, multiplier
<1>10. CASE UNCHANGED unit
  BY <1>10 DEF unit, UnitTypeOK, multiplier, hilo, divider
<1> QED
  BY <1>1, <1>2, <1>3, <1>4, <1>5, <1>6, <1>7, <1>8, <1>9, <1>10 DEF UnitNext, Start, Work

(* The registers of the multiplier and the divider have their types, for   *)
(* every width and all operands.                                           *)
THEOREM UnitTypeCorrect == UnitSpec => []UnitTypeOK
  BY InitType, StepType, PTL DEF UnitSpec

----------------------------------------------------------------------------
(* The product: what is summed up and what is still to be added make the   *)
(* product of the magnitudes, until its sign is set.                       *)

InSign    == asked.op = "mult"
Magnitudes == Magnitude(InSign, asked.s) * Magnitude(InSign, asked.t)
Negates   == Differ(InSign, asked.s, asked.t)

Unfinished == mul_busy /\ (mul_b # 0 \/ mul_neg)

Multiplied ==
  /\ Unfinished => /\ Sum + mul_a * mul_b = Magnitudes
                   /\ mul_neg <=> Negates
  /\ ~Unfinished => Sum = IF Negates THEN (-Magnitudes) % Double ELSE Magnitudes

Inv ==
  /\ mul_busy => ~div_busy /\ asked \in Products
  /\ div_busy => asked \in Quotients
  /\ asked \in Products => Multiplied

LEMMA AskedFacts ==
  /\ Products \cap Quotients = {}
  /\ Nothing \notin Products \cup Quotients
  /\ \A signed \in BOOLEAN, s, t \in Operands :
       /\ [op |-> IF signed THEN "mult" ELSE "multu", s |-> s, t |-> t] \in Products
       /\ [op |-> IF signed THEN "div" ELSE "divu", s |-> s, t |-> t] \in Quotients
  BY DEF Products, Quotients, Nothing

LEMMA MagnitudesType ==
  ASSUME asked \in Products
  PROVE  /\ Magnitudes \in 0 .. Double - 1
         /\ Negates \in BOOLEAN
<1>1. asked.s \in Word /\ asked.t \in Word /\ InSign \in BOOLEAN
  BY Words DEF Products, InSign
<1>2. Magnitude(InSign, asked.s) \in Word /\ Magnitude(InSign, asked.t) \in Word
  BY <1>1, MagnitudeType
<1>3. Negates \in BOOLEAN
  BY <1>1 DEF Negates, Differ
<1> QED
  BY <1>2, <1>3, ProductOfWords DEF Magnitudes

\* One step of the shift-and-add loop.
LEMMA AddShift ==
  ASSUME NEW z \in Nat, NEW a \in Nat, NEW b \in Nat \ {0}
  PROVE  LET c == b \div 2
         IN  /\ c \in Nat
             /\ b % 2 = 1 => z + a + (2 * a) * c = z + a * b
             /\ b % 2 # 1 => z + (2 * a) * c = z + a * b
             /\ c # 0 => 2 * a <= a * b
             /\ b % 2 = 1 => z + a <= z + a * b
<1> DEFINE c == b \div 2
<1>1. c \in Nat /\ b = 2 * c + (b % 2) /\ (b % 2 = 1 \/ b % 2 = 0)
  OBVIOUS
<1> HIDE DEF c
<1>2. (2 * a) * c = 2 * (a * c) /\ a * c \in Nat
  BY <1>1
<1>3. b % 2 = 1 => a * b = 2 * (a * c) + a
  BY <1>1
<1>4. b % 2 = 0 => a * b = 2 * (a * c)
  BY <1>1
<1>5. c # 0 => a <= a * c
  BY <1>1
<1> QED
  BY <1>1, <1>2, <1>3, <1>4, <1>5 DEF c

LEMMA InitInv == UnitInit => Inv
  BY AskedFacts DEF UnitInit, Inv

LEMMA StepAddBit ==
  ASSUME UnitTypeOK, Inv, AddBit
  PROVE  Multiplied'
<1>1. asked \in Products /\ asked' = asked
  BY DEF AddBit, Inv
<1>2. /\ Magnitudes' = Magnitudes /\ (Negates' <=> Negates)
      /\ Magnitudes \in 0 .. Double - 1 /\ Negates \in BOOLEAN
  BY <1>1, MagnitudesType DEF Magnitudes, Negates, InSign
<1>3. Sum + mul_a * mul_b = Magnitudes /\ (mul_neg <=> Negates)
  BY <1>1 DEF Inv, Multiplied, Unfinished, AddBit
<1>4. /\ Double \in Nat \ {0} /\ Sum \in Nat /\ mul_a \in Nat /\ mul_b \in Nat \ {0}
      /\ mul_b' = mul_b \div 2 /\ mul_busy' /\ mul_neg' = mul_neg
  BY SumType, Words DEF UnitTypeOK, AddBit, Word
<1>5. mul_b' \in Nat
  BY <1>4
<1>6. mul_b' # 0 => 2 * mul_a < Double
  BY <1>2, <1>3, <1>4, AddShift
<1>7. mul_b' # 0 => mul_a' = 2 * mul_a
  BY <1>6, Shift DEF AddBit
<1>8. mul_a' * mul_b' = (2 * mul_a) * mul_b'
  <2>1. CASE mul_b' = 0
    <3>1. mul_a' \in Int /\ 2 * mul_a \in Int
      BY Shift, <1>4 DEF AddBit
    <3> QED
      BY <2>1, <3>1, TimesZero
  <2> QED
    BY <1>7, <2>1
<1>9. Sum' \in Nat /\ Sum' + (2 * mul_a) * mul_b' = Magnitudes
  <2>1. CASE mul_b % 2 = 1
    <3>1. Sum + mul_a \in 0 .. Double - 1
      BY <1>2, <1>3, <1>4, <2>1, AddShift
    <3>2. (Sum + mul_a) % Double = Sum + mul_a
      BY <1>4, <3>1, SumInt, ModRange
    <3>3. Sum' = Sum + mul_a
      BY <2>1, <3>1, <3>2, SetSum DEF AddBit
    <3> QED
      BY <1>3, <1>4, <2>1, <3>3, AddShift
  <2>2. CASE mul_b % 2 # 1
    <3>1. Sum' = Sum
      BY <2>2 DEF AddBit, Sum, hilo
    <3> QED
      BY <1>3, <1>4, <2>2, <3>1, AddShift
  <2> QED
    BY <2>1, <2>2
<1>10. Sum' + mul_a' * mul_b' = Magnitudes
  BY <1>8, <1>9
<1>11. mul_b' = 0 => Sum' = Magnitudes
  BY <1>4, <1>9
<1> QED
  BY <1>2, <1>3, <1>4, <1>10, <1>11 DEF Multiplied, Unfinished

LEMMA StepSign ==
  ASSUME UnitTypeOK, Inv, Sign
  PROVE  Multiplied'
<1>1. asked \in Products /\ asked' = asked
  BY DEF Sign, Inv
<1>2. /\ Magnitudes' = Magnitudes /\ (Negates' <=> Negates)
      /\ Magnitudes \in 0 .. Double - 1
  BY <1>1, MagnitudesType DEF Magnitudes, Negates, InSign
<1>3. Sum + mul_a * mul_b = Magnitudes /\ Negates /\ mul_b = 0 /\ mul_a \in Int
  BY <1>1 DEF Inv, Multiplied, Unfinished, Sign, UnitTypeOK
<1>4. mul_a * mul_b = 0
  BY <1>3, TimesZero
<1>6. Sum = Magnitudes
  BY <1>3, <1>4, SumInt
<1>7. (-Sum) % Double \in 0 .. Double - 1
  BY Words, SumInt, ModRange
<1>8. Sum' = (-Magnitudes) % Double
  BY <1>6, <1>7, SetSum DEF Sign
<1> QED
  BY <1>2, <1>3, <1>8 DEF Sign, Multiplied, Unfinished

LEMMA StepStartMult ==
  ASSUME UnitTypeOK, Inv, NEW signed \in BOOLEAN, NEW s \in Operands, NEW t \in Operands,
         StartMult(signed, s, t)
  PROVE  Multiplied'
<1>1. asked' \in Products /\ asked'.s = s /\ asked'.t = t /\ (asked'.op = "mult" <=> signed)
  BY AskedFacts DEF StartMult
<1>2. /\ Magnitudes' = mul_a' * mul_b' /\ mul_neg' = Negates'
  BY <1>1 DEF StartMult, Magnitudes, Negates, InSign, Magnitude, Differ
<1>3. Sum' = 0
  BY Words DEF StartMult, Sum
<1>4. mul_a' \in Nat /\ mul_b' \in Nat
  BY Words, MagnitudeType DEF StartMult, Word
<1>5. mul_a' * mul_b' \in Int /\ (mul_b' = 0 => mul_a' * mul_b' = 0)
  <2>1. mul_a' * mul_b' \in Nat
    BY <1>4, Times
  <2>2. mul_b' = 0 => mul_a' * mul_b' = 0
    <3>1. mul_a' \in Int
      BY <1>4
    <3>2. mul_a' * 0 = 0
      BY <3>1, TimesZero
    <3> QED
      BY <3>2, Zenon
  <2> QED
    BY <2>1, <2>2
<1>6. Sum' + mul_a' * mul_b' = Magnitudes'
  BY <1>2, <1>3, <1>5
<1>7. ~Unfinished' => ~Negates' /\ Magnitudes' = 0
  BY <1>2, <1>5 DEF Unfinished, StartMult
<1> QED
  BY <1>2, <1>3, <1>6, <1>7 DEF Multiplied, Unfinished, StartMult

LEMMA StepInv == UnitTypeOK /\ Inv /\ [UnitNext]_unit => Inv'
<1> SUFFICES ASSUME UnitTypeOK, Inv, [UnitNext]_unit PROVE Inv'
  OBVIOUS
<1> USE AskedFacts
<1>1. ASSUME UNCHANGED <<mul_busy, mul_a, mul_b, mul_neg, hilo, asked>>, div_busy' = div_busy
      PROVE  Inv'
  BY <1>1 DEF Inv, Multiplied, Unfinished, Sum, Magnitudes, Negates, InSign, hilo
<1>2. ASSUME NEW signed \in BOOLEAN, NEW s \in Operands, NEW t \in Operands, StartMult(signed, s, t)
      PROVE  Inv'
  <2>1. mul_busy' /\ ~div_busy' /\ asked' \in Products
    <3>1. Divide /\ mul_busy' /\ ~div_busy
      BY <1>2 DEF StartMult, Busy
    <3>2. ~div_busy'
      BY <3>1, DivideType
    <3>3. asked' \in Products
      BY <1>2 DEF StartMult
    <3> QED
      BY <3>1, <3>2, <3>3
  <2>2. Multiplied'
    BY <1>2, StepStartMult
  <2> QED
    BY <2>1, <2>2 DEF Inv
<1>3. ASSUME NEW signed \in BOOLEAN, NEW s \in Operands, NEW t \in Operands, StartDiv(signed, s, t)
      PROVE  Inv'
  <2>1. ~mul_busy' /\ asked' \in Quotients
    BY <1>3 DEF StartDiv, Busy, multiplier
  <2> QED
    BY <2>1 DEF Inv
<1>4. ASSUME NEW s \in Operands, MoveTo(s) PROVE Inv'
  <2>1. ~mul_busy' /\ ~div_busy' /\ asked' = Nothing
    BY <1>4, DivideType DEF MoveTo, Busy, multiplier
  <2> QED
    BY <2>1 DEF Inv
<1>5. CASE Wait
  BY <1>1, <1>5, DivideType DEF Wait, multiplier
<1>6. CASE AddBit
  <2>1. ~div_busy' /\ asked' \in Products
    BY <1>6, DivideType DEF AddBit, Inv
  <2> QED
    BY <1>6, <2>1, StepAddBit DEF Inv
<1>7. CASE Sign
  <2>1. ~div_busy' /\ asked' \in Products
    BY <1>7, DivideType DEF Sign, Inv
  <2> QED
    BY <1>7, <2>1, StepSign DEF Inv
<1>8. CASE EndMult
  <2>1. Multiplied'
    BY <1>8 DEF EndMult, Inv, Multiplied, Unfinished, Sum, Magnitudes, Negates, InSign, hilo
  <2> QED
    BY <1>8, <2>1, DivideType DEF EndMult, Inv
<1>9. CASE DivBit
  BY <1>1, <1>9, DivideType DEF DivBit, multiplier
<1>10. CASE EndDiv
  BY <1>10 DEF EndDiv, Inv, multiplier
<1>11. CASE UNCHANGED unit
  BY <1>1, <1>11 DEF unit, multiplier, divider
<1> QED
  BY <1>2, <1>3, <1>4, <1>5, <1>6, <1>7, <1>8, <1>9, <1>10, <1>11 DEF UnitNext, Start, Work

LEMMA InvExact == UnitTypeOK /\ Inv => ProductsExact
<1> SUFFICES ASSUME UnitTypeOK, Inv, ~Busy, asked \in Products
             PROVE  Sum = (As(asked.op, asked.s) * As(asked.op, asked.t)) % Double
  BY DEF ProductsExact
<1>1. Sum = IF Negates THEN (-Magnitudes) % Double ELSE Magnitudes
  BY DEF Inv, Multiplied, Unfinished, Busy
<1>2. /\ asked.op \in {"mult", "multu"} /\ asked.s \in Word /\ asked.t \in Word
      /\ InSign \in BOOLEAN /\ asked.op = IF InSign THEN "mult" ELSE "multu"
  BY Words DEF Products, InSign
<1>3. As(asked.op, asked.s) * As(asked.op, asked.t) = IF Negates THEN -Magnitudes ELSE Magnitudes
  BY <1>2, SignedProduct DEF Negates, Magnitudes
<1>4. Magnitudes % Double = Magnitudes
  <2>1. Magnitudes \in 0 .. Double - 1 /\ Magnitudes \in Int /\ Double \in Nat \ {0}
    BY Words, MagnitudesType
  <2> QED
    BY <2>1, ModRange
<1> QED
  BY <1>1, <1>3, <1>4

(* A multiplication that has ended has left the whole product of the two   *)
(* words in HI and LO, signed or not, for every width and all operands.    *)
THEOREM ProductsCorrect == UnitSpec => []ProductsExact
<1>1. UnitInit => UnitTypeOK /\ Inv
  BY InitType, InitInv
<1>2. (UnitTypeOK /\ Inv) /\ [UnitNext]_unit => (UnitTypeOK /\ Inv)'
  BY StepType, StepInv
<1> QED
  BY <1>1, <1>2, InvExact, PTL DEF UnitSpec

----------------------------------------------------------------------------
(* The quotient: the divider finds it one bit at a time.                   *)

\* The doubling of powers, up to the modulus.
Power(k) == 2^k

LEMMA Powers ==
  /\ Power(0) = 1
  /\ Power(Width) = Modulus
  /\ \A k \in 0 .. Width : Power(k) \in Nat \ {0}
  /\ \A k \in 0 .. Width - 1 : Power(k + 1) = 2 * Power(k)
<1>1. Width \in Nat \ {0}
  BY UnitAssumption
<1>2. 2^0 = 1 /\ (\A k \in 0 .. Width : 2^k \in Nat \ {0}) /\ \A k \in 0 .. Width - 1 : 2^(k + 1) = 2 * 2^k
  BY UnitAssumption
<1>3. Width - 1 \in 0 .. Width - 1 /\ (Width - 1) + 1 = Width
  BY <1>1
<1>4. 2^Width = 2 * 2^(Width - 1)
  BY <1>2, <1>3
<1> QED
  BY <1>2, <1>4 DEF Power, Modulus

\* One bit of the dividend: what is left of it is rest, the quotient so far
\* quo, and below div_lo they lie side by side.
LEMMA BitShifted ==
  ASSUME NEW P \in Nat \ {0}, NEW Q \in Nat \ {0}, NEW rest \in 0 .. 2 * P - 1, NEW quo \in 0 .. Q - 1,
         NEW d \in Nat, NEW hi \in Nat, NEW lo, lo = rest * Q + quo,
         NEW m, m = (2 * P) * Q
  PROVE  \E b \in {0, 1}, rest1 \in 0 .. P - 1 :
           /\ rest = b * P + rest1
           /\ (2 * lo) \div m = b
           /\ (2 * lo) % m = rest1 * (2 * Q) + 2 * quo
           /\ rest1 * (2 * Q) + 2 * quo \in 0 .. m - 2
<1> DEFINE b == IF rest >= P THEN 1 ELSE 0
           c == rest - b * P
           low == c * (2 * Q) + 2 * quo
<1>1. b \in {0, 1} /\ c \in 0 .. P - 1 /\ rest = b * P + c
  OBVIOUS
<1> HIDE DEF b, c
<1>2. c * (2 * Q) = 2 * (c * Q) /\ c * Q \in Nat /\ m = 2 * (P * Q) /\ P * Q \in Nat /\ (c + 1) * Q = c * Q + Q
  BY <1>1
<1>3. (c + 1) * Q <= P * Q
  BY <1>1
<1>4. low \in 0 .. m - 2
  BY <1>1, <1>2, <1>3
<1>5. 2 * lo = b * m + low
  <2>1. rest * Q = b * (P * Q) + c * Q
    BY <1>1, <1>2
  <2> QED
    BY <1>1, <1>2, <2>1
<1>6. m \in Nat \ {0}
  BY <1>2, <1>4
<1> HIDE DEF low
<1>7. (2 * lo) \div m = b /\ (2 * lo) % m = low
  BY <1>1, <1>4, <1>5, <1>6
<1> QED
  BY <1>1, <1>4, <1>7 DEF low

\* One bit of the quotient.
LEMMA BitDivided ==
  ASSUME NEW P \in Nat \ {0}, NEW rest1 \in Nat, NEW b \in {0, 1}, NEW quo \in Nat,
         NEW d \in Nat \ {0}, NEW hi \in 0 .. d - 1, NEW M,
         M = (quo * d + hi) * (2 * P) + (b * P + rest1),
         NEW f \in {0, 1}, f = 1 <=> 2 * hi + b >= d
  PROVE  LET hi1 == 2 * hi + b - f * d
         IN  hi1 \in 0 .. d - 1 /\ M = ((2 * quo + f) * d + hi1) * P + rest1
<1>1. 2 * hi + b - f * d \in 0 .. d - 1
  OBVIOUS
<1> DEFINE qd == quo * d
           x == 2 * qd + 2 * hi + b
<1>2. qd \in Nat /\ (2 * quo + f) * d = 2 * qd + f * d /\ f * d \in Nat
  OBVIOUS
<1>3. (2 * quo + f) * d + (2 * hi + b - f * d) = x
  BY <1>2
<1>4. M = x * P + rest1
  <2>1. (qd + hi) * (2 * P) = (2 * qd + 2 * hi) * P
    BY <1>2
  <2>2. x * P = (2 * qd + 2 * hi) * P + b * P
    BY <1>2
  <2>3. (2 * qd + 2 * hi) * P \in Nat /\ b * P \in Nat
    BY <1>2
  <2> HIDE DEF x, qd
  <2> QED
    BY <2>1, <2>2, <2>3 DEF qd
<1> QED
  BY <1>1, <1>3, <1>4

\* While the divider is at work: rest is what it has not looked at of the
\* dividend, quo the quotient of what it has, div_hi the remainder.
InDiv    == asked.op = "div"
Dividend == Magnitude(InDiv, asked.s)

Divided ==
  /\ divisor = Magnitude(InDiv, asked.t)
  /\ div_neg_res <=> Differ(InDiv, asked.s, asked.t)
  /\ div_neg_rem <=> InDiv /\ Negative(asked.s)
  /\ Power(div_n + 1) * Power(Width - 1 - div_n) = Modulus
  /\ asked.t # 0 =>
       /\ div_hi < divisor
       /\ \E rest \in 0 .. Power(div_n + 1) - 1, quo \in 0 .. Power(Width - 1 - div_n) - 1 :
            /\ div_lo = rest * Power(Width - 1 - div_n) + quo
            /\ Dividend = (quo * divisor + div_hi) * Power(div_n + 1) + rest

DivInv == (div_busy => Divided) /\ QuotientsExact

LEMMA SmallMod ==
  ASSUME NEW m \in Nat \ {0}, NEW n \in 0 .. m - 1
  PROVE  n % m = n
  OBVIOUS

LEMMA TimesNothing ==
  ASSUME NEW n \in Int, NEW m \in Int, NEW k \in Int
  PROVE  n * 1 + 0 = n /\ (0 * m + 0) * k + n = n
<1>1. 0 * m = 0 /\ 0 * k = 0 /\ n * 1 = n
  OBVIOUS
<1> QED
  BY <1>1

LEMMA NonzeroMagnitude ==
  ASSUME NEW signed \in BOOLEAN, NEW n \in Word, n # 0
  PROVE  Magnitude(signed, n) \in Word \ {0}
<1>1. Modulus \in Nat \ {0} /\ n \in 0 .. Modulus - 1
  BY Words DEF Word
<1>2. Negate(n) \in Word /\ (Negative(n) => Negate(n) = Modulus - n)
  BY Negated
<1> QED
  BY <1>1, <1>2 DEF Magnitude, Word

LEMMA PowersNow ==
  ASSUME UnitTypeOK
  PROVE  /\ Power(div_n + 1) \in Nat \ {0} /\ Power(Width - 1 - div_n) \in Nat \ {0}
         /\ div_n >= 0 => /\ Power(div_n + 1) = 2 * Power(div_n) /\ Power(div_n) \in Nat \ {0}
                          /\ Power(Width - div_n) = 2 * Power(Width - 1 - div_n)
<1>1. Width \in Nat \ {0} /\ div_n \in -1 .. Width - 1
  BY Words DEF UnitTypeOK
<1>2. div_n + 1 \in 0 .. Width /\ Width - 1 - div_n \in 0 .. Width
  BY <1>1
<1>3. div_n >= 0 => /\ div_n \in 0 .. Width /\ div_n \in 0 .. Width - 1 /\ Width - 1 - div_n \in 0 .. Width - 1
                    /\ (Width - 1 - div_n) + 1 = Width - div_n
  BY <1>1
<1>4. div_n >= 0 => Power((Width - 1 - div_n) + 1) = 2 * Power(Width - 1 - div_n)
  BY <1>3, Powers
<1> QED
  BY <1>2, <1>3, <1>4, Powers

LEMMA StepDivBit ==
  ASSUME UnitTypeOK, Inv, Divided, DivBit
  PROVE  Divided'
<1> DEFINE P == Power(div_n)
           Q == Power(Width - 1 - div_n)
           b == (2 * div_lo) \div Modulus
           f == IF Fits THEN 1 ELSE 0
<1>1. asked \in Quotients /\ asked' = asked /\ Divide /\ div_n >= 0
  BY DEF DivBit, Inv
<1>2. UNCHANGED <<divisor, div_neg_res, div_neg_rem>> /\ div_n' = div_n - 1
  BY <1>1 DEF Divide
<1>3. /\ P \in Nat \ {0} /\ Q \in Nat \ {0}
      /\ Power(div_n + 1) = 2 * P /\ Power(Width - div_n) = 2 * Q
  BY <1>1, PowersNow
<1>4. div_n' + 1 = div_n /\ Width - 1 - div_n' = Width - div_n
  BY <1>2, Words DEF UnitTypeOK
<1>5. Power(div_n' + 1) = P /\ Power(Width - 1 - div_n') = 2 * Q
  BY <1>3, <1>4
<1>6. P * (2 * Q) = Modulus /\ Modulus = (2 * P) * Q
  BY <1>3 DEF Divided
<1>7. divisor' = Magnitude(InDiv, asked.t)' /\ Dividend' = Dividend
      /\ (div_neg_res <=> Differ(InDiv, asked.s, asked.t))'
      /\ (div_neg_rem <=> InDiv /\ Negative(asked.s))'
  BY <1>1, <1>2 DEF Divided, InDiv, Dividend
<1>8. ASSUME asked.t # 0
      PROVE  /\ div_hi' < divisor'
             /\ \E rest \in 0 .. P - 1, quo \in 0 .. 2 * Q - 1 :
                  /\ div_lo' = rest * (2 * Q) + quo
                  /\ Dividend' = (quo * divisor' + div_hi') * P + rest
  <2>1. PICK rest \in 0 .. 2 * P - 1, quo \in 0 .. Q - 1 :
          /\ div_lo = rest * Q + quo
          /\ Dividend = (quo * divisor + div_hi) * (2 * P) + rest
    BY <1>3, <1>8 DEF Divided
  <2>2. divisor \in Nat \ {0} /\ div_hi \in 0 .. divisor - 1 /\ divisor < Modulus /\ Modulus \in Nat \ {0}
    BY <1>8, Words DEF Divided, UnitTypeOK, Word
  <2> HIDE DEF P, Q
  <2>3. PICK b1 \in {0, 1}, rest1 \in 0 .. P - 1 :
          /\ rest = b1 * P + rest1
          /\ (2 * div_lo) \div Modulus = b1
          /\ (2 * div_lo) % Modulus = rest1 * (2 * Q) + 2 * quo
          /\ rest1 * (2 * Q) + 2 * quo \in 0 .. Modulus - 2
    BY <1>3, <1>6, <2>1, <2>2, BitShifted
  <2>4. Shifted = 2 * div_hi + b1 /\ Shifted \in Nat /\ Shifted < 2 * divisor
    BY <2>2, <2>3 DEF Shifted
  <2>5. f \in {0, 1} /\ (f = 1 <=> 2 * div_hi + b1 >= divisor)
    BY <2>2, <2>4 DEF Fits
  <2>6. div_hi' = 2 * div_hi + b1 - f * divisor
    <3>1. Shifted < divisor => Shifted % Modulus = Shifted
      <4>1. Shifted < divisor => Shifted \in 0 .. Modulus - 1
        BY <2>2, <2>4
      <4> HIDE DEF Shifted
      <4> QED
        BY <2>2, <4>1, SmallMod
    <3> QED
      BY <1>1, <2>2, <2>4, <3>1 DEF Divide, Fits
  <2>7. div_lo' = rest1 * (2 * Q) + (2 * quo + f)
    <3>1. div_lo' = rest1 * (2 * Q) + 2 * quo + f
      BY <1>1, <2>3 DEF Divide
    <3>2. rest1 * (2 * Q) \in Nat
      BY <1>3
    <3> QED
      BY <2>5, <3>1, <3>2
  <2> HIDE DEF f
  <2>8. div_hi' \in 0 .. divisor - 1 /\ Dividend = ((2 * quo + f) * divisor + div_hi') * P + rest1
    <3>1. Dividend = (quo * divisor + div_hi) * (2 * P) + (b1 * P + rest1)
      BY <2>1, <2>3
    <3> QED
      BY <1>3, <2>2, <2>5, <2>6, <3>1, BitDivided
  <2>9. 2 * quo + f \in 0 .. 2 * Q - 1
    BY <1>3, <2>5
  <2>10. div_hi' < divisor'
    BY <1>2, <2>2, <2>8
  <2>11. Dividend' = ((2 * quo + f) * divisor' + div_hi') * P + rest1
    BY <1>2, <1>7, <2>8
  <2> QED
    BY <2>3, <2>7, <2>9, <2>10, <2>11
<1> HIDE DEF P, Q
<1> QED
  BY <1>1, <1>5, <1>6, <1>7, <1>8 DEF Divided

LEMMA StepStartDiv ==
  ASSUME UnitTypeOK, NEW signed \in BOOLEAN, NEW s \in Operands, NEW t \in Operands,
         StartDiv(signed, s, t)
  PROVE  Divided'
<1>1. asked'.s = s /\ asked'.t = t /\ (asked'.op = "div" <=> signed) /\ s \in Word /\ t \in Word
  BY Words DEF StartDiv
<1>2. InDiv' \in BOOLEAN /\ (InDiv' <=> signed)
  BY <1>1 DEF InDiv
<1>3. Magnitude(InDiv, asked.t)' = Magnitude(signed, t) /\ Dividend' = Magnitude(signed, s)
  BY <1>1, <1>2 DEF Dividend, Magnitude
<1>4. (div_neg_res <=> Differ(InDiv, asked.s, asked.t))' /\ (div_neg_rem <=> InDiv /\ Negative(asked.s))'
  BY <1>1, <1>2 DEF StartDiv, Differ
<1>5. Power(div_n' + 1) = Modulus /\ Power(Width - 1 - div_n') = 1 /\ Modulus \in Nat \ {0}
  <2>1. Width \in Nat \ {0} /\ div_n' = Width - 1
    BY Words DEF StartDiv
  <2>2. div_n' + 1 = Width /\ Width - 1 - div_n' = 0
    BY <2>1
  <2> QED
    BY <2>2, Powers, Words
<1>6. ASSUME t # 0
      PROVE  /\ div_hi' < divisor'
             /\ div_lo' \in 0 .. Modulus - 1 /\ 0 \in 0 .. 1 - 1
             /\ div_lo' = div_lo' * 1 + 0
             /\ Dividend' = (0 * divisor' + div_hi') * Modulus + div_lo'
  <2>1. divisor' \in Nat \ {0} /\ div_hi' = 0 /\ div_lo' = Dividend'
    BY <1>1, <1>3, <1>6, Words, NonzeroMagnitude DEF StartDiv, Word
  <2>2. div_lo' \in 0 .. Modulus - 1
    BY <1>1, MagnitudeType DEF StartDiv, Word
  <2>3. divisor' \in Int /\ Modulus \in Int /\ div_lo' \in Int
    BY <1>5, <2>1, <2>2
  <2>4. div_lo' = div_lo' * 1 + 0 /\ div_lo' = (0 * divisor' + 0) * Modulus + div_lo'
    BY <2>3, TimesNothing
  <2>7. div_hi' < divisor' /\ 0 \in 0 .. 1 - 1
    BY <2>1
  <2> QED
    BY <2>1, <2>2, <2>4, <2>7
<1>7. asked'.t # 0 =>
        /\ div_hi' < divisor'
        /\ \E rest \in 0 .. Power(div_n' + 1) - 1, quo \in 0 .. Power(Width - 1 - div_n') - 1 :
             /\ div_lo' = rest * Power(Width - 1 - div_n') + quo
             /\ Dividend' = (quo * divisor' + div_hi') * Power(div_n' + 1) + rest
  BY <1>1, <1>5, <1>6
<1>8. Power(div_n' + 1) * Power(Width - 1 - div_n') = Modulus
  BY <1>5
<1>9. divisor' = Magnitude(InDiv, asked.t)'
  BY <1>3 DEF StartDiv
<1> QED
  BY <1>4, <1>7, <1>8, <1>9 DEF Divided

\* What a division of the magnitudes says of the words themselves.
LEMMA SignsSet ==
  ASSUME NEW signed \in BOOLEAN, NEW s0 \in Word, NEW t0 \in Word \ {0}, NEW l \in Word, NEW h \in Nat,
         h < Magnitude(signed, t0),
         Magnitude(signed, s0) = l * Magnitude(signed, t0) + h,
         NEW lo, lo = IF Differ(signed, s0, t0) THEN Negate(l) ELSE l,
         NEW hi, hi = IF signed /\ Negative(s0) THEN Negate(h) ELSE h
  PROVE  LET op == IF signed THEN "div" ELSE "divu"
             s == As(op, s0)
             t == As(op, t0)
             r == As(op, hi)
             q == IF t = -1 /\ 2 * s = -Modulus THEN -s ELSE As(op, lo)
         IN  /\ s = q * t + r
             /\ Abs(r) < Abs(t)
             /\ (r # 0 => (r < 0 <=> s < 0))
             /\ q % Modulus = lo
<1> DEFINE S == Magnitude(signed, s0)
           T == Magnitude(signed, t0)
<1>1. Modulus \in Nat \ {0} /\ s0 \in 0 .. Modulus - 1 /\ t0 \in 1 .. Modulus - 1 /\ l \in 0 .. Modulus - 1
  BY Words DEF Word
<1>2. S \in 0 .. Modulus - 1 /\ T \in 1 .. Modulus - 1
  BY <1>1, MagnitudeType, NonzeroMagnitude DEF Word
<1>3. CASE ~signed
  <2>1. S = s0 /\ T = t0 /\ lo = l /\ hi = h
    BY <1>3 DEF Magnitude, Differ
  <2>2. l % Modulus = l
    BY <1>1, SmallMod
  <2> QED
    BY <1>1, <1>2, <1>3, <2>1, <2>2 DEF As, Abs
<1>4. CASE signed
  <2>1. 2 * S <= Modulus /\ Signed(s0) = IF Negative(s0) THEN -S ELSE S
    BY <1>1, <1>4, Negated DEF Magnitude, Signed, Negative
  <2>2. 2 * T <= Modulus /\ Signed(t0) = IF Negative(t0) THEN -T ELSE T
    BY <1>1, <1>4, Negated DEF Magnitude, Signed, Negative
  <2>3. 2 * S = Modulus => Negative(s0)
    BY <1>1, <1>4, Negated DEF Magnitude, Negative
  <2>4. l <= S /\ (T > 1 => 2 * l <= S)
    <3> HIDE DEF S, T
    <3>1. S = l * T + h
      BY DEF S, T
    <3>2. l * T >= l /\ (T > 1 => l * T >= 2 * l)
      BY <1>1, <1>2
    <3> QED
      BY <1>1, <1>2, <3>1, <3>2
  <2> HIDE DEF S, T
  <2>5. h < T /\ S = l * T + h
    BY DEF S, T
  <2>6. Signed(hi) = IF Negative(s0) THEN -h ELSE h
    BY <1>1, <1>2, <1>4, <2>2, <2>5 DEF Signed, Negative, Negate
  <2> DEFINE special == Signed(t0) = -1 /\ 2 * Signed(s0) = -Modulus
             q == IF special THEN -Signed(s0) ELSE Signed(lo)
  <2>7. Negative(s0) \in BOOLEAN /\ Negative(t0) \in BOOLEAN
    BY DEF Negative
  <2>8. special <=> Negative(t0) /\ T = 1 /\ Negative(s0) /\ 2 * S = Modulus
    BY <1>1, <1>2, <2>1, <2>2, <2>7
  <2>9. T = 1 => l = S /\ h = 0
    <3>1. T = 1 => l * T = l
      BY <1>1
    <3> QED
      BY <1>1, <1>2, <2>5, <3>1
  <2>10. /\ q = IF Negative(s0) # Negative(t0) THEN -l ELSE l
         /\ q % Modulus = lo
    <3>1. CASE Negative(s0) # Negative(t0)
      <4>1. lo = Negate(l) /\ ~special
        BY <1>4, <2>7, <2>8, <3>1 DEF Differ
      <4>2. 2 * l <= Modulus
        BY <1>1, <1>2, <2>1, <2>4
      <4>3. Signed(lo) = -l
        BY <1>1, <4>1, <4>2 DEF Signed, Negative, Negate
      <4> QED
        BY <3>1, <4>1, <4>3 DEF Negate
    <3>2. CASE ~(Negative(s0) # Negative(t0))
      <4>1. lo = l
        BY <1>4, <3>2 DEF Differ
      <4>2. special => q = l
        BY <1>1, <1>2, <2>1, <2>8, <2>9
      <4>3. ~special => 2 * l < Modulus
        BY <1>1, <1>2, <2>1, <2>3, <2>4, <2>7, <2>8, <2>9, <3>2
      <4>4. ~special => Signed(lo) = l
        BY <1>1, <4>1, <4>3 DEF Signed, Negative
      <4>5. l % Modulus = l
        BY <1>1, SmallMod
      <4> QED
        BY <3>2, <4>1, <4>2, <4>4, <4>5
    <3> QED
      BY <3>1, <3>2
  <2> HIDE DEF q, special
  <2>11. Signed(s0) = q * Signed(t0) + Signed(hi)
    <3> DEFINE k == l * T
    <3>1. k \in Nat /\ S = k + h
      BY <1>1, <1>2, <2>5
    <3>2. (-l) * T = -k /\ l * (-T) = -k /\ (-l) * (-T) = k
      BY <1>1, <1>2
    <3> HIDE DEF k
    <3>3. q * Signed(t0) = IF Negative(s0) THEN -k ELSE k
      BY <2>2, <2>7, <2>10, <3>2 DEF k
    <3> QED
      BY <2>1, <2>6, <3>1, <3>3
  <2>12. /\ Abs(Signed(hi)) < Abs(Signed(t0))
         /\ Signed(hi) # 0 => (Signed(hi) < 0 <=> Signed(s0) < 0)
    <3>1. Abs(Signed(hi)) = h /\ Abs(Signed(t0)) = T
      BY <1>2, <2>2, <2>6 DEF Abs
    <3>2. Signed(hi) # 0 => S > 0
      <4>1. l * T \in Nat
        BY <1>1, <1>2
      <4> QED
        BY <2>5, <2>6, <4>1
    <3> QED
      BY <1>2, <2>1, <2>5, <2>6, <2>7, <3>1, <3>2
  <2> QED
    BY <1>4, <2>10, <2>11, <2>12 DEF As, q, special
<1> QED
  BY <1>3, <1>4

LEMMA StepEndDiv ==
  ASSUME UnitTypeOK, Inv, Divided, EndDiv
  PROVE  QuotientsExact'
<1>1. asked \in Quotients /\ asked' = asked /\ div_n = -1
  BY DEF EndDiv, Inv, UnitTypeOK
<1> SUFFICES ASSUME asked.t # 0 PROVE QuotientsExact'
  BY <1>1 DEF QuotientsExact
<1>2. asked.s \in Word /\ asked.t \in Word \ {0} /\ InDiv \in BOOLEAN
      /\ asked.op = IF InDiv THEN "div" ELSE "divu"
  BY <1>1, Words DEF Quotients, InDiv
<1>3. Power(div_n + 1) = 1 /\ Power(Width - 1 - div_n) = Modulus
  <2>1. Width \in Nat \ {0} /\ div_n + 1 = 0 /\ Width - 1 - div_n = Width
    BY <1>1, Words
  <2> QED
    BY <2>1, Powers
<1>4. PICK rest \in 0 .. 1 - 1, quo \in 0 .. Modulus - 1 :
        /\ div_lo = rest * Modulus + quo
        /\ Dividend = (quo * divisor + div_hi) * 1 + rest
  BY <1>3 DEF Divided
<1>5. div_lo \in Word /\ div_hi \in Nat /\ divisor \in Nat /\ Modulus \in Nat
  BY Words DEF UnitTypeOK, Word
<1>6. div_lo = quo /\ Dividend = quo * divisor + div_hi
  <2>1. rest = 0 /\ 0 * Modulus = 0
    BY <1>4, <1>5
  <2>2. quo * divisor \in Nat
    BY <1>4, <1>5
  <2> QED
    BY <1>4, <1>5, <2>1, <2>2
<1>7. divisor = Magnitude(InDiv, asked.t) /\ div_hi < divisor
      /\ (div_neg_res <=> Differ(InDiv, asked.s, asked.t))
      /\ (div_neg_rem <=> InDiv /\ Negative(asked.s))
  BY DEF Divided
<1>8. /\ mul_lo' = IF Differ(InDiv, asked.s, asked.t) THEN Negate(div_lo) ELSE div_lo
      /\ mul_hi' = IF InDiv /\ Negative(asked.s) THEN Negate(div_hi) ELSE div_hi
  BY <1>7 DEF EndDiv
<1>9. div_hi < Magnitude(InDiv, asked.t)
      /\ Magnitude(InDiv, asked.s) = div_lo * Magnitude(InDiv, asked.t) + div_hi
  BY <1>6, <1>7 DEF Dividend
<1> DEFINE s == As(asked.op, asked.s)
           t == As(asked.op, asked.t)
           r == As(asked.op, mul_hi')
           q == IF t = -1 /\ 2 * s = -Modulus THEN -s ELSE As(asked.op, mul_lo')
<1>10. /\ s = q * t + r
       /\ Abs(r) < Abs(t)
       /\ (r # 0 => (r < 0 <=> s < 0))
       /\ q % Modulus = mul_lo'
  BY <1>2, <1>5, <1>8, <1>9, SignsSet
<1> QED
  BY <1>1, <1>10 DEF QuotientsExact

LEMMA StepDivInv == UnitTypeOK /\ Inv /\ DivInv /\ [UnitNext]_unit => DivInv'
<1> SUFFICES ASSUME UnitTypeOK, Inv, DivInv, [UnitNext]_unit PROVE DivInv'
  OBVIOUS
<1> USE AskedFacts
<1>1. ASSUME asked' \notin Quotients, ~div_busy' PROVE DivInv'
  BY <1>1 DEF DivInv, QuotientsExact
<1>2. ASSUME UNCHANGED <<hilo, asked>>, ~Busy, ~div_busy' PROVE DivInv'
  BY <1>2 DEF DivInv, QuotientsExact, hilo, Busy
<1>3. ASSUME NEW signed \in BOOLEAN, NEW s \in Operands, NEW t \in Operands, StartMult(signed, s, t)
      PROVE  DivInv'
  <2>1. Divide /\ ~div_busy
    BY <1>3 DEF StartMult, Busy
  <2>2. ~div_busy'
    BY <2>1, DivideType
  <2>3. asked' \in Products
    BY <1>3 DEF StartMult
  <2> QED
    BY <1>1, <2>2, <2>3
<1>4. ASSUME NEW signed \in BOOLEAN, NEW s \in Operands, NEW t \in Operands, StartDiv(signed, s, t)
      PROVE  DivInv'
  BY <1>4, StepStartDiv DEF DivInv, QuotientsExact, StartDiv, Busy
<1>5. ASSUME NEW s \in Operands, MoveTo(s) PROVE DivInv'
  <2>1. ~div_busy' /\ asked' = Nothing
    BY <1>5, DivideType DEF MoveTo, Busy
  <2> QED
    BY <1>1, <2>1
<1>6. CASE Wait
  <2>1. ~div_busy'
    BY <1>6, DivideType DEF Wait, Busy
  <2> QED
    BY <1>2, <1>6, <2>1 DEF Wait
<1>7. CASE AddBit \/ Sign \/ EndMult
  <2>1. asked' = asked /\ Divide /\ mul_busy
    BY <1>7 DEF AddBit, Sign, EndMult
  <2>2. asked' \in Products /\ ~div_busy'
    BY <2>1, DivideType DEF Inv
  <2> QED
    BY <1>1, <2>2
<1>8. CASE DivBit
  <2>1. div_busy /\ div_busy'
    BY <1>8, DivideType DEF DivBit
  <2> QED
    BY <1>8, <2>1, StepDivBit DEF DivInv, QuotientsExact, Busy
<1>9. CASE EndDiv
  BY <1>9, StepEndDiv DEF DivInv, EndDiv
<1>10. CASE UNCHANGED unit
  BY <1>10 DEF unit, multiplier, divider, hilo, DivInv, Divided, Dividend, InDiv, QuotientsExact, Busy
<1> QED
  BY <1>3, <1>4, <1>5, <1>6, <1>7, <1>8, <1>9, <1>10 DEF UnitNext, Start, Work

(* A division that has ended has left quotient and remainder in LO and HI, *)
(* rounded and with signs as the simulator has them, for every width and   *)
(* all operands but a divisor of zero.                                     *)
THEOREM QuotientsCorrect == UnitSpec => []QuotientsExact
<1>1. UnitInit => UnitTypeOK /\ Inv /\ DivInv
  BY InitType, InitInv, AskedFacts DEF UnitInit, DivInv, QuotientsExact
<1>2. (UnitTypeOK /\ Inv /\ DivInv) /\ [UnitNext]_unit => (UnitTypeOK /\ Inv /\ DivInv)'
  BY StepType, StepInv, StepDivInv
<1>3. DivInv => QuotientsExact
  BY DEF DivInv
<1> QED
  BY <1>1, <1>2, <1>3, PTL DEF UnitSpec

----------------------------------------------------------------------------
(* Progress.                                                               *)

LEMMA StepProgress ==
  ASSUME UnitTypeOK, Inv, UnitNext, Busy
  PROVE  asked' = asked /\ (Busy' => Left' < Left /\ Left >= 0)
<1>1. CASE AddBit
  <2>1. mul_b \in Nat \ {0} /\ mul_b' = mul_b \div 2 /\ mul_neg' = mul_neg
    BY <1>1, Words DEF UnitTypeOK, AddBit, Word
  <2>2. mul_b' \in Nat /\ mul_b' < mul_b
    BY <2>1
  <2> QED
    BY <1>1, <2>1, <2>2 DEF AddBit, Left
<1>2. CASE Sign
  BY <1>2 DEF Sign, Left
<1>3. CASE EndMult
  BY <1>3, DivideType DEF EndMult, Inv, Busy
<1>4. CASE DivBit
  <2>1. ~mul_busy /\ ~mul_busy'
    BY <1>4 DEF DivBit, Inv, multiplier
  <2>2. div_n \in Int /\ div_n' = div_n - 1 /\ div_n >= 0
    <3>1. Divide /\ div_n >= 0 /\ div_n \in Int
      BY <1>4, Words DEF DivBit, UnitTypeOK
    <3> QED
      BY <3>1, DivideType
  <2> QED
    BY <1>4, <2>1, <2>2 DEF DivBit, Left
<1>5. CASE EndDiv
  BY <1>5 DEF EndDiv, Inv, Busy, multiplier
<1>6. ~Start /\ ~Wait
  BY DEF Start, Wait, StartMult, StartDiv, MoveTo
<1> QED
  BY <1>1, <1>2, <1>3, <1>4, <1>5, <1>6 DEF UnitNext, Work

(* While the unit is busy every step brings it nearer to the end of the    *)
(* operation that it was asked for, which nothing replaces.                *)
THEOREM ProgressCorrect == UnitSpec => UnitProgresses
<1>1. UnitInit => UnitTypeOK /\ Inv
  BY InitType, InitInv
<1>2. (UnitTypeOK /\ Inv) /\ [UnitNext]_unit => (UnitTypeOK /\ Inv)'
  BY StepType, StepInv
<1>3. (UnitTypeOK /\ Inv) /\ [UnitNext]_unit
        => [Busy => asked' = asked /\ (Busy' => Left' < Left /\ Left >= 0)]_unit
  BY StepProgress
<1> QED
  BY <1>1, <1>2, <1>3, PTL DEF UnitSpec, UnitProgresses

=============================================================================
