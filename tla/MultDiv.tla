------------------------------ MODULE MultDiv ------------------------------
(***************************************************************************)
(* The multiplier and divider of stage EX (stage_X.v), which share HI and  *)
(* LO.  One step is one rising clock edge in which DE holds an instruction *)
(* of this unit, or none.  While the unit is busy DE's instruction is      *)
(* refused and restarted, which module Pipeline models; here it waits.     *)
(* The registers mult_ of the source are mul_ here: Pipeline's mult_busy,  *)
(* mult_a and mult_hi are abstractions of them.                            *)
(***************************************************************************)
EXTENDS Integers

CONSTANTS
  Width,    \* 32 in the source
  Operands  \* the words that instructions bring

Modulus == 2 * 2^(Width - 1)
Word    == 0 .. Modulus - 1
Double  == Modulus * Modulus

\* The powers of two are what the provers are to know of 2^k.
ASSUME UnitAssumption ==
  /\ Width \in Nat \ {0}
  /\ 2^0 = 1 /\ \A k \in 0 .. Width : 2^k \in Nat \ {0}
  /\ \A k \in 0 .. Width - 1 : 2^(k + 1) = 2 * 2^k
  /\ Operands \subseteq 0 .. 2 * 2^(Width - 1) - 1

VARIABLES
  mul_busy, mul_a, mul_b, mul_neg, mul_hi, mul_lo,
  div_busy, div_neg_res, div_neg_rem, divisor, div_hi, div_lo, div_n,
  asked  \* history: the operation whose result HI and LO are to hold

multiplier == <<mul_busy, mul_a, mul_b, mul_neg>>
hilo       == <<mul_hi, mul_lo>>
divider    == <<div_busy, div_neg_res, div_neg_rem, divisor, div_hi, div_lo, div_n>>
unit       == <<multiplier, hilo, divider, asked>>

Nothing    == [op |-> "none", s |-> 0, t |-> 0]
Products   == [op : {"mult", "multu"}, s : Operands, t : Operands]
Quotients  == [op : {"div", "divu"}, s : Operands, t : Operands]

UnitTypeOK ==
  /\ mul_busy \in BOOLEAN
  /\ mul_a \in 0 .. Double - 1
  /\ mul_b \in Word
  /\ mul_neg \in BOOLEAN
  /\ mul_hi \in Word
  /\ mul_lo \in Word
  /\ div_busy \in BOOLEAN
  /\ div_neg_res \in BOOLEAN
  /\ div_neg_rem \in BOOLEAN
  /\ divisor \in Word
  /\ div_hi \in Word
  /\ div_lo \in Word
  /\ div_n \in -1 .. Width - 1
  /\ asked \in Products \cup Quotients \cup {Nothing}

UnitInit ==
  /\ mul_busy = FALSE /\ mul_a = 0 /\ mul_b = 0 /\ mul_neg = FALSE
  /\ mul_hi = 0 /\ mul_lo = 0
  /\ div_busy = FALSE /\ div_neg_res = FALSE /\ div_neg_rem = FALSE
  /\ divisor = 0 /\ div_hi = 0 /\ div_lo = 0 /\ div_n = 0
  /\ asked = Nothing

----------------------------------------------------------------------------
Negative(n) == 2 * n >= Modulus
Negate(n)   == (-n) % Modulus

\* Mutation: the sign of the result is that of the first operand.
Differ_First(signed, s, t) == signed /\ Negative(s)

Differ(signed, s, t) == signed /\ (Negative(s) # Negative(t))

\* What the signed operations work on.
Magnitude(signed, n) == IF signed /\ Negative(n) THEN Negate(n) ELSE n

Busy == mul_busy \/ div_busy

\* The divider shifts in a bit until its counter is negative, asked or not.
Shifted == 2 * div_hi + (2 * div_lo) \div Modulus

\* Mutation: a remainder as large as the divisor is kept.
Fits_NotEqual ==
  Shifted > divisor /\ Shifted - divisor < Modulus

\* No borrow in 33 bits: a difference beyond 32 bits counts as one.
Fits == Shifted >= divisor /\ Shifted - divisor < Modulus

Divide ==
  IF div_n >= 0
    THEN /\ div_n' = div_n - 1
         /\ div_hi' = IF Fits THEN Shifted - divisor ELSE Shifted % Modulus
         /\ div_lo' = ((2 * div_lo) % Modulus) + (IF Fits THEN 1 ELSE 0)
         /\ UNCHANGED <<div_busy, div_neg_res, div_neg_rem, divisor>>
    ELSE UNCHANGED divider

----------------------------------------------------------------------------
(* DE's instruction, when the unit is free.                                *)

StartMult(signed, s, t) ==
  /\ ~Busy
  /\ mul_busy' = TRUE
  /\ mul_hi' = 0 /\ mul_lo' = 0
  /\ mul_a' = Magnitude(signed, s)
  /\ mul_b' = Magnitude(signed, t)
  /\ mul_neg' = Differ(signed, s, t)
  /\ asked' = [op |-> IF signed THEN "mult" ELSE "multu", s |-> s, t |-> t]
  /\ Divide

\* Mutation: the remainder takes the sign of the quotient.
StartDiv_OneSign(signed, s, t) ==
  /\ ~Busy
  /\ div_busy' = TRUE
  /\ div_hi' = 0
  /\ div_lo' = Magnitude(signed, s)
  /\ divisor' = Magnitude(signed, t)
  /\ div_neg_res' = Differ(signed, s, t)
  /\ div_neg_rem' = Differ(signed, s, t)
  /\ div_n' = Width - 1
  /\ asked' = [op |-> IF signed THEN "div" ELSE "divu", s |-> s, t |-> t]
  /\ UNCHANGED <<multiplier, hilo>>

StartDiv(signed, s, t) ==
  /\ ~Busy
  /\ div_busy' = TRUE
  /\ div_hi' = 0
  /\ div_lo' = Magnitude(signed, s)
  /\ divisor' = Magnitude(signed, t)
  /\ div_neg_res' = Differ(signed, s, t)
  /\ div_neg_rem' = (signed /\ Negative(s))
  /\ div_n' = Width - 1
  /\ asked' = [op |-> IF signed THEN "div" ELSE "divu", s |-> s, t |-> t]
  /\ UNCHANGED <<multiplier, hilo>>

MoveTo(s) ==
  /\ ~Busy
  /\ \/ mul_hi' = s /\ UNCHANGED mul_lo
     \/ mul_lo' = s /\ UNCHANGED mul_hi
  /\ asked' = Nothing
  /\ Divide
  /\ UNCHANGED multiplier

Wait ==
  /\ ~Busy
  /\ Divide
  /\ UNCHANGED <<multiplier, hilo, asked>>

----------------------------------------------------------------------------
(* The machines at work.                                                   *)

Set(n) == mul_hi' = (n \div Modulus) % Modulus /\ mul_lo' = n % Modulus

Sum == mul_hi * Modulus + mul_lo

\* One bit of mul_b; in the cycle after the last the sign, and one more.
AddBit ==
  /\ mul_busy
  /\ mul_b # 0
  /\ IF mul_b % 2 = 1 THEN Set((Sum + mul_a) % Double) ELSE UNCHANGED hilo
  /\ mul_a' = (2 * mul_a) % Double
  /\ mul_b' = mul_b \div 2
  /\ Divide
  /\ UNCHANGED <<mul_busy, mul_neg, asked>>

Sign_Again ==
  /\ mul_busy /\ mul_b = 0 /\ mul_neg
  /\ Set((-Sum) % Double)
  /\ mul_a' = (2 * mul_a) % Double
  /\ Divide
  /\ UNCHANGED <<mul_busy, mul_b, mul_neg, asked>>

Sign ==
  /\ mul_busy /\ mul_b = 0 /\ mul_neg
  /\ Set((-Sum) % Double)
  /\ mul_neg' = FALSE
  /\ mul_a' = (2 * mul_a) % Double
  /\ Divide
  /\ UNCHANGED <<mul_busy, mul_b, asked>>

EndMult ==
  /\ mul_busy /\ mul_b = 0 /\ ~mul_neg
  /\ mul_busy' = FALSE
  /\ mul_a' = (2 * mul_a) % Double
  /\ Divide
  /\ UNCHANGED <<mul_b, mul_neg, hilo, asked>>

DivBit == div_busy /\ div_n >= 0 /\ Divide /\ UNCHANGED <<multiplier, hilo, asked>>

EndDiv ==
  /\ div_busy /\ div_n < 0
  /\ div_busy' = FALSE
  /\ mul_lo' = IF div_neg_res THEN Negate(div_lo) ELSE div_lo
  /\ mul_hi' = IF div_neg_rem THEN Negate(div_hi) ELSE div_hi
  /\ UNCHANGED <<multiplier, div_neg_res, div_neg_rem, divisor, div_hi, div_lo, div_n, asked>>

Start ==
  \/ \E signed \in BOOLEAN, s, t \in Operands : StartMult(signed, s, t) \/ StartDiv(signed, s, t)
  \/ \E s \in Operands : MoveTo(s)

Work == AddBit \/ Sign \/ EndMult \/ DivBit \/ EndDiv

UnitNext == Start \/ Wait \/ Work

UnitSpec == UnitInit /\ [][UnitNext]_unit

----------------------------------------------------------------------------
(* Properties, against what the simulator computes (run_simple.c:509-544). *)

Signed(n) == IF Negative(n) THEN n - Modulus ELSE n
As(op, n) == IF op \in {"mult", "div"} THEN Signed(n) ELSE n
Abs(n)    == IF n < 0 THEN -n ELSE n

(* HI and LO hold the whole product of the two words, signed or not, when  *)
(* a multiplication has ended (stage_X.v:284-300).                         *)
ProductsExact ==
  ~Busy /\ asked \in Products =>
    Sum = (As(asked.op, asked.s) * As(asked.op, asked.t)) % Double

(* When a division has ended LO is the quotient rounded towards zero and   *)
(* HI the remainder, with the sign of the dividend (stage_X.v:303-325).    *)
(* Division by zero is undefined, and the only quotient that is no word,   *)
(* of the least number and -1, is taken modulo 2^32.                       *)
QuotientsExact ==
  ~Busy /\ asked \in Quotients /\ asked.t # 0 =>
    LET s == As(asked.op, asked.s)
        t == As(asked.op, asked.t)
        r == As(asked.op, mul_hi)
        q == IF t = -1 /\ 2 * s = -Modulus THEN -s ELSE As(asked.op, mul_lo)
    IN  /\ s = q * t + r
        /\ Abs(r) < Abs(t)
        /\ (r # 0 => (r < 0 <=> s < 0))
        /\ q % Modulus = mul_lo

(* The unit gets on with what it was asked for: an instruction that finds  *)
(* it busy, and is restarted until it is not, does not wait for ever, and  *)
(* an instruction never starts one machine while the other is at work.     *)
Left == IF mul_busy THEN 2 * mul_b + (IF mul_neg THEN 1 ELSE 0) ELSE div_n + 1

UnitProgresses ==
  [][Busy => asked' = asked /\ (Busy' => Left' < Left /\ Left >= 0)]_unit

=============================================================================
