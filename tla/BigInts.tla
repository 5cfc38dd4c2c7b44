------------------------------- MODULE BigInts --------------------------------
(***************************************************************************)
(* The integers constant expressions are folded with (bigint.c): a sign    *)
(* and a sequence of digits.  The numbers have no limit, but several       *)
(* operations treat those of one digit apart, take an amount that has to   *)
(* be a digit, or misread what has more digits than they expect.           *)
(*                                                                         *)
(* A number is an integer here and its digits are counted.  What is exact  *)
(* in the code (multiplying, comparing, the long division) is arithmetic;  *)
(* the rest is what the code makes of it.                                  *)
(***************************************************************************)
EXTENDS Integers, FiniteSetsExt

CONSTANTS
  DigitBits,   \* the width of a digit, 64 in the code
  RoomDigits,  \* the digits of the longest number the arena has memory for
  FloatBits    \* the bits that LC_Bigint_as_float converts at once, 44 in the code

ASSUME DigitsAssumption ==
  /\ DigitBits \in Nat \ {0}
  /\ RoomDigits \in Nat \ {0}
  /\ FloatBits \in 1..DigitBits

Radix == 2^DigitBits
Greater(m, n) == IF m > n THEN m ELSE n
Magnitude(n) == IF n < 0 THEN -n ELSE n
WithSign(n, m) == IF n < 0 THEN -m ELSE m
Truncated(n, m) ==                 \* C's n / m
  LET q == Magnitude(n) \div Magnitude(m) IN IF (n < 0) # (m < 0) THEN -q ELSE q

BitLength(n) ==
  LET bits[k \in Nat] == IF k = 0 THEN 0 ELSE 1 + bits[k \div 2] IN bits[Magnitude(n)]
Digits(n) == (BitLength(n) + DigitBits - 1) \div DigitBits
Wide(n) == Magnitude(n) >= Radix

\* The leading zeros of a negative number are not counted.
FitsInBits(n, w, unsigned) ==
  CASE w = 0    -> n = 0
    [] unsigned -> IF n < 0 THEN w >= DigitBits * Digits(n) ELSE n < 2^w
    [] OTHER    -> n >= -(2^(w-1)) /\ n < 2^(w-1)

\* Printing takes the digits off by division, and refuses a negative remainder.
HasNoText(n) == n < 0 /\ Wide(n)

Wrapped(n, w, unsigned) ==
  LET m == n % (2^w) IN IF ~unsigned /\ m >= 2^(w-1) THEN m - 2^w ELSE m

-----------------------------------------------------------------------------
(* Sums *)

\* The lesser magnitude is taken from the greater one digit by digit, until a
\* digit that neither the lesser one nor a borrow reaches: that is the last one
\* of the result, whatever the greater one has behind it.
Minus(b, s) ==
  LET digit(k) == (b \div Radix^k) % Radix
      borrow(k) == b % Radix^k < s % Radix^k
      last == CHOOSE k \in 1..Greater(1, Digits(b)) :
                /\ k >= Digits(s)
                /\ digit(k) # 0 \/ ~borrow(k)
                /\ \A j \in 1..(k - 1) : j < Digits(s) \/ (digit(j) = 0 /\ borrow(j))
  IN (b - s) % Radix^(last + 1)

Sum(x, y) ==
  LET p == Magnitude(x)
      q == Magnitude(y)
  IN CASE x = 0 \/ y = 0 \/ (x < 0) = (y < 0) \/ p = q -> x + y
       [] p > q   -> WithSign(x, Minus(p, q))
       [] OTHER   -> WithSign(y, Minus(q, p))

-----------------------------------------------------------------------------
(* Division.  Unless both have one digit, a quotient of 0 or 1 is written    *)
(* to where the remainder was to go, and the other way round: to NULL.       *)

DivCrashes(x, y) ==
  x # 0 /\ (Wide(x) \/ Wide(y)) /\ Magnitude(x) <= Magnitude(y)
Div(x, y) == IF y > 0 THEN x \div y ELSE (-x) \div (-y)

\* A divisor of the digits 0 and 1 has a case of its own.
RemCrashes(x, y) == DivCrashes(x, y) /\ Magnitude(y) # Radix
ModCrashes(x, y) ==
  \/ RemCrashes(x, y)
  \/ x < 0 /\ RemCrashes(Magnitude(y) - (Magnitude(x) % Magnitude(y)), y)
Mod(x, y) == x % Magnitude(y)

-----------------------------------------------------------------------------
(* Shifts.  An amount of more than one digit is an assertion. *)

ShlCrashes(x, y) == y < 0 \/ Wide(y)
ShlExhausts(x, y) == x # 0 /\ Digits(x) + y \div DigitBits + 1 > RoomDigits

\* A shift by nothing leaves the result as it was made: zero.  A digit that
\* is greater after the shift is taken, whatever was shifted out of it.
Shl(x, y) ==
  LET digit == (Magnitude(x) * 2^y) % Radix
  IN CASE x = 0 \/ y = 0 -> 0
       [] ~Wide(x) /\ y < DigitBits /\ digit > Magnitude(x) -> WithSign(x, digit)
       [] OTHER -> x * 2^y

\* A number of three digits that loses whole ones is shifted by 64 bits on the
\* way, which is undefined; constants have no more than two here.
ShrCrashes(x, y) == y < 0 \/ (x # 0 /\ Wide(y))
Shr(x, y) == IF y >= BitLength(x) THEN 0 ELSE WithSign(x, Magnitude(x) \div 2^y)

-----------------------------------------------------------------------------
(* Bits *)

BitAt(n, k) == (n \div 2^k) % 2
BitOf(op, a, b) ==
  CASE op = "&" -> a*b
    [] op = "|" -> a + b - a*b
    [] op = "^" -> (a + b) % 2
BitsOf(op, x, y, w) ==
  MapThenSumSet(LAMBDA k : BitOf(op, BitAt(x, k), BitAt(y, k)) * 2^k, 0..(w - 1))

BitsNeeded(n) == IF n < 0 THEN DigitBits * Digits(n) + 1 ELSE BitLength(n)

\* What two's complement of a width means; one is subtracted on the way.
Signed(z, w) == IF BitAt(z, w - 1) = 1 THEN Sum(z, -1) + 1 - 2^w ELSE z

\* What the bits of the result are when there is room.
BitwiseExact(op, x, y) ==
  LET w == Greater(BitLength(x), BitLength(y)) + 1
  IN Wrapped(BitsOf(op, x, y, w), w, FALSE)

\* In two's complement when there is a sign, in a width that has no room for
\* the sign of the greater number when that is positive.
Bitwise(op, x, y) ==
  LET w == Greater(BitsNeeded(x), BitsNeeded(y))
      z == BitsOf(op, x, y, w)
  IN IF x # 0 /\ y # 0 /\ (x < 0 \/ y < 0) THEN Signed(z, w) ELSE BitwiseExact(op, x, y)

\* Only the first digit is complemented.  Where a number has more of them, the
\* address of its digits is read instead of a digit, or none.
NotCrashes(n, unsigned) == unsigned /\ n < 0
Not(n, w, unsigned, address) ==
  CASE ~Wide(n) -> Wrapped(-1 - n, w, unsigned)
    [] unsigned -> address
    [] n < 0    -> -2
    [] OTHER    -> Wrapped(-1 - address, w, FALSE)
NotExact(n, w, unsigned) == Wrapped(-1 - n, w, unsigned)

-----------------------------------------------------------------------------
(* Floats, which are exact here *)

\* In pieces when the number does not fit into a digit.  The pieces of a
\* negative number are positive, and the rest of it is rounded towards zero.
AsDouble(n) ==
  LET piece == 2^FloatBits
      f[k \in Int] == IF k = 0 THEN 0 ELSE (k % piece) + piece * f[Truncated(k, piece)]
  IN IF FitsInBits(n, DigitBits, n >= 0) THEN n ELSE f[n]

\* (int64_t) of what does not fit, as x86 has it.
OfDouble(n, m) ==
  LET q == Truncated(n, m)
  IN IF FitsInBits(q, DigitBits, FALSE) THEN q ELSE -(2^(DigitBits-1))
=============================================================================
