------------------------------- MODULE SoftFp -------------------------------
(***************************************************************************)
(* The floating-point library, softfp_template.h and its integer           *)
(* conversions, for a format of EXP_SIZE exponent and MANT_SIZE mantissa   *)
(* bits.  The template is written for any format and the relations between *)
(* its sizes are kept; only the two numbers are small.  A float is its bit *)
(* pattern, an operation gives a value and the flags it raises.            *)
(***************************************************************************)
EXTENDS Integers, FiniteSets

CONSTANTS
  EXP_SIZE, MANT_SIZE,
  ICVT_SIZE      \* bits of the integers converted to and from

SoftFpAssumption == EXP_SIZE \in 5..8 /\ MANT_SIZE \in 2..8 /\ ICVT_SIZE \in 2..16

F_SIZE == 1 + EXP_SIZE + MANT_SIZE
EXP_MASK == 2 ^ EXP_SIZE - 1
IMANT_SIZE == F_SIZE - 2
RND_SIZE == IMANT_SIZE - MANT_SIZE
Modes == {"RNE", "RTZ", "RDN", "RUP", "RMM"}
Floats == 0..(2 ^ F_SIZE - 1)

Sign(a) == a \div 2 ^ (F_SIZE - 1)
Exp(a) == (a \div 2 ^ MANT_SIZE) % (EXP_MASK + 1)
Mant(a) == a % 2 ^ MANT_SIZE
Abs(a) == a % 2 ^ (F_SIZE - 1)
Pack(s, e, m) == s * 2 ^ (F_SIZE - 1) + e * 2 ^ MANT_SIZE + (m % 2 ^ MANT_SIZE)
QNan == Pack(0, EXP_MASK, 2 ^ (MANT_SIZE - 1))
IsNan(a) == Exp(a) = EXP_MASK /\ Mant(a) # 0
IsInf(a) == Exp(a) = EXP_MASK /\ Mant(a) = 0
IsZero(a) == Abs(a) = 0
IsSigNan(a) == IsNan(a) /\ Mant(a) < 2 ^ (MANT_SIZE - 1)
Negate(a) == IF Sign(a) = 0 THEN a + 2 ^ (F_SIZE - 1) ELSE a - 2 ^ (F_SIZE - 1)

Is(v) == [v |-> v, fl |-> {}]
Invalid(v) == [v |-> v, fl |-> {"NV"}]
NanOf(args) == IF \E x \in args : IsSigNan(x) THEN Invalid(QNan) ELSE Is(QNan)

-----------------------------------------------------------------------------
(* Rounding *)

Bits(a) == CHOOSE n \in 0..(4 * F_SIZE) : a < 2 ^ n /\ (n = 0 \/ a >= 2 ^ (n - 1))

\* The lowest bit remembers that something was shifted out.
Sticky(a, lost) == IF lost /\ a % 2 = 0 THEN a + 1 ELSE a

\* A mutant: what is shifted out is forgotten.
RshiftRndFault(a, d) == IF d >= F_SIZE THEN 0 ELSE a \div 2 ^ d

RshiftRnd(a, d) == IF d >= F_SIZE THEN (IF a # 0 THEN 1 ELSE 0) ELSE Sticky(a \div 2 ^ d, a % 2 ^ d # 0)

Addend(s, rm) ==
  CASE rm \in {"RNE", "RMM"} -> 2 ^ (RND_SIZE - 1)
    [] rm = "RTZ"            -> 0
    [] OTHER                 -> IF (s = 1) = (rm = "RDN") THEN 2 ^ RND_SIZE - 1 ELSE 0

Half == 2 ^ (RND_SIZE - 1)
Rounded(mant, s, rm) ==
  LET r == (mant + Addend(s, rm)) \div 2 ^ RND_SIZE
  IN IF rm = "RNE" /\ mant % 2 ^ RND_SIZE = Half THEN r - (r % 2) ELSE r

\* round_pack_sf; the mantissa has its leading bit at IMANT_SIZE
RoundPack(s, e, mant, rm) ==
  LET subnormal == e < 0 \/ (e = 0 /\ mant + Addend(s, rm) < 2 ^ (F_SIZE - 1))
      m == IF e <= 0 THEN RshiftRnd(mant, 1 - e) ELSE mant
      inexact == m % 2 ^ RND_SIZE # 0
      k == Rounded(m, s, rm)
      ex == (IF e <= 0 THEN 1 ELSE e) + (k \div 2 ^ (MANT_SIZE + 1))
      fl == (IF inexact THEN {"NX"} ELSE {}) \cup (IF e <= 0 /\ subnormal /\ inexact THEN {"UF"} ELSE {})
  IN IF k < 2 ^ MANT_SIZE THEN [v |-> Pack(s, 0, k), fl |-> fl]
     ELSE IF k >= 2 ^ MANT_SIZE /\ ex >= EXP_MASK THEN
            [v |-> IF Addend(s, rm) = 0 THEN Pack(s, EXP_MASK - 1, 2 ^ MANT_SIZE - 1) ELSE Pack(s, EXP_MASK, 0),
             fl |-> fl \cup {"OF", "NX"}]
     ELSE [v |-> Pack(s, ex, k), fl |-> fl]

\* normalize_sf, and normalize2_sf with the two words of the mantissa as one number
NormalizeTo(size, s, e, mant, rm) ==
  LET shift == size - Bits(mant) - 1
      m == mant * 2 ^ shift
      low == 2 ^ (size - F_SIZE)
  IN RoundPack(s, e - shift, Sticky(m \div low, m % low # 0), rm)
Normalize(s, e, mant, rm)  == NormalizeTo(F_SIZE, s, e, mant, rm)
Normalize2(s, e, mant, rm) == NormalizeTo(2 * F_SIZE, s, e, mant, rm)

\* The mantissa with its leading bit, and the exponent, of a number that is not zero: normalize_subnormal_sf
Shift0(a) == MANT_SIZE + 1 - Bits(Mant(a))
NMant(a) == IF Exp(a) = 0 THEN Mant(a) * 2 ^ Shift0(a) ELSE Mant(a) + 2 ^ MANT_SIZE
NExp(a)  == IF Exp(a) = 0 THEN 1 - Shift0(a) ELSE Exp(a)

\* The same without moving a subnormal mantissa.
DMant(a) == IF Exp(a) = 0 THEN Mant(a) ELSE Mant(a) + 2 ^ MANT_SIZE
DExp(a)  == IF Exp(a) = 0 THEN 1 ELSE Exp(a)

-----------------------------------------------------------------------------
(* Operations *)

AddOrdered(a, b, rm) ==
  LET ma == 8 * DMant(a)
      mb == RshiftRnd(8 * DMant(b), DExp(a) - DExp(b))
      same == Sign(a) = Sign(b)
      m == IF same THEN ma + mb ELSE ma - mb
      s == IF ~same /\ m = 0 THEN (IF rm = "RDN" THEN 1 ELSE 0) ELSE Sign(a)
  IN IF IsNan(a) THEN NanOf({a, b})
     ELSE IF IsInf(a) THEN IF Exp(b) = EXP_MASK /\ ~same THEN Invalid(QNan) ELSE Is(a)
     ELSE Normalize(s, DExp(a) + RND_SIZE - 3, m, rm)

AddSf(a, b, rm) == IF Abs(a) < Abs(b) THEN AddOrdered(b, a, rm) ELSE AddOrdered(a, b, rm)
SubSf(a, b, rm) == AddSf(a, Negate(b), rm)

Xor(a, b) == IF Sign(a) = Sign(b) THEN 0 ELSE 1
Bias1 == 2 ^ (EXP_SIZE - 1)

MulSf(a, b, rm) ==
  LET s == Xor(a, b)
      p == NMant(a) * 2 ^ RND_SIZE * NMant(b) * 2 ^ (RND_SIZE + 1)
  IN IF IsNan(a) \/ IsNan(b) THEN NanOf({a, b})
     ELSE IF IsInf(a) \/ IsInf(b) THEN IF IsZero(a) \/ IsZero(b) THEN Invalid(QNan) ELSE Is(Pack(s, EXP_MASK, 0))
     ELSE IF IsZero(a) \/ IsZero(b) THEN Is(Pack(s, 0, 0))
     ELSE Normalize(s, NExp(a) + NExp(b) - Bias1 + 2, Sticky(p \div 2 ^ F_SIZE, p % 2 ^ F_SIZE # 0), rm)

\* A mutant: the quotient forgets its remainder.
DivSfFault(a, b, rm) ==
  LET s == Xor(a, b)
  IN IF IsNan(a) \/ IsNan(b) THEN NanOf({a, b})
     ELSE IF IsInf(a) THEN IF IsInf(b) THEN Invalid(QNan) ELSE Is(Pack(s, EXP_MASK, 0))
     ELSE IF IsInf(b) THEN Is(Pack(s, 0, 0))
     ELSE IF IsZero(b) THEN IF IsZero(a) THEN Invalid(QNan) ELSE [v |-> Pack(s, EXP_MASK, 0), fl |-> {"DZ"}]
     ELSE IF IsZero(a) THEN Is(Pack(s, 0, 0))
     ELSE Normalize(s, NExp(a) - NExp(b) + Bias1 - 1, (NMant(a) * 2 ^ F_SIZE) \div (NMant(b) * 4), rm)

DivSf(a, b, rm) ==
  LET s == Xor(a, b)
      n == NMant(a) * 2 ^ F_SIZE
      d == NMant(b) * 4
  IN IF IsNan(a) \/ IsNan(b) THEN NanOf({a, b})
     ELSE IF IsInf(a) THEN IF IsInf(b) THEN Invalid(QNan) ELSE Is(Pack(s, EXP_MASK, 0))
     ELSE IF IsInf(b) THEN Is(Pack(s, 0, 0))
     ELSE IF IsZero(b) THEN IF IsZero(a) THEN Invalid(QNan) ELSE [v |-> Pack(s, EXP_MASK, 0), fl |-> {"DZ"}]
     ELSE IF IsZero(a) THEN Is(Pack(s, 0, 0))
     ELSE Normalize(s, NExp(a) - NExp(b) + Bias1 - 1, Sticky(n \div d, n % d # 0), rm)

\* sqrtrem_u: Newton's iteration from above, written as a recursive function
Newton(n) == LET it[u \in 1..n] == LET v == ((n \div u) + u) \div 2 IN IF v >= u THEN u ELSE it[v] IN it
SqrtRem(n) == Newton(n)[2 ^ ((Bits(n - 1) + 1) \div 2)]

SqrtSf(a, rm) ==
  LET e == NExp(a) - (EXP_MASK \div 2)
      odd == e % 2
      n == NMant(a) * 2 ^ (odd + F_SIZE - 4 - MANT_SIZE) * 2 ^ F_SIZE
      r == SqrtRem(n)
  IN IF IsNan(a) THEN NanOf({a})
     ELSE IF IsZero(a) THEN Is(a)
     ELSE IF Sign(a) = 1 THEN Invalid(QNan)
     ELSE IF IsInf(a) THEN Is(a)
     ELSE Normalize(0, ((e - odd) \div 2) + (EXP_MASK \div 2), Sticky(r, r * r # n), rm)

\* The addend, of two words, moved right by d bits
Aligned(c, d) ==
  LET hi == c \div 2 ^ F_SIZE
      lo == c % 2 ^ F_SIZE
  IN IF d >= 2 * F_SIZE THEN IF c # 0 THEN 1 ELSE 0
     ELSE IF d > F_SIZE /\ d < 2 * F_SIZE THEN RshiftRnd(hi, d - F_SIZE)
     ELSE IF d = F_SIZE THEN Sticky(hi, lo # 0)
     ELSE Sticky(c \div 2 ^ d, lo % 2 ^ d # 0)

\* A mutant: an exact zero keeps the sign of the product.
FmaAddFault(x, y, rm) ==
  LET c == Aligned(y.m, x.e - y.e)
  IN Normalize2(x.s, x.e, IF x.s = y.s THEN x.m + c ELSE x.m - c, rm)

\* x + y of numbers [s, e, m] with mantissas of two words, x the larger
FmaAdd(x, y, rm) ==
  LET c == Aligned(y.m, x.e - y.e)
      m == IF x.s = y.s THEN x.m + c ELSE x.m - c
      s == IF x.s # y.s /\ m = 0 THEN (IF rm = "RDN" THEN 1 ELSE 0) ELSE x.s
  IN Normalize2(s, x.e, m, rm)

FmaProduct(a, b) ==
  LET p == NMant(a) * NMant(b) * 2 ^ (2 * RND_SIZE)
      e == NExp(a) + NExp(b) - Bias1 + 3
      low == p < 2 ^ (2 * F_SIZE - 3)
  IN [s |-> Xor(a, b), m |-> IF low THEN 2 * p ELSE p, e |-> IF low THEN e - 1 ELSE e]

Larger(r, d) == r.e > d.e \/ (r.e = d.e /\ r.m \div 2 ^ F_SIZE >= d.m \div 2 ^ F_SIZE)

FmaSf(a, b, c, rm) ==
  LET s == Xor(a, b)
      r == FmaProduct(a, b)
      d == [s |-> Sign(c), e |-> NExp(c) + 1, m |-> NMant(c) * 2 ^ (RND_SIZE - 1) * 2 ^ F_SIZE]
  IN IF (IsZero(a) /\ IsInf(b)) \/ (IsZero(b) /\ IsInf(a)) THEN Invalid(QNan)
     ELSE IF IsNan(a) \/ IsNan(b) \/ IsNan(c) THEN NanOf({a, b, c})
     ELSE IF (IsInf(a) \/ IsInf(b)) /\ IsInf(c) /\ s # Sign(c) THEN Invalid(QNan)
     ELSE IF IsInf(c) THEN Is(c)
     ELSE IF IsInf(a) \/ IsInf(b) THEN Is(Pack(s, EXP_MASK, 0))
     ELSE IF IsZero(a) \/ IsZero(b) THEN
            IF ~IsZero(c) THEN Is(c)
            ELSE Is(Pack(IF s # Sign(c) THEN (IF rm = "RDN" THEN 1 ELSE 0) ELSE s, 0, 0))
     ELSE IF IsZero(c) THEN Normalize(s, r.e, Sticky(r.m \div 2 ^ F_SIZE, r.m % 2 ^ F_SIZE # 0), rm)
     ELSE IF Larger(r, d) THEN FmaAdd(r, d, rm) ELSE FmaAdd(d, r, rm)
-----------------------------------------------------------------------------
(* Comparisons *)

NanFlags(a, b) == IF IsSigNan(a) \/ IsSigNan(b) THEN {"NV"} ELSE {}

\* Whether a has the smaller place in the order that puts -0 before +0
Before(a, b) == IF Sign(a) # Sign(b) THEN Sign(a) = 1 ELSE (a < b) # (Sign(a) = 1)

MinMax(a, b, least) ==
  [fl |-> NanFlags(a, b),
   v |-> IF IsNan(a) THEN (IF IsNan(b) THEN QNan ELSE b)
         ELSE IF IsNan(b) THEN a
         ELSE IF Before(a, b) = least THEN a ELSE b]
MinSf(a, b) == MinMax(a, b, TRUE)
MaxSf(a, b) == MinMax(a, b, FALSE)

Bit(p) == IF p THEN 1 ELSE 0
BothZero(a, b) == IsZero(a) /\ IsZero(b)

EqQuiet(a, b) == [fl |-> NanFlags(a, b),
                  v |-> Bit(~IsNan(a) /\ ~IsNan(b) /\ (BothZero(a, b) \/ a = b))]

\* A mutant: zeroes of two signs are ordered.
LeSfFault(a, b) ==
  IF IsNan(a) \/ IsNan(b) THEN Invalid(0)
  ELSE Is(Bit(IF Sign(a) # Sign(b) THEN Sign(a) = 1
              ELSE IF Sign(a) = 1 THEN a >= b ELSE a <= b))

LeSf(a, b) ==
  IF IsNan(a) \/ IsNan(b) THEN Invalid(0)
  ELSE Is(Bit(IF Sign(a) # Sign(b) THEN Sign(a) = 1 \/ BothZero(a, b)
              ELSE IF Sign(a) = 1 THEN a >= b ELSE a <= b))
LtSf(a, b) ==
  IF IsNan(a) \/ IsNan(b) THEN Invalid(0)
  ELSE Is(Bit(IF Sign(a) # Sign(b) THEN Sign(a) = 1 /\ ~BothZero(a, b)
              ELSE IF Sign(a) = 1 THEN a > b ELSE a < b))

-----------------------------------------------------------------------------
(* Conversions to and from integers of ICVT_SIZE bits, as two's complement patterns *)

Limit(s, unsigned) ==
  IF unsigned THEN (IF s = 1 THEN 0 ELSE 2 ^ ICVT_SIZE - 1) ELSE 2 ^ (ICVT_SIZE - 1) - (1 - s)

\* The value returned on overflow is a pattern: the lowest integer has the pattern of its magnitude.
SfToInt(a, rm, unsigned) ==
  LET s == IF IsNan(a) THEN 0 ELSE Sign(a)
      mant == DMant(a)
      e == DExp(a) - (EXP_MASK \div 2) - MANT_SIZE
      m == RshiftRnd(mant * 2 ^ RND_SIZE, -e)
      max == Limit(s, unsigned)
      r == IF e >= 0 THEN mant * 2 ^ e ELSE Rounded(m, s, rm)
  IN IF e > ICVT_SIZE - 1 - MANT_SIZE /\ e >= 0 THEN Invalid(max)
     ELSE IF r > max THEN Invalid(max)
     ELSE [v |-> IF s = 1 THEN (2 ^ ICVT_SIZE - r) % 2 ^ ICVT_SIZE ELSE r,
           fl |-> IF e < 0 /\ m % 2 ^ RND_SIZE # 0 THEN {"NX"} ELSE {}]

IntToSf(i, rm, unsigned) ==
  LET neg == ~unsigned /\ i >= 2 ^ (ICVT_SIZE - 1)
      r == IF neg THEN 2 ^ ICVT_SIZE - i ELSE i
      l == Bits(r) - (F_SIZE - 1)
      e == (EXP_MASK \div 2) + F_SIZE - 2
  IN IF l > 0 THEN Normalize(Bit(neg), e + l, Sticky(r \div 2 ^ l, r % 2 ^ l # 0), rm)
     ELSE Normalize(Bit(neg), e, r, rm)
-----------------------------------------------------------------------------
(* The reference: what the operations should give, the exact result as a    *)
(* fraction, rounded once.  It divides and compares exact integers and      *)
(* shares nothing with the library but the format.                          *)

\* A finite number is a fraction n / d times 2^e.
Larg(p, q) == IF p > q THEN p ELSE q
Bias == EXP_MASK \div 2
MinQ == 1 - Bias - MANT_SIZE        \* the exponent of the smallest positive number

\* The greatest k with 2^k <= n / d
FloorLog(n, d) ==
  IF n >= d THEN CHOOSE k \in 0..30 : d * 2 ^ k <= n /\ n < d * 2 ^ (k + 1)
  ELSE -(CHOOSE k \in 1..20 : d <= n * 2 ^ k /\ n * 2 ^ (k - 1) < d)

\* Whether a fraction r / d of the last place, after k places, is rounded away from zero
RoundsUp(s, k, r, d, rm) ==
  CASE rm = "RNE" -> 2 * r > d \/ (2 * r = d /\ k % 2 = 1)
    [] rm = "RMM" -> 2 * r >= d
    [] rm = "RTZ" -> FALSE
    [] rm = "RDN" -> s = 1 /\ r # 0
    [] rm = "RUP" -> s = 0 /\ r # 0

\* n / d * 2^e in units of 2^q: the integer it is rounded to, and whether exactly
InUnits(s, n, d, e, q, rm) ==
  LET num == IF e >= q THEN n * 2 ^ (e - q) ELSE n
      den == IF e >= q THEN d ELSE d * 2 ^ (IF q - e > 26 THEN 26 ELSE q - e)   \* no further place matters
      k == num \div den
      r == num % den
  IN [k |-> IF RoundsUp(s, k, r, den, rm) THEN k + 1 ELSE k, exact |-> r = 0]

\* Rounding a fraction to the format; tininess is judged after rounding to its precision.
Nearest(s, n, d, e, rm) ==
  LET top == FloorLog(n, d) + e
      q == Larg(top - MANT_SIZE, MinQ)
      r == InUnits(s, n, d, e, q, rm)
      free == InUnits(s, n, d, e, top - MANT_SIZE, rm)
      tiny == top < -Bias \/ (top = -Bias /\ free.k < 2 ^ (MANT_SIZE + 1))
      carry == r.k = 2 ^ (MANT_SIZE + 1)
      ex == q - MinQ + 1 + Bit(carry)
      up == rm \in {"RNE", "RMM"} \/ rm = (IF s = 1 THEN "RDN" ELSE "RUP")
  IN IF r.k < 2 ^ MANT_SIZE
     THEN [v |-> Pack(s, 0, r.k), fl |-> IF r.exact THEN {} ELSE {"NX", "UF"}]
     ELSE IF ex >= EXP_MASK
     THEN [v |-> IF up THEN Pack(s, EXP_MASK, 0) ELSE Pack(s, EXP_MASK - 1, 2 ^ MANT_SIZE - 1), fl |-> {"OF", "NX"}]
     ELSE [v |-> Pack(s, ex, IF carry THEN 0 ELSE r.k),
           fl |-> IF r.exact THEN {} ELSE IF tiny THEN {"NX", "UF"} ELSE {"NX"}]

\* A finite float is Num(a) * 2^Pow(a).
Num(a) == IF Exp(a) = 0 THEN Mant(a) ELSE 2 ^ MANT_SIZE + Mant(a)
Pow(a) == Larg(Exp(a), 1) - Bias - MANT_SIZE

Signed(s, n) == IF s = 1 THEN -n ELSE n
Inf(s) == Is(Pack(s, EXP_MASK, 0))
AnyNan(args) == \E x \in args : IsNan(x)

\* The sum of x * 2^e and y * 2^f as <<integer, exponent>>.  What lies more than 20 places below
\* the other cannot be told from a unit there.
Far(x) == IF x > 0 THEN 1 ELSE IF x < 0 THEN -1 ELSE 0
Sum(x, e, y, f) ==
  IF y = 0 THEN <<x, e>> ELSE IF x = 0 THEN <<y, f>>
  ELSE IF e - f > 20 THEN <<x * 2 ^ 20 + Far(y), e - 20>>
  ELSE IF f - e > 20 THEN <<y * 2 ^ 20 + Far(x), f - 20>>
  ELSE IF e >= f THEN <<x * 2 ^ (e - f) + y, f>> ELSE <<x + y * 2 ^ (f - e), e>>

RefFma(a, b, c, rm) ==
  LET s == Xor(a, b)
      sum == Sum(Signed(s, Num(a) * Num(b)), Pow(a) + Pow(b), Signed(Sign(c), Num(c)), Pow(c))
      x == sum[1]
      inf == IsInf(a) \/ IsInf(b)
  IN IF (IsInf(a) /\ IsZero(b)) \/ (IsInf(b) /\ IsZero(a)) THEN Invalid(QNan)
     ELSE IF AnyNan({a, b, c}) THEN NanOf({a, b, c})
     ELSE IF inf /\ IsInf(c) /\ s # Sign(c) THEN Invalid(QNan)
     ELSE IF inf THEN Inf(s) ELSE IF IsInf(c) THEN Inf(Sign(c))
     ELSE IF x = 0 THEN Is(Pack(IF s = Sign(c) THEN s ELSE Bit(rm = "RDN"), 0, 0))
     ELSE Nearest(Bit(x < 0), IF x < 0 THEN -x ELSE x, 1, sum[2], rm)

One == Pack(0, Bias, 0)
Zero(s) == Pack(s, 0, 0)

RefDiv(a, b, rm) ==
  LET s == Xor(a, b)
  IN IF AnyNan({a, b}) THEN NanOf({a, b})
     ELSE IF (IsInf(a) /\ IsInf(b)) \/ (IsZero(a) /\ IsZero(b)) THEN Invalid(QNan)
     ELSE IF IsInf(a) THEN Inf(s) ELSE IF IsInf(b) \/ IsZero(a) THEN Is(Zero(s))
     ELSE IF IsZero(b) THEN [v |-> Pack(s, EXP_MASK, 0), fl |-> {"DZ"}]
     ELSE Nearest(s, Num(a), Num(b), Pow(a) - Pow(b), rm)

\* The root of n * 2^e with e even, taken to 8 more places with the rest marked
RefSqrt(a, rm) ==
  LET e == Pow(a) - (Pow(a) % 2)
      n == Num(a) * 2 ^ (Pow(a) % 2) * 2 ^ 16
      k == CHOOSE i \in 0..2 ^ 12 : i * i <= n /\ (i + 1) * (i + 1) > n
      x == IF k * k = n THEN 2 * k ELSE 2 * k + 1
  IN IF AnyNan({a}) THEN NanOf({a})
     ELSE IF IsZero(a) THEN Is(a)
     ELSE IF Sign(a) = 1 THEN Invalid(QNan)
     ELSE IF IsInf(a) THEN Is(a)
     ELSE Nearest(0, x, 1, (e \div 2) - 9, rm)

\* The place of a float among the numbers, with -0 and +0 at the same
Place(a) == Signed(Sign(a), Abs(a))
RefOrder(op, a, b) ==
  LET nan == AnyNan({a, b})
      number == IF IsNan(a) THEN b ELSE a
      first == Place(a) < Place(b) \/ (Place(a) = Place(b) /\ Sign(a) = 1)
  IN CASE op = "eq" -> [v |-> Bit(~nan /\ Place(a) = Place(b)), fl |-> NanOf({a, b}).fl]
       [] op = "le" -> IF nan THEN Invalid(0) ELSE Is(Bit(Place(a) <= Place(b)))
       [] op = "lt" -> IF nan THEN Invalid(0) ELSE Is(Bit(Place(a) < Place(b)))
       [] OTHER -> [v |-> IF nan THEN (IF IsNan(number) THEN QNan ELSE number)
                          ELSE IF first = (op = "min") THEN a ELSE b,
                    fl |-> NanOf({a, b}).fl]

\* An integer rounded from n * 2^e and clamped to a range
RefToInt(a, rm, lo, hi) ==
  LET r == InUnits(Sign(a), Num(a), 1, Pow(a), 0, rm)
      k == Signed(Sign(a), r.k)
      clamped == IF IsNan(a) \/ Sign(a) = 0 THEN hi ELSE lo
  IN IF AnyNan({a}) \/ IsInf(a) THEN Invalid(clamped % 2 ^ ICVT_SIZE)
     ELSE IF k < lo \/ k > hi THEN Invalid(clamped % 2 ^ ICVT_SIZE)
     ELSE [v |-> k % 2 ^ ICVT_SIZE, fl |-> IF r.exact THEN {} ELSE {"NX"}]

RefFromInt(i, rm) ==
  IF i = 0 THEN Is(0) ELSE Nearest(Bit(i < 0), IF i < 0 THEN -i ELSE i, 1, 0, rm)

TwosComplement(i) == IF i >= 2 ^ (ICVT_SIZE - 1) THEN i - 2 ^ ICVT_SIZE ELSE i

Reference(op, a, b, c, rm) ==
  CASE op = "add" -> RefFma(a, One, b, rm)
    [] op = "sub" -> RefFma(Negate(One), b, a, rm)
    [] op = "mul" -> RefFma(a, b, Zero(Xor(a, b)), rm)
    [] op = "fma" -> RefFma(a, b, c, rm)
    [] op = "div" -> RefDiv(a, b, rm)
    [] op = "sqrt" -> RefSqrt(a, rm)
    [] op = "to_int" -> RefToInt(a, rm, -2 ^ (ICVT_SIZE - 1), 2 ^ (ICVT_SIZE - 1) - 1)
    [] op = "to_uint" -> RefToInt(a, rm, 0, 2 ^ ICVT_SIZE - 1)
    [] op = "from_int" -> RefFromInt(TwosComplement(b), rm)
    [] op = "from_uint" -> RefFromInt(b, rm)
    [] OTHER -> RefOrder(op, a, b)
=============================================================================
