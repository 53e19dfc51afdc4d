----------------------------- MODULE FpFormats -----------------------------
(***************************************************************************)
(* Two formats in one register file: conversions between single and double *)
(* (cvt_sf32_sf, cvt_sf64_sf32), the boxing of singles in the registers of *)
(* doubles, and the instructions of dromajo_fp_template.h that move values *)
(* between them.  N is the narrow format, W the wide one.                  *)
(***************************************************************************)
EXTENDS Integers

CONSTANTS NExpSize, NMantSize, WExpSize, WMantSize

N == INSTANCE SoftFp WITH EXP_SIZE <- NExpSize, MANT_SIZE <- NMantSize, ICVT_SIZE <- 8
W == INSTANCE SoftFp WITH EXP_SIZE <- WExpSize, MANT_SIZE <- WMantSize, ICVT_SIZE <- 8

\* As 52 >= 32 - 2, and doubles reach well below the singles
FormatsAssumption == WMantSize >= N!F_SIZE - 2 /\ WExpSize > NExpSize

VARIABLES reg,    \* a register of the wide format
          rm      \* the rounding mode in force
vars == <<reg, rm>>

NBias == N!EXP_MASK \div 2
WBias == W!EXP_MASK \div 2

-----------------------------------------------------------------------------
(* Conversions *)

\* A mutant: a subnormal keeps the exponent it had before its mantissa was moved.
WidenFault(a) ==
  IF N!IsNan(a) THEN [v |-> W!QNan, fl |-> N!NanOf({a}).fl]
  ELSE W!Is(IF N!IsInf(a) THEN W!Pack(N!Sign(a), W!EXP_MASK, 0)
            ELSE IF N!IsZero(a) THEN W!Pack(N!Sign(a), 0, 0)
            ELSE W!Pack(N!Sign(a), N!DExp(a) - NBias + WBias, N!NMant(a) * 2 ^ (WMantSize - NMantSize)))

\* cvt_sf32_sf
Widen(a) ==
  IF N!IsNan(a) THEN [v |-> W!QNan, fl |-> N!NanOf({a}).fl]
  ELSE W!Is(IF N!IsInf(a) THEN W!Pack(N!Sign(a), W!EXP_MASK, 0)
            ELSE IF N!IsZero(a) THEN W!Pack(N!Sign(a), 0, 0)
            ELSE W!Pack(N!Sign(a), N!NExp(a) - NBias + WBias, N!NMant(a) * 2 ^ (WMantSize - NMantSize)))

\* A mutant: what the narrow mantissa cannot hold is cut off before rounding.
NarrowFault(a, mode) ==
  LET m == W!DMant(a) \div 2 ^ (WMantSize - NMantSize + 1)
  IN IF W!IsNan(a) THEN [v |-> N!QNan, fl |-> W!NanOf({a}).fl]
     ELSE IF W!IsInf(a) THEN N!Is(N!Pack(W!Sign(a), N!EXP_MASK, 0))
     ELSE IF W!IsZero(a) THEN N!Is(N!Pack(W!Sign(a), 0, 0))
     ELSE N!Normalize(W!Sign(a), W!NExp(a) - WBias + NBias, m, mode)

\* cvt_sf64_sf32: the exponent of a subnormal is that of the moved mantissa, the mantissa is not moved.
Narrow(a, mode) ==
  LET m == W!RshiftRnd(W!DMant(a), WMantSize - (N!F_SIZE - 2))
  IN IF W!IsNan(a) THEN [v |-> N!QNan, fl |-> W!NanOf({a}).fl]
     ELSE IF W!IsInf(a) THEN N!Is(N!Pack(W!Sign(a), N!EXP_MASK, 0))
     ELSE IF W!IsZero(a) THEN N!Is(N!Pack(W!Sign(a), 0, 0))
     ELSE N!Normalize(W!Sign(a), W!NExp(a) - WBias + NBias, m, mode)

\* F32_HIGH: a single has all the bits above it set.
High == 2 ^ W!F_SIZE - 2 ^ N!F_SIZE
Box(v) == High + v
Unbox(r) == IF r >= High THEN r - High ELSE N!QNan

-----------------------------------------------------------------------------
(* Instructions *)

Init == reg \in W!Floats /\ rm \in W!Modes

CvtSD == reg' = Box(Narrow(reg, rm).v) /\ UNCHANGED rm

CvtDS == reg' = Widen(Unbox(reg)).v /\ UNCHANGED rm

\* fsgnj, fsgnjn and fsgnjx of a register with itself, on singles
Sgnj(neg) == LET v == Unbox(reg) IN reg' = Box(IF neg THEN N!Negate(v) ELSE v) /\ UNCHANGED rm
Sgnjx == reg' = Box(N!Abs(Unbox(reg))) /\ UNCHANGED rm

\* fmv.w.x takes the lower bits of an integer as they are.
MoveIn == reg' = Box(reg % 2 ^ N!F_SIZE) /\ UNCHANGED rm

Next == CvtSD \/ CvtDS \/ Sgnj(TRUE) \/ Sgnj(FALSE) \/ Sgnjx \/ MoveIn

Spec == Init /\ [][Next]_vars

-----------------------------------------------------------------------------
(* Properties *)

\* The wide number as a fraction of the reference, rounded to the narrow format
WNum(a) == W!DMant(a)
WPow(a) == W!DExp(a) - WBias - WMantSize
Rounded(a, mode) ==
  IF W!IsNan(a) THEN [v |-> N!QNan, fl |-> W!NanOf({a}).fl]
  ELSE IF W!IsInf(a) THEN N!Inf(W!Sign(a))
  ELSE IF W!IsZero(a) THEN N!Is(N!Zero(W!Sign(a)))
  ELSE N!Nearest(W!Sign(a), WNum(a), 1, WPow(a), mode)

(* A double converted to a single is rounded once in the mode asked for,    *)
(* with the flags of the standard, also where both are subnormal and where  *)
(* the result underflows to zero (cvt_sf64_sf32).                           *)
NarrowExact == Narrow(reg, rm) = Rounded(reg, rm)

(* A single read from a register, widened and converted back, is itself and *)
(* raises nothing: widening loses no value, and no rounding mode moves it.  *)
(* A register that holds no boxed single reads as the one quiet NaN.        *)
RoundTrip ==
  LET v == Unbox(reg)
  IN /\ Narrow(Widen(v).v, rm).v = (IF N!IsNan(v) THEN N!QNan ELSE v)
     /\ Narrow(Widen(v).v, rm).fl = {}
=============================================================================
