------------------------------ MODULE FpArith ------------------------------
(***************************************************************************)
(* The floating-point operations of an instruction against the standard:   *)
(* the exact result, rounded once, with the flags of IEEE 754 as RISC-V    *)
(* fixes them, as Reference defines it.                                    *)
(***************************************************************************)
EXTENDS SoftFp

CONSTANTS Ops, As, Bs, Cs     \* operations, and the patterns of their operands

Near(exps) == {x \in Floats : Exp(x) \in exps}
Edges == Near({0, 1, 2, 14, 15, 16, 29, 30, 31})     \* subnormals, around 1, and the largest
Corners == Near({0, 1, 15, 30, 31})
Integers1 == 0..(2 ^ ICVT_SIZE - 1)
Only0 == {0}

VARIABLES in, out
vars == <<in, out>>

\* The instructions of dromajo_fp_template.h
Result(op, a, b, c, rm) ==
  CASE op = "add" -> AddSf(a, b, rm)
    [] op = "sub" -> SubSf(a, b, rm)
    [] op = "mul" -> MulSf(a, b, rm)
    [] op = "div" -> DivSf(a, b, rm)
    [] op = "fma" -> FmaSf(a, b, c, rm)
    [] op = "sqrt" -> SqrtSf(a, rm)
    [] op = "min" -> MinSf(a, b)
    [] op = "max" -> MaxSf(a, b)
    [] op = "eq" -> EqQuiet(a, b)
    [] op = "le" -> LeSf(a, b)
    [] op = "lt" -> LtSf(a, b)
    [] op = "to_int" -> SfToInt(a, rm, FALSE)
    [] op = "to_uint" -> SfToInt(a, rm, TRUE)
    [] op = "from_int" -> IntToSf(b, rm, FALSE)
    [] op = "from_uint" -> IntToSf(b, rm, TRUE)

Unary == {"sqrt", "to_int", "to_uint"}
Integral == {"from_int", "from_uint"}
Ordering == {"min", "max", "eq", "le", "lt"}
Arithmetic == {"add", "sub", "mul", "div", "fma", "sqrt"}

\* An operand or a mode an operation does not look at is not varied.
Init == /\ \E op \in Ops :
             \E a \in IF op \in Integral THEN {0} ELSE As, b \in IF op \in Unary THEN {0} ELSE Bs,
                c \in IF op = "fma" THEN Cs ELSE {0}, rm \in IF op \in Ordering THEN {"RNE"} ELSE Modes :
               in = [op |-> op, a |-> a, b |-> b, c |-> c, rm |-> rm]
        /\ out = Is(-1)

Execute == out' = Result(in.op, in.a, in.b, in.c, in.rm) /\ UNCHANGED in

Spec == Init /\ [][Execute]_vars

-----------------------------------------------------------------------------
(* Properties *)

Done(ops) == out.v # -1 /\ in.op \in ops
Standard == Reference(in.op, in.a, in.b, in.c, in.rm)

(* Every arithmetic result is the exact one rounded once in the mode asked  *)
(* for, subnormals, overflow, zeroes with their signs and NaNs included     *)
(* (add_sf, mul_sf, div_sf, fma_sf, sqrt_sf, round_pack_sf).                *)
CorrectlyRounded == Done(Arithmetic) => out.v = Standard.v

(* ... and raises exactly the flags of the standard, with underflow judged  *)
(* after rounding.                                                          *)
FlagsExact == Done(Arithmetic) => out.fl = Standard.fl

(* Minimum, maximum and the comparisons agree with the order of the numbers *)
(* for zeroes of both signs and for quiet and signalling NaNs.              *)
OrderExact == Done(Ordering) => out = Standard

(* Conversions to integers round, then clamp and say so; conversions from   *)
(* integers round once also where the integer has more bits than a float.   *)
ConversionsExact == Done(Integral \cup {"to_int", "to_uint"}) => out = Standard
=============================================================================
