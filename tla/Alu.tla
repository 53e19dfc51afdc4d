-------------------------------- MODULE Alu --------------------------------
(***************************************************************************)
(* The integer instructions of dromajo_template.h (OP, OP-IMM, OP-32,      *)
(* OP-IMM-32, branches, atomic operations) for registers of XLEN bits with *)
(* words of W bits, for 64 and 32.  A register is the number its bits      *)
(* stand for, unsigned.  A signed overflow of C wraps, as the compilers    *)
(* of the repository's build do it.                                        *)
(***************************************************************************)
EXTENDS Integers

CONSTANTS
  XLEN, W,       \* bits of a register and of a word, powers of two
  IMM,           \* bits of an immediate
  Bs             \* the second operands tried

AluAssumption == XLEN = 2 * W /\ IMM > 3 /\ Bs \subseteq 0..(2 ^ XLEN - 1)

Regs == 0..(2 ^ XLEN - 1)
Imms == -(2 ^ (IMM - 1))..(2 ^ (IMM - 1) - 1)
Illegal == -1

S(v, n) == IF v % 2 ^ n >= 2 ^ (n - 1) THEN (v % 2 ^ n) - 2 ^ n ELSE v % 2 ^ n     \* (intN_t)v
U(v, n) == v % 2 ^ n                                                              \* (uintN_t)v
X(v) == U(v, XLEN)
Int32(v) == X(S(v, W))                                                            \* (int32_t)v in a register
Flag(p) == IF p THEN 1 ELSE 0

\* a & b, bit by bit; a bit of a | b or of a ^ b is the sum of the two less those of a & b
And(x, y) ==
  LET bits[n \in 0..XLEN] ==
        IF n = 0 THEN 0
        ELSE bits[n - 1] + 2 ^ (n - 1) * ((x \div 2 ^ (n - 1)) % 2) * ((y \div 2 ^ (n - 1)) % 2)
  IN bits[XLEN]
Or(x, y) == x + y - And(x, y)
Xor(x, y) == x + y - 2 * And(x, y)

Magnitude(x) == IF x < 0 THEN -x ELSE x

\* a / b and a % b of C
Quo(a, b) == LET q == Magnitude(a) \div Magnitude(b) IN IF (a < 0) = (b < 0) THEN q ELSE -q
Mod(a, b) == a - b * Quo(a, b)

VARIABLES op, a, b, rd
vars == <<op, a, b, rd>>

-----------------------------------------------------------------------------
(* Multiplication and division, of n bits *)

\* A mutant: the overflow of the lowest number by -1 gives remainder -1.
RemFault(x, y, n) ==
  IF y = 0 THEN x ELSE IF x = -(2 ^ (n - 1)) /\ y = -1 THEN -1 ELSE Mod(x, y)

Div(x, y, n)  == IF y = 0 THEN -1 ELSE IF x = -(2 ^ (n - 1)) /\ y = -1 THEN x ELSE Quo(x, y)
Rem(x, y, n)  == IF y = 0 THEN x ELSE IF x = -(2 ^ (n - 1)) /\ y = -1 THEN 0 ELSE Mod(x, y)
Divu(x, y, n) == IF y = 0 THEN 2 ^ n - 1 ELSE x \div y
Remu(x, y, n) == IF y = 0 THEN x ELSE x % y

\* A mutant: both factors are taken as unsigned.
HighFault(x, y) == U(S(U(x, XLEN) * U(y, XLEN), 2 * XLEN) \div 2 ^ XLEN, XLEN)

\* ((int128_t)a * (int128_t)b) >> 64
High(x, y) == U(S(x * y, 2 * XLEN) \div 2 ^ XLEN, XLEN)

-----------------------------------------------------------------------------
(* The instructions; x and y are registers *)

OpMul(f, x, y) ==
  CASE f = "mul"    -> X(S(x, XLEN) * S(y, XLEN))
    [] f = "mulh"   -> High(S(x, XLEN), S(y, XLEN))
    [] f = "mulhsu" -> High(S(x, XLEN), y)
    [] f = "mulhu"  -> High(x, y)
    [] f = "div"    -> X(Div(S(x, XLEN), S(y, XLEN), XLEN))
    [] f = "divu"   -> Divu(x, y, XLEN)
    [] f = "rem"    -> X(Rem(S(x, XLEN), S(y, XLEN), XLEN))
    [] f = "remu"   -> Remu(x, y, XLEN)

Sh(y) == y % XLEN
Op(f, x, y) ==
  CASE f = "add"  -> X(x + y)
    [] f = "sub"  -> X(x - y)
    [] f = "sll"  -> X(x * 2 ^ Sh(y))
    [] f = "slt"  -> Flag(S(x, XLEN) < S(y, XLEN))
    [] f = "sltu" -> Flag(x < y)
    [] f = "xor"  -> Xor(x, y)
    [] f = "srl"  -> x \div 2 ^ Sh(y)
    [] f = "sra"  -> X(S(x, XLEN) \div 2 ^ Sh(y))
    [] f = "or"   -> Or(x, y)
    [] f = "and"  -> And(x, y)

\* A mutant: the word is shifted with the bits above it.
Op32Fault(f, x, y) ==
  LET n == y % W
  IN CASE f = "addw" -> Int32(x + y)
       [] f = "subw" -> Int32(x - y)
       [] f = "sllw" -> Int32(x * 2 ^ n)
       [] f = "srlw" -> Int32(x \div 2 ^ n)
       [] f = "sraw" -> Int32(S(x, W) \div 2 ^ n)

Op32(f, x, y) ==
  LET n == y % W
  IN CASE f = "addw" -> Int32(x + y)
       [] f = "subw" -> Int32(x - y)
       [] f = "sllw" -> Int32(U(x, W) * 2 ^ n)
       [] f = "srlw" -> Int32(U(x, W) \div 2 ^ n)
       [] f = "sraw" -> Int32(S(x, W) \div 2 ^ n)

OpMul32(f, x, y) ==
  CASE f = "mulw"  -> Int32(S(x, W) * S(y, W))
    [] f = "divw"  -> X(Div(S(x, W), S(y, W), W))
    [] f = "divuw" -> Int32(Divu(U(x, W), U(y, W), W))
    [] f = "remw"  -> X(Rem(S(x, W), S(y, W), W))
    [] f = "remuw" -> Int32(Remu(U(x, W), U(y, W), W))

\* Immediates are sign-extended; the amount of a shift has bits of its own, one of which asks for
\* an arithmetic shift, and no other may be set.
Arith == 2 ^ (IMM - 2)
Amount(i, n) == U(i, IMM) % n
Shift(i, n) == U(i, IMM) \in 0..(n - 1)

\* A mutant: the other bits are ignored.
RightShiftFault(i, n) == TRUE

RightShift(i, n) == U(i, IMM) \in (0..(n - 1)) \cup (Arith..(Arith + n - 1))
OpImm(f, x, i) ==
  CASE f = "addi"  -> X(x + i)
    [] f = "slli"  -> IF Shift(i, XLEN) THEN X(x * 2 ^ Amount(i, XLEN)) ELSE Illegal
    [] f = "slti"  -> Flag(S(x, XLEN) < i)
    [] f = "sltiu" -> Flag(x < X(i))
    [] f = "xori"  -> Xor(x, X(i))
    [] f = "srxi"  -> IF ~RightShift(i, XLEN) THEN Illegal
                      ELSE IF U(i, IMM) >= Arith THEN X(S(x, XLEN) \div 2 ^ Amount(i, XLEN))
                      ELSE x \div 2 ^ Amount(i, XLEN)
    [] f = "ori"   -> Or(x, X(i))
    [] f = "andi"  -> And(x, X(i))

OpImm32(f, x, i) ==
  CASE f = "addiw" -> Int32(x + i)
    [] f = "slliw" -> IF Shift(i, W) THEN Int32(x * 2 ^ Amount(i, W)) ELSE Illegal
    [] f = "srxiw" -> IF ~RightShift(i, W) THEN Illegal
                      ELSE IF U(i, IMM) >= Arith THEN Int32(S(x, W) \div 2 ^ Amount(i, W))
                      ELSE Int32(U(x, W) \div 2 ^ Amount(i, W))

\* A mutant: the signed branches compare as the unsigned ones do.
BranchFault(f, x, y) ==
  LET cond == IF f \in {"beq", "bne"} THEN x = y ELSE x < y
  IN Flag(cond # (f \in {"bne", "bge", "bgeu"}))

\* The condition of a branch
Branch(f, x, y) ==
  LET cond == CASE f \in {"beq", "bne"} -> x = y
                [] f \in {"blt", "bge"} -> S(x, XLEN) < S(y, XLEN)
                [] f \in {"bltu", "bgeu"} -> x < y
  IN Flag(cond # (f \in {"bne", "bge", "bgeu"}))

\* A mutant: the comparison looks at whole registers.
LessFault(x, y) == S(x, XLEN) < S(y, XLEN)

\* (int32_t)x < (int32_t)y
Less(x, y) == S(x, W) < S(y, W)

\* What an atomic operation on words stores, for m in memory
Amo(f, m, y) ==
  LET v == Int32(m)
  IN CASE f = "amoswap" -> U(y, W)
       [] f = "amoadd"  -> U(v + y, W)
       [] f = "amoxor"  -> U(Xor(v, y), W)
       [] f = "amoand"  -> U(And(v, y), W)
       [] f = "amoor"   -> U(Or(v, y), W)
       [] f = "amomin"  -> IF Less(v, y) THEN U(v, W) ELSE U(y, W)
       [] f = "amomax"  -> IF Less(y, v) THEN U(v, W) ELSE U(y, W)
       [] f = "amominu" -> IF U(v, W) < U(y, W) THEN U(v, W) ELSE U(y, W)
       [] f = "amomaxu" -> IF U(v, W) > U(y, W) THEN U(v, W) ELSE U(y, W)

-----------------------------------------------------------------------------
Muls == {"mul", "mulh", "mulhsu", "mulhu", "div", "divu", "rem", "remu"}
Plain == {"add", "sub", "sll", "slt", "sltu", "xor", "srl", "sra", "or", "and"}
Words == {"addw", "subw", "sllw", "srlw", "sraw"}
MulWords == {"mulw", "divw", "divuw", "remw", "remuw"}
WithImm == {"addi", "slli", "slti", "sltiu", "xori", "srxi", "ori", "andi"}
WithImm32 == {"addiw", "slliw", "srxiw"}
Branches == {"beq", "bne", "blt", "bge", "bltu", "bgeu"}
Amos == {"amoswap", "amoadd", "amoxor", "amoand", "amoor", "amomin", "amomax", "amominu", "amomaxu"}
ByReg == Muls \cup Plain \cup Words \cup MulWords \cup Branches \cup Amos

Init == /\ \/ op \in ByReg /\ a \in Regs /\ b \in Bs
           \/ op \in WithImm \cup WithImm32 /\ a \in Regs /\ b \in Imms
        /\ op \in Amos => a < 2 ^ W
        /\ rd = -2

Execute ==
  /\ rd' = IF op \in Muls THEN OpMul(op, a, b) ELSE IF op \in Plain THEN Op(op, a, b)
           ELSE IF op \in Words THEN Op32(op, a, b) ELSE IF op \in MulWords THEN OpMul32(op, a, b)
           ELSE IF op \in WithImm THEN OpImm(op, a, b) ELSE IF op \in WithImm32 THEN OpImm32(op, a, b)
           ELSE IF op \in Branches THEN Branch(op, a, b) ELSE Amo(op, a, b)
  /\ UNCHANGED <<op, a, b>>

Spec == Init /\ [][Execute]_vars

-----------------------------------------------------------------------------
(* Properties.  Each relates the result to other instructions or to the    *)
(* integers it stands for.                                                  *)

Done(fs) == rd # -2 /\ op \in fs

(* Quotient and remainder of the same operands belong together: a = q b + r *)
(* with r smaller than b and of the sign of a, except that dividing by zero *)
(* gives all ones and the dividend, and that the overflow wraps.            *)
DivisionLaw ==
  /\ Done({"div"}) =>
       LET x == S(a, XLEN)  y == S(b, XLEN)  q == S(rd, XLEN)  r == S(OpMul("rem", a, b), XLEN)
       IN IF y = 0 THEN q = -1 /\ r = x
          ELSE IF y = -1 THEN q = S(-x, XLEN) /\ r = 0
          ELSE x = q * y + r /\ Magnitude(r) < Magnitude(y) /\ r * x >= 0
  /\ Done({"divu"}) =>
       LET r == OpMul("remu", a, b)
       IN IF b = 0 THEN rd = 2 ^ XLEN - 1 /\ r = a ELSE a = rd * b + r /\ r < b

(* The two halves of a product make up the whole, for each combination of   *)
(* signs, although a product of two unsigned numbers overflows int128_t.    *)
WholeProduct ==
  Done({"mulh", "mulhsu", "mulhu"}) =>
    LET x == IF op = "mulhu" THEN a ELSE S(a, XLEN)
        y == IF op = "mulh" THEN S(b, XLEN) ELSE b
        h == IF op = "mulhu" THEN rd ELSE S(rd, XLEN)
    IN h * 2 ^ XLEN + OpMul("mul", a, b) = x * y

(* Every instruction on words depends on the lower words of its operands    *)
(* only, agrees with the one on registers there where both are exact, and   *)
(* leaves a sign-extended word.                                             *)
WordsExtend ==
  Done(Words \cup MulWords \cup {"addiw", "slliw", "srxiw"}) /\ rd # Illegal =>
    /\ rd = Int32(rd)
    /\ op \in {"addw", "subw", "mulw"} =>
         U(rd, W) = U(IF op = "mulw" THEN OpMul("mul", a, b) ELSE Op(IF op = "addw" THEN "add" ELSE "sub", a, b), W)
    /\ op \in Words => rd = Op32(op, U(a, W), U(b, W))
    /\ op = "srlw" => U(rd, W) = Op("srl", U(a, W), b % W)
    /\ op = "sraw" => rd = Op("sra", Int32(a), b % W)
    /\ op \in {"divw", "remw"} /\ U(b, W) # 0 =>
         rd = Int32(OpMul(IF op = "divw" THEN "div" ELSE "rem", Int32(a), Int32(b)))

(* An instruction with an immediate does what the one with a register does  *)
(* for the sign-extended immediate; a shift whose other bits are not clear  *)
(* is illegal.                                                              *)
Twin == [addi |-> "add", slti |-> "slt", sltiu |-> "sltu", xori |-> "xor", ori |-> "or", andi |-> "and"]
ImmediatesAgree ==
  /\ Done(DOMAIN Twin) => rd = Op(Twin[op], a, X(b))
  /\ Done({"slli"}) => IF b \in 0..(XLEN - 1) THEN rd = Op("sll", a, b) ELSE rd = Illegal
  /\ Done({"srxi"}) => rd = IF b \in 0..(XLEN - 1) THEN Op("srl", a, b)
                            ELSE IF b - Arith \in 0..(XLEN - 1) THEN Op("sra", a, b - Arith) ELSE Illegal
  /\ Done({"srxiw"}) => rd = IF b \in 0..(W - 1) THEN Op32("srlw", a, b)
                             ELSE IF b - Arith \in 0..(W - 1) THEN Op32("sraw", a, b - Arith) ELSE Illegal

(* Branches agree with the comparisons and with each other.                 *)
BranchesAgree ==
  /\ Done({"blt", "bltu"}) => rd = Op(IF op = "blt" THEN "slt" ELSE "sltu", a, b)
  /\ Done({"bge"}) => rd = 1 - Branch("blt", a, b) /\ (rd = 1 <=> (a = b \/ Branch("blt", b, a) = 1))
  /\ Done({"bgeu"}) => (rd = 1 <=> (a = b \/ Branch("bltu", b, a) = 1))
  /\ Done({"bne"}) => rd = Flag(Op("sub", a, b) # 0)

(* An atomic minimum or maximum stores one of its operands, the one the     *)
(* order of words chooses, whatever lies above the word in the register.    *)
AmoChooses ==
  Done({"amomin", "amomax", "amominu", "amomaxu"}) =>
    /\ rd \in {a, U(b, W)}
    /\ \A v \in {a, U(b, W)} :
         CASE op = "amomin"  -> S(rd, W) <= S(v, W)
           [] op = "amomax"  -> S(rd, W) >= S(v, W)
           [] op = "amominu" -> rd <= v
           [] op = "amomaxu" -> rd >= v
=============================================================================
