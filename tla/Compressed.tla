----------------------------- MODULE Compressed -----------------------------
(***************************************************************************)
(* The decoder of 16-bit instructions in dromajo_template.h: the operation *)
(* each pattern stands for, its registers and its immediate, put together  *)
(* with get_field1 and sext.  The reference is the table of formats of the *)
(* "C" extension: for every instruction the immediate bit that each        *)
(* instruction bit carries.                                                *)
(***************************************************************************)
EXTENDS Integers, Sequences, SequencesExt

VARIABLES insn, out
vars == <<insn, out>>

-----------------------------------------------------------------------------
(* Decoding *)

\* get_field1(val, src_pos, dst_pos, dst_pos_max)
Field(src, dst, max) == ((insn \div 2 ^ src) % 2 ^ (max - dst + 1)) * 2 ^ dst

Sext(v, n) == IF v >= 2 ^ (n - 1) THEN v - 2 ^ n ELSE v

Bits(lo, n) == (insn \div 2 ^ lo) % 2 ^ n
Rd == Bits(7, 5)
Rs2 == Bits(2, 5)
Low(pos) == Bits(pos, 3) + 8       \* one of x8..x15
Funct3 == Bits(13, 3)

Insn(op, rd, rs1, rs2, imm) == [op |-> op, rd |-> rd, rs1 |-> rs1, rs2 |-> rs2, imm |-> imm]
Illegal == Insn("illegal", 0, 0, 0, 0)
Unless(bad, d) == IF bad THEN Illegal ELSE d

Imm6 == Sext(Field(12, 5, 5) + Field(2, 0, 4), 6)
Shamt == Field(12, 5, 5) + Field(2, 0, 4)
OffW == Field(10, 3, 5) + Field(6, 2, 2) + Field(5, 6, 6)
OffD == Field(10, 3, 5) + Field(5, 6, 7)

\* A mutant: two bits of the offset change places.
JumpFault == Sext(Field(12, 11, 11) + Field(11, 4, 4) + Field(9, 8, 9) + Field(8, 10, 10) + Field(7, 7, 7)
                  + Field(6, 6, 6) + Field(3, 1, 3) + Field(2, 5, 5), 12)

Jump == Sext(Field(12, 11, 11) + Field(11, 4, 4) + Field(9, 8, 9) + Field(8, 10, 10) + Field(7, 6, 6)
             + Field(6, 7, 7) + Field(3, 1, 3) + Field(2, 5, 5), 12)
Branch == Sext(Field(12, 8, 8) + Field(10, 3, 4) + Field(5, 6, 7) + Field(3, 1, 2) + Field(2, 5, 5), 9)

\* A store names its source in rs2, where the code reads it from rd.
Quadrant0 ==
  LET rd == Low(2)
      rs1 == Low(7)
      spn == Field(11, 4, 5) + Field(7, 6, 9) + Field(6, 2, 2) + Field(5, 3, 3)
  IN CASE Funct3 = 0 -> Unless(spn = 0, Insn("addi4spn", rd, 2, 0, spn))
       [] Funct3 = 1 -> Insn("fld", rd, rs1, 0, OffD)
       [] Funct3 = 2 -> Insn("lw", rd, rs1, 0, OffW)
       [] Funct3 = 3 -> Insn("ld", rd, rs1, 0, OffD)
       [] Funct3 = 5 -> Insn("fsd", 0, rs1, rd, OffD)
       [] Funct3 = 6 -> Insn("sw", 0, rs1, rd, OffW)
       [] Funct3 = 7 -> Insn("sd", 0, rs1, rd, OffD)
       [] OTHER      -> Illegal

Lui == Sext(Field(12, 17, 17) + Field(2, 12, 16), 18)

\* A mutant: a zero immediate is illegal only where a register is named.
UpperFault == IF Rd = 0 THEN Insn("lui", 0, 0, 0, Lui) ELSE Unless(Lui = 0, Insn("lui", Rd, 0, 0, Lui))

Upper == Unless(Lui = 0, Insn("lui", Rd, 0, 0, Lui))

Arith ==
  LET rd == Low(7)
      f == Bits(5, 2) + 4 * Bits(12, 1)
  IN CASE Bits(10, 2) = 0 -> Insn("srli", rd, rd, 0, Shamt)
       [] Bits(10, 2) = 1 -> Insn("srai", rd, rd, 0, Shamt)
       [] Bits(10, 2) = 2 -> Insn("andi", rd, rd, 0, Imm6)
       [] OTHER -> IF f > 5 THEN Illegal
                   ELSE Insn(<<"sub", "xor", "or", "and", "subw", "addw">>[f + 1], rd, rd, Low(2), 0)

Quadrant1 ==
  LET sp16 == Sext(Field(12, 9, 9) + Field(6, 4, 4) + Field(5, 6, 6) + Field(3, 7, 8) + Field(2, 5, 5), 10)
  IN CASE Funct3 = 0 -> Insn("addi", Rd, Rd, 0, IF Rd = 0 THEN 0 ELSE Imm6)     \* nothing for x0
       [] Funct3 = 1 -> Unless(Rd = 0, Insn("addiw", Rd, Rd, 0, Imm6))
       [] Funct3 = 2 -> Insn("li", Rd, 0, 0, IF Rd = 0 THEN 0 ELSE Imm6)
       [] Funct3 = 3 -> IF Rd = 2 THEN Unless(sp16 = 0, Insn("addi16sp", 2, 2, 0, sp16)) ELSE Upper
       [] Funct3 = 4 -> Arith
       [] Funct3 = 5 -> Insn("j", 0, 0, 0, Jump)
       [] Funct3 = 6 -> Insn("beqz", 0, Low(7), 0, Branch)
       [] Funct3 = 7 -> Insn("bnez", 0, Low(7), 0, Branch)

JumpOrMove == IF Rs2 = 0 THEN Unless(Rd = 0, Insn("jr", 0, Rd, 0, 0)) ELSE Insn("mv", Rd, 0, Rs2, 0)

JumpOrAdd == IF Rs2 = 0 THEN IF Rd = 0 THEN Insn("ebreak", 0, 0, 0, 0) ELSE Insn("jalr", 1, Rd, 0, 0)
             ELSE Insn("add", Rd, Rd, Rs2, 0)

\* The bits of rs2 that carry an offset: rs2 & (7 << 2), rs2 & (3 << 3)
SpW == Field(12, 5, 5) + (Rs2 \div 4) * 4 + Field(2, 6, 7)
SpD == Field(12, 5, 5) + (Rs2 \div 8) * 8 + Field(2, 6, 8)
Quadrant2 ==
  LET storeW == Field(9, 2, 5) + Field(7, 6, 7)
      storeD == Field(10, 3, 5) + Field(7, 6, 8)
  IN CASE Funct3 = 0 -> Insn("slli", Rd, Rd, 0, Field(12, 5, 5) + Rs2)
       [] Funct3 = 1 -> Insn("fldsp", Rd, 2, 0, SpD)
       [] Funct3 = 2 -> Unless(Rd = 0, Insn("lwsp", Rd, 2, 0, SpW))
       [] Funct3 = 3 -> Unless(Rd = 0, Insn("ldsp", Rd, 2, 0, SpD))
       [] Funct3 = 4 -> IF Bits(12, 1) = 0 THEN JumpOrMove ELSE JumpOrAdd
       [] Funct3 = 5 -> Insn("fsdsp", 0, 2, Rs2, storeD)
       [] Funct3 = 6 -> Insn("swsp", 0, 2, Rs2, storeW)
       [] Funct3 = 7 -> Insn("sdsp", 0, 2, Rs2, storeD)

Init == insn \in {i \in 0..(2 ^ 16 - 1) : i % 4 # 3} /\ out = Insn("none", 0, 0, 0, 0)

Decode ==
  /\ out' = CASE insn % 4 = 0 -> Quadrant0 [] insn % 4 = 1 -> Quadrant1 [] insn % 4 = 2 -> Quadrant2
  /\ UNCHANGED insn

Spec == Init /\ [][Decode]_vars

-----------------------------------------------------------------------------
(* The reference: the immediate bits carried by instruction bits, from bit  *)
(* 12 down; -1 for a bit that belongs to something else                     *)

None3 == <<-1, -1, -1>>
Layout == [
  addi4spn |-> <<5, 4, 9, 8, 7, 6, 2, 3>> \o None3,
  lw |-> <<5, 4, 3>> \o None3 \o <<2, 6>> \o None3,  sw |-> <<5, 4, 3>> \o None3 \o <<2, 6>> \o None3,
  ld |-> <<5, 4, 3>> \o None3 \o <<7, 6>> \o None3,  sd |-> <<5, 4, 3>> \o None3 \o <<7, 6>> \o None3,
  fld |-> <<5, 4, 3>> \o None3 \o <<7, 6>> \o None3, fsd |-> <<5, 4, 3>> \o None3 \o <<7, 6>> \o None3,
  addi |-> <<5, -1, -1>> \o None3 \o <<4, 3, 2, 1, 0>>, addiw |-> <<5, -1, -1>> \o None3 \o <<4, 3, 2, 1, 0>>,
  li |-> <<5, -1, -1>> \o None3 \o <<4, 3, 2, 1, 0>>,   andi |-> <<5, -1, -1>> \o None3 \o <<4, 3, 2, 1, 0>>,
  srli |-> <<5, -1, -1>> \o None3 \o <<4, 3, 2, 1, 0>>, srai |-> <<5, -1, -1>> \o None3 \o <<4, 3, 2, 1, 0>>,
  slli |-> <<5, -1, -1>> \o None3 \o <<4, 3, 2, 1, 0>>,
  addi16sp |-> <<9, -1, -1>> \o None3 \o <<4, 6, 8, 7, 5>>,
  lui |-> <<17, -1, -1>> \o None3 \o <<16, 15, 14, 13, 12>>,
  j |-> <<11, 4, 9, 8, 10, 6, 7, 3, 2, 1, 5>>,
  beqz |-> <<8, 4, 3>> \o None3 \o <<7, 6, 2, 1, 5>>,   bnez |-> <<8, 4, 3>> \o None3 \o <<7, 6, 2, 1, 5>>,
  fldsp |-> <<5, -1, -1>> \o None3 \o <<4, 3, 8, 7, 6>>, ldsp |-> <<5, -1, -1>> \o None3 \o <<4, 3, 8, 7, 6>>,
  lwsp |-> <<5, -1, -1>> \o None3 \o <<4, 3, 2, 7, 6>>,
  fsdsp |-> <<5, 4, 3, 8, 7, 6>> \o None3 \o <<-1, -1>>, sdsp |-> <<5, 4, 3, 8, 7, 6>> \o None3 \o <<-1, -1>>,
  swsp |-> <<5, 4, 3, 2, 7, 6>> \o None3 \o <<-1, -1>>]

Signed == {"addi", "addiw", "li", "andi", "addi16sp", "lui", "j", "beqz", "bnez"}

-----------------------------------------------------------------------------
(* Properties *)

Decoded == out.op \notin {"none", "illegal"}

(* Every bit of an immediate is where the format puts it: the immediate is  *)
(* the sum of the instruction's bits at their places, the topmost counting  *)
(* negatively where the immediate is signed.                                *)
ImmediateBits ==
  Decoded /\ out.op \in DOMAIN Layout /\ ~(out.op \in {"addi", "li"} /\ out.rd = 0) =>
    LET lay == Layout[out.op]
        top == CHOOSE t \in ToSet(lay) : \A u \in ToSet(lay) : t >= u
        weight(k) == IF lay[k] = -1 THEN 0
                     ELSE IF lay[k] = top /\ out.op \in Signed THEN -(2 ^ top) ELSE 2 ^ lay[k]
    IN out.imm = FoldLeft(+, 0, [k \in 1..11 |-> Bits(13 - k, 1) * weight(k)])

(* Exactly the patterns the extension reserves raise an illegal             *)
(* instruction, the all-zero pattern among them.                            *)
Reserved ==
  \/ insn % 4 = 0 /\ ((Bits(2, 11) < 8 /\ Funct3 = 0) \/ Funct3 = 4)
  \/ insn % 4 = 1 /\ \/ Funct3 = 1 /\ Rd = 0
                     \/ Funct3 = 3 /\ Bits(12, 1) = 0 /\ Rs2 = 0
                     \/ Funct3 = 4 /\ Bits(10, 3) = 7 /\ Bits(5, 2) \in {2, 3}
  \/ insn % 4 = 2 /\ ((Funct3 \in {2, 3} /\ Rd = 0) \/ insn = 2 ^ 15 + 2)
ReservedTraps == out.op # "none" => (out.op = "illegal" <=> Reserved)
=============================================================================
