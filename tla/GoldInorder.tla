---------------------------- MODULE GoldInorder ----------------------------
(***************************************************************************)
(* goldmem in the co-simulation (gold/bridge_inorder.cpp and the           *)
(* GOLDMEM_INORDER part of dromajo_cosim_step): the emulator executes an   *)
(* instruction of a hart, then the checker is told the address and the     *)
(* data of the access and the value that the design under test loaded.     *)
(*                                                                         *)
(* An access has one byte.  Stores become global in the call that reports  *)
(* them, so no entry of a ROB ever forwards to a load and the ROBs of      *)
(* GoldCore are left out.  Cases lists what the run lets happen beyond the *)
(* accesses that the checker handles.                                      *)
(***************************************************************************)
EXTENDS Integers, FiniteSets

CONSTANTS
  Harts,
  Addr,
  Width,    \* bits of a byte
  Cases     \* some of "hit", "amo", "signed", "device"

InorderAssumption == Width \in Nat \ {0}

VARIABLES
  ram,      \* the emulator's memory
  last,     \* last_data_paddr and last_data_value of each hart
  byte,     \* mem_byte of Gold_mem: the bytes seen so far
  wrong,    \* the design loaded something else than the emulator
  exited    \* the co-simulation has ended: "no", "fail" or "assert"

vars == <<ram, last, byte, wrong, exited>>

Byte == 0..(2^Width - 1)
Seen == DOMAIN byte

Init ==
  /\ ram \in [Addr -> Byte]
  /\ last = [h \in Harts |-> [paddr |-> CHOOSE a \in Addr : TRUE, value |-> 0]]
  /\ byte = [a \in {} |-> 0]
  /\ wrong = FALSE
  /\ exited = "no"

-----------------------------------------------------------------------------
\* A mutant: the record is not updated by a store.
RecordFault(h, a, v, hit) == last[h]

\* An access that hits in a TLB leaves the record of the last access alone.
Record(h, a, v, hit) == IF hit THEN last[h] ELSE [paddr |-> a, value |-> v]

\* Without the case "hit" only an access that repeats the last one may hit.
MayHit(h, a, v, hit) ==
  hit => "hit" \in Cases \/ last[h] = [paddr |-> a, value |-> v]

Sext(v) == IF v >= 2^(Width - 1) THEN v - 2^Width ELSE v

\* A mutant: a byte that was not seen reads as zero.
GetByteFault(m, a) == IF a \in Seen THEN byte[a] ELSE 0

\* Gold_mem::ld_perform: a byte that was not seen is taken from the
\* emulator, which has executed the instruction already.
GetByte(m, a) == IF a \in Seen THEN byte[a] ELSE m[a]

Put(a, v) == [x \in Seen \cup {a} |-> IF x = a THEN v ELSE byte[x]]

-----------------------------------------------------------------------------
\* A register is wider than the access: it holds x, or x with its sign.
Reg(x, signed) == IF signed THEN Sext(x) ELSE x

\* Without the case "signed" no register has bits beyond the access.
Narrow(x, signed) == "signed" \in Cases \/ Reg(x, signed) = x

\* The emulator reads ram[a], the design's register gets w.
CheckLoad(h, a, hit, signed, w) ==
  LET p == Record(h, a, ram[a], hit) IN
  /\ exited = "no"
  /\ MayHit(h, a, ram[a], hit)
  /\ Narrow(ram[a], signed) /\ Narrow(w, signed)
  /\ last' = [last EXCEPT ![h] = p]
  /\ byte' = Put(p.paddr, GetByte(ram, p.paddr))
  /\ wrong' = (w # ram[a])
  /\ exited' = IF GetByte(ram, p.paddr) # Reg(w, signed) THEN "fail" ELSE "no"
  /\ UNCHANGED ram

\* The data of the store is read from its register and compared with the
\* record.
CheckStore(h, a, v, hit, signed) ==
  LET p == Record(h, a, v, hit) IN
  /\ exited = "no"
  /\ MayHit(h, a, v, hit)
  /\ Narrow(v, signed)
  /\ ram' = [ram EXCEPT ![a] = v]
  /\ last' = [last EXCEPT ![h] = p]
  /\ \/ /\ p.value # Reg(v, signed)
        /\ exited' = "assert"
        /\ UNCHANGED byte
     \/ /\ p.value = Reg(v, signed)
        /\ exited' = "no"
        /\ byte' = Put(p.paddr, v)
  /\ wrong' = FALSE

\* An amoswap of v.  The design must have loaded what the emulator did.
CheckAmo(h, a, v, hit, signed, w) ==
  LET p == Record(h, a, v, hit)
      m == [ram EXCEPT ![a] = v]
      gold == GetByte(m, p.paddr)
  IN
  /\ exited = "no"
  /\ a \in Seen \/ "amo" \in Cases
  /\ MayHit(h, a, v, hit)
  /\ Narrow(ram[a], signed) /\ Narrow(w, signed)
  /\ ram' = m
  /\ last' = [last EXCEPT ![h] = p]
  /\ wrong' = (w # ram[a])
  /\ \/ /\ w # ram[a]
        /\ exited' = "assert"
        /\ UNCHANGED byte
     \/ /\ w = ram[a] /\ gold # Reg(w, signed)
        /\ exited' = "fail"
        /\ byte' = Put(p.paddr, gold)
     \/ /\ w = ram[a] /\ gold = Reg(w, signed)
        /\ exited' = "no"
        /\ byte' = Put(p.paddr, p.value)

\* dromajo_cosim_override_mem: a device of the design writes memory.
OverrideMem(a, v) ==
  /\ exited = "no"
  /\ a \notin Seen \/ "device" \in Cases
  /\ ram' = [ram EXCEPT ![a] = v]
  /\ wrong' = FALSE
  /\ UNCHANGED <<last, byte, exited>>

Next ==
  \/ \E h \in Harts, a \in Addr, v \in Byte, hit, signed \in BOOLEAN :
       \/ CheckLoad(h, a, hit, signed, v)
       \/ CheckStore(h, a, v, hit, signed)
       \/ \E w \in Byte : CheckAmo(h, a, v, hit, signed, w)
  \/ \E a \in Addr, v \in Byte : OverrideMem(a, v)

Spec == Init /\ [][Next]_vars

-----------------------------------------------------------------------------
\* Properties.

\* What the checker has seen of memory is what the emulator has there, after
\* any accesses of any harts.
GoldMatchesEmulator == exited = "no" => \A a \in Seen : byte[a] = ram[a]

\* The checker ends the co-simulation on the first access where the design
\* and the emulator differ.
WrongLoadRejected == wrong => exited # "no"

\* The checker does not end it where they agree.
RightLoadAccepted == exited # "no" => wrong
=============================================================================
