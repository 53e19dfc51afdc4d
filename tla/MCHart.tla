------------------------------- MODULE MCHart -------------------------------
(***************************************************************************)
(* Dromajo's hart: integer, compressed and floating-point instructions,    *)
(* protection, translation, traps, loads and stores of physical memory and *)
(* atomic operations, for model checking.  The parts share no state here,  *)
(* so one of them runs at a time and the others stand still: the states    *)
(* add up instead of multiplying.                                          *)
(***************************************************************************)
EXTENDS Integers

CONSTANTS
  NPmp, AddrBits, Perm, Size, PageSize,        \* Pmp
  TlbSize, NPages, Offset, Leaf, MprvTraps,    \* Tlb
  Irqs,                                        \* Traps, without the debug mode
  RamPage, DevReg, RamSize, Second, Device,
  MemSize, Closed, AllowMisaligned, MaxStores,     \* PhysMem
  Harts, Cells, Broken, Watched, Unaligned, MaxVal    \* LrSc

VARIABLES
  part,                                  \* the part that runs
  op, lhs, rhs, rd,                      \* Alu
  insn, decoded,                         \* Compressed
  fpin, fpout,                           \* FpArith, four instances
  freg, frm,                             \* FpFormats
  cfg, addr, regions,                    \* Pmp
  cpu, pt, open, tlb, edited, accessed,  \* Tlb
  csr, sleep, debug, cosim, did,         \* Traps, two instances
  mem, memtlb, dirty, closed, io, nstores, laststore, got, view, written,   \* PhysMem
  word, load_res, reg, trap, fresh, unused                                  \* LrSc

\* What the run puts into the page tables
UserLeaf == {[p |-> 1, u |-> TRUE]}

Alu == INSTANCE Alu WITH XLEN <- 8, W <- 4, IMM <- 5, a <- lhs, b <- rhs,
  Bs <- {0, 1, 7, 8, 127, 128, 248, 255}

Compressed == INSTANCE Compressed WITH out <- decoded

\* Floats of 8 bits, and those near zero, near one and near the largest
Float8 == 0..255
Corner8 == {x \in Float8 : (x \div 4) % 32 \in {0, 1, 15, 30, 31}}
\* Few negative numbers suffice: most of what they do mirrors a positive one.
Half8 == {x \in Corner8 : x < 128 \/ x % 4 = 0}

FpArith == INSTANCE FpArith WITH EXP_SIZE <- 5, MANT_SIZE <- 2, ICVT_SIZE <- 8, in <- fpin, out <- fpout,
  Ops <- {"add", "sub", "mul", "div", "sqrt"}, As <- Half8, Bs <- {x \in Float8 : x < 128 \/ x % 4 = 1}, Cs <- {0}
FpFma == INSTANCE FpArith WITH EXP_SIZE <- 5, MANT_SIZE <- 2, ICVT_SIZE <- 8, in <- fpin, out <- fpout,
  Ops <- {"fma"}, As <- {x \in Corner8 : x < 128}, Bs <- Half8, Cs <- Half8
FpOrder == INSTANCE FpArith WITH EXP_SIZE <- 5, MANT_SIZE <- 2, ICVT_SIZE <- 8, in <- fpin, out <- fpout,
  Ops <- {"min", "max", "eq", "le", "lt"}, As <- Corner8, Bs <- Float8, Cs <- {0}
FpConvert == INSTANCE FpArith WITH EXP_SIZE <- 5, MANT_SIZE <- 2, ICVT_SIZE <- 12, in <- fpin, out <- fpout,
  Ops <- {"to_int", "to_uint", "from_int", "from_uint"}, As <- Float8, Bs <- 0..4095, Cs <- {0}

FpFormats == INSTANCE FpFormats WITH NExpSize <- 5, NMantSize <- 2, WExpSize <- 6, WMantSize <- 7,
  reg <- freg, rm <- frm

Pmp == INSTANCE Pmp WITH pmp <- regions

Tlb == INSTANCE Tlb WITH pmp <- open, done <- accessed

Traps == INSTANCE Traps WITH c <- csr, Cosim <- {FALSE}, Modes <- {FALSE}
DebugTraps == INSTANCE Traps WITH c <- csr, Irqs <- {}, Cosim <- {TRUE}, Modes <- {TRUE}

Phys == INSTANCE PhysMem WITH PageSize <- RamPage, Reg <- DevReg, Sizes <- MemSize,
  tlb <- memtlb, n <- nstores, last <- laststore

Atomic == INSTANCE LrSc WITH Addrs <- Cells, mem <- word

ASSUME Alu!AluAssumption
ASSUME FpArith!SoftFpAssumption /\ FpConvert!SoftFpAssumption
ASSUME FpFormats!FormatsAssumption /\ FpFormats!N!SoftFpAssumption /\ FpFormats!W!SoftFpAssumption
ASSUME HartAssumption == Pmp!PmpAssumption /\ Tlb!TlbAssumption /\ Traps!TrapsAssumption
ASSUME DebugTraps!TrapsAssumption
ASSUME MemoryAssumption == Phys!PhysMemAssumption /\ Atomic!LrScAssumption

-----------------------------------------------------------------------------
fp == <<fpin, fpout>>
formats == <<freg, frm>>
alu == <<op, lhs, rhs, rd>>
rvc == <<insn, decoded>>
prot == <<cfg, addr, regions>>
xlate == <<cpu, pt, open, tlb, edited, accessed>>
traps == <<csr, sleep, debug, cosim, did>>
phys == <<mem, memtlb, dirty, closed, io, nstores, laststore, got, view, written>>
atomic == <<word, load_res, reg, trap, fresh, unused>>
vars == <<part, alu, rvc, fp, formats, prot, xlate, traps, phys, atomic>>

\* Parts with many initial states have a single one while they stand still.
Init ==
  /\ part \in {"alu", "rvc", "arith", "fma", "order", "convert", "formats", "pmp", "tlb", "traps", "debug", "phys", "atomic"}
  /\ IF part = "alu" THEN Alu!Init ELSE op = "none" /\ lhs = 0 /\ rhs = 0 /\ rd = 0
  /\ IF part = "rvc" THEN Compressed!Init ELSE insn = 0 /\ decoded = "none"
  /\ CASE part = "arith"   -> FpArith!Init
       [] part = "fma"     -> FpFma!Init
       [] part = "order"   -> FpOrder!Init
       [] part = "convert" -> FpConvert!Init
       [] OTHER            -> fpin = "none" /\ fpout = "none"
  /\ IF part = "formats" THEN FpFormats!Init ELSE freg = 0 /\ frm = "RNE"
  /\ Pmp!Init
  /\ Tlb!Init
  /\ IF part = "debug" THEN DebugTraps!Init
     ELSE IF part = "traps" THEN Traps!Init
     ELSE csr = "none" /\ sleep = FALSE /\ debug = FALSE /\ cosim = FALSE /\ did = "none"
  /\ IF part = "phys" THEN Phys!Init
     ELSE /\ mem = {} /\ memtlb = {} /\ dirty = {} /\ closed = {} /\ io = {} /\ nstores = 0
          /\ laststore = {} /\ got = {} /\ view = {} /\ written = {}
  /\ Atomic!Init

Next ==
  /\ UNCHANGED part
  /\ \/ part = "alu" /\ Alu!Execute /\ UNCHANGED <<rvc, fp, formats, prot, xlate, traps, phys, atomic>>
     \/ part = "rvc" /\ Compressed!Decode /\ UNCHANGED <<alu, fp, formats, prot, xlate, traps, phys, atomic>>
     \/ part = "arith" /\ FpArith!Execute /\ UNCHANGED <<alu, rvc, formats, prot, xlate, traps, phys, atomic>>
     \/ part = "fma" /\ FpFma!Execute /\ UNCHANGED <<alu, rvc, formats, prot, xlate, traps, phys, atomic>>
     \/ part = "order" /\ FpOrder!Execute /\ UNCHANGED <<alu, rvc, formats, prot, xlate, traps, phys, atomic>>
     \/ part = "convert" /\ FpConvert!Execute /\ UNCHANGED <<alu, rvc, formats, prot, xlate, traps, phys, atomic>>
     \/ part = "formats" /\ FpFormats!Next /\ UNCHANGED <<alu, rvc, fp, prot, xlate, traps, phys, atomic>>
     \/ part = "pmp" /\ Pmp!Next /\ UNCHANGED <<alu, rvc, fp, formats, xlate, traps, phys, atomic>>
     \/ part = "tlb" /\ Tlb!Next /\ UNCHANGED <<alu, rvc, fp, formats, prot, traps, phys, atomic>>
     \/ part = "traps" /\ Traps!Next /\ UNCHANGED <<alu, rvc, fp, formats, prot, xlate, phys, atomic>>
     \/ part = "debug" /\ DebugTraps!Next /\ UNCHANGED <<alu, rvc, fp, formats, prot, xlate, phys, atomic>>
     \/ part = "phys" /\ Phys!Next /\ UNCHANGED <<alu, rvc, fp, formats, prot, xlate, traps, atomic>>
     \/ part = "atomic" /\ Atomic!Next /\ UNCHANGED <<alu, rvc, fp, formats, prot, xlate, traps, phys>>

Spec == Init /\ [][Next]_vars

-----------------------------------------------------------------------------
(* Properties *)

(* Integer instructions of all operands give what the instruction set says: *)
(* quotients, remainders and whole products agree for signs, zero and       *)
(* overflow, word forms extend, immediate forms and branches agree with     *)
(* registers, atomic operations choose right; and every compressed          *)
(* instruction expands to the immediate its bits carry or traps             *)
(* (dromajo_template.h).                                                    *)
IntegerExact ==
  /\ part = "alu" => /\ Alu!DivisionLaw /\ Alu!WholeProduct /\ Alu!WordsExtend
                     /\ Alu!ImmediatesAgree /\ Alu!BranchesAgree /\ Alu!AmoChooses
  /\ part = "rvc" => Compressed!ImmediateBits /\ Compressed!ReservedTraps

(* Every floating-point operation gives the exact result rounded once, with *)
(* exactly the flags of the standard; comparisons and conversions too, and  *)
(* a narrowed number that is widened again is the same                      *)
(* (softfp_template.h, softfp.cpp).                                         *)
FloatExact ==
  /\ part = "arith" => FpArith!CorrectlyRounded /\ FpArith!FlagsExact
  /\ part = "fma" => FpFma!CorrectlyRounded /\ FpFma!FlagsExact
  /\ part = "order" => FpOrder!OrderExact
  /\ part = "convert" => FpConvert!ConversionsExact
  /\ part = "formats" => FpFormats!NarrowExact /\ FpFormats!RoundTrip

(* The lowest matching protection entry decides an access, and an access    *)
(* the TLB answers reaches the page, with the permission, that a walk would *)
(* give now, unless the guest has edited the table since its last fence     *)
(* (pmp_unpack, riscv_cpu_check_pmp..., target_read/write, tlb_flush_all).  *)
AccessRight ==
  /\ part = "pmp" => Pmp!LowestEntryDecides
  /\ part = "tlb" => Tlb!AccessIsTranslated /\ Tlb!AccessIsPermitted

(* The return from whatever trap is taken brings back the privilege and the *)
(* interrupt enables of before; below machine mode nothing changes what     *)
(* machine mode relies on; its interrupts come first; locked protection     *)
(* entries stay (raise_exception2, handle_sret, handle_mret, csr_write).    *)
PrivilegeKept ==
  /\ [](part = "traps" => Traps!ReturnRestores)
  /\ [](part = "debug" => DebugTraps!ReturnRestores)
  /\ [][part = "pmp" => Pmp!LockStep]_vars
  /\ [][part = "traps" => Traps!IsolatedStep /\ Traps!MachineFirstStep]_vars
  /\ [][part = "debug" => DebugTraps!IsolatedStep]_vars

(* A load returns what was stored last, through the TLB or not, and a page  *)
(* written since the dirty bits were collected is dirty; a                  *)
(* store-conditional writes once, and only what its hart reserved; the load *)
(* of an atomic operation traps as a store (riscv_cpu_read_memory,          *)
(* default_get_dirty_bits, OP_A).                                           *)
MemoryRight ==
  /\ [](part = "phys" => Phys!LoadSeesStores /\ Phys!WrittenIsDirty)
  /\ [][part = "atomic" => Atomic!OncePerReservation /\ Atomic!FaultsAreStores]_vars
=============================================================================
