------------------------------ MODULE Snapshot ------------------------------
(***************************************************************************)
(* Checkpoints: riscv_cpu_serialize writes a boot ROM whose instructions   *)
(* bring a reset hart to the saved state, and riscv_cpu_deserialize puts   *)
(* it in place.  The ROM has the sizes of the code; it is laid out, then   *)
(* executed an instruction at a time by the rules of csr_write.  A word is *)
(* a token <<register, index, half>> naming the value it carries.          *)
(***************************************************************************)
EXTENDS Integers, Sequences, SequencesExt

CONSTANTS
  Privs,     \* privileges at the time of the checkpoint
  FsValues,  \* states of the floating-point unit, 0 is off
  Enabled,   \* whether the machine's timer interrupt was enabled
  Locks      \* whether the protection entries were locked

SnapshotAssumption == Privs \subseteq 0..3 /\ FsValues \subseteq 0..3

RomWords  == 1024
DataStart == 704
Half      == 2048

Word(r, half) == <<r[1], r[2], half>>
Val(r) == <<Word(r, "lo"), Word(r, "hi")>>
X(i) == <<"x", i>>
F(i) == <<"f", i>>
C(name) == <<name, 0>>

Plain == {"dpc", "dcsr", "mstatus", "misa", "tselect", "medeleg", "mideleg", "mie", "mtvec", "stvec",
          "mcountinhibit", "mcounteren", "scounteren", "mscratch", "mepc", "mcause", "mtval", "sscratch",
          "sepc", "scause", "stval", "mip", "timecmp", "mtime", "minstret", "mcycle", "satp"}
FpCsrs == {C("fflags"), C("frm"), C("fcsr")}
Counters == {C("minstret"), C("mcycle")}
Csrs == {C(n) : n \in Plain} \cup {<<"mhpmevent", i>> : i \in 3..31} \cup {<<"mhpmcounter", i>> : i \in 3..31}
        \cup {<<"pmpaddr", i>> : i \in 0..15} \cup {<<"pmpcfg", i>> : i \in {0, 2}}
        \cup FpCsrs \cup {C("dscratch"), C("plic"), C("tdata1")}

VARIABLES
  saved,   \* the hart at the checkpoint: privilege, fs, whether interrupts are enabled and entries locked
  rom,     \* code and data words of the file, and how many items are laid out
  h,       \* the hart that recovers
  phase    \* "running", "saved", "recovering", "done", or why it stopped

vars == <<saved, rom, h, phase>>

Reset == [pc |-> 0, x |-> [i \in 1..31 |-> Val(<<"reset", i>>)], f |-> [i \in 0..31 |-> Val(<<"reset", i>>)],
          csr |-> [n \in Csrs |-> Val(<<"reset", 0>>)], fs |-> 0, stopped |-> FALSE, late |-> {}]

Init == /\ saved \in [priv : Privs, fs : FsValues, irq : Enabled, locked : Locks, where : {"boot", "rom", "beyond"}]
        /\ rom = [items |-> 0, code |-> <<>>, data |-> <<>>]
        /\ h = Reset
        /\ phase = "running"

-----------------------------------------------------------------------------
(* Laying out the ROM *)

\* create_auipc and create_addi: the hart extends the sign of the lower part.
Upper(off) == LET o == IF off % (2 * Half) >= Half THEN off + Half ELSE off IN (o \div (2 * Half)) * (2 * Half)
Lower(off) == LET l == off % (2 * Half) IN IF l >= Half THEN l - 2 * Half ELSE l

Offset(cp, dp) == 4 * (dp - cp)
Address(rd, off) == <<[op |-> "auipc", rd |-> rd, imm |-> Upper(off)], [op |-> "addi", rd |-> rd, imm |-> Lower(off)]>>
Load(rd, off) == Append(Address(rd, off), [op |-> "ld", rd |-> rd])
Csrrw(rs, n) == [op |-> "csrrw", rs |-> rs, n |-> n]

Csr64(n) == [k |-> "csr64", n |-> n]
Csr12(n) == [k |-> "csr12", n |-> n]
Reg(i)   == [k |-> "reg", n |-> X(i)]
Io(n)    == [k |-> "io", n |-> n]
Fp(i)    == [k |-> "fp", n |-> F(i)]
Raw(w)   == [k |-> "raw", n |-> C("dscratch"), w |-> w]

\* A short control register is one that is its own lower 12 bits, sign extended.
CodeOf(it, cp, dp) ==
  CASE it.k = "csr64" -> Append(Load(1, Offset(cp, dp)), Csrrw(1, it.n))
    [] it.k = "csr12" -> <<[op |-> "seti", rd |-> 1, v |-> Val(it.n)], Csrrw(1, it.n)>>
    [] it.k = "reg"   -> Load(it.n[2], Offset(cp, dp))
    [] it.k = "fp"    -> Append(Address(1, Offset(cp, dp)), [op |-> "fld", rd |-> it.n[2]])
    [] it.k = "io"    -> Load(1, Offset(cp, dp)) \o Load(2, Offset(cp + 3, dp + 2)) \o <<[op |-> "sd"]>>
    [] it.k = "raw"   -> <<it.w>>

\* The upper half of a floating-point register is taken from the integer register of its number.
UpperHalf(i) == IF i = 0 THEN <<"x", 0, "hi">> ELSE Word(X(i), "hi")

\* A mutant: a control register takes the place of two.
DataOfFault(it) ==
  CASE it.k = "csr64" -> Val(it.n) \o Val(it.n)
    [] it.k = "reg"   -> Val(it.n)
    [] it.k = "fp"    -> <<Word(it.n, "lo"), UpperHalf(it.n[2])>>
    [] it.k = "io"    -> <<<<"at", it.n[1], "lo">>, <<"at", it.n[1], "hi">>>> \o Val(it.n)
    [] OTHER          -> <<>>

DataOf(it) ==
  CASE it.k \in {"csr64", "reg"} -> Val(it.n)
    [] it.k = "fp"  -> <<Word(it.n, "lo"), UpperHalf(it.n[2])>>
    [] it.k = "io"  -> <<<<"at", it.n[1], "lo">>, <<"at", it.n[1], "hi">>>> \o Val(it.n)
    [] OTHER        -> <<>>

AllOf(op(_), names) == [i \in DOMAIN names |-> op(C(names[i]))]
Numbers(lo, hi) == [i \in 1..(hi - lo + 1) |-> lo + i - 1]

\* A mutant: the configuration, with its locks, goes before the addresses.
PmpFault == <<Csr64(<<"pmpcfg", 0>>), Csr64(<<"pmpcfg", 2>>)>> \o [i \in 1..16 |-> Csr64(<<"pmpaddr", i - 1>>)]

Pmp == [i \in 1..16 |-> Csr64(<<"pmpaddr", i - 1>>)] \o <<Csr64(<<"pmpcfg", 0>>), Csr64(<<"pmpcfg", 2>>)>>

\* create_boot_rom
Items(s) ==
  [i \in 1..4 |-> Raw([op |-> "hang", at |-> i])]
  \o <<Csr64(C("dpc")), Csr12(C("dcsr")), Csr64(C("mstatus")), Csr64(C("misa"))>>
  \o (IF s.fs = 0 THEN <<>> ELSE AllOf(Csr12, <<"fflags", "frm", "fcsr">>) \o [i \in 1..32 |-> Fp(i - 1)])
  \o FlattenSeq([i \in 1..29 |-> <<Csr12(<<"mhpmcounter", i + 2>>), Csr64(<<"mhpmevent", i + 2>>)>>])
  \o AllOf(Csr64, <<"tselect", "medeleg", "mideleg", "mie", "mtvec", "stvec">>)
  \o AllOf(Csr12, <<"mcountinhibit", "mcounteren", "scounteren">>)
  \o Pmp
  \o AllOf(Csr64, <<"mscratch", "mepc", "mcause", "mtval", "sscratch", "sepc", "scause", "stval", "mip">>)
  \o [i \in 1..29 |-> Reg(i + 2)]
  \o <<Io(C("timecmp")), Csr64(C("minstret")), Csr64(C("mcycle")), Io(C("mtime")), Reg(1), Reg(2)>>
  \o <<Raw(Csrrw(1, C("dscratch"))), Csr64(C("satp")), Raw([op |-> "csrrs", rd |-> 1]), Raw([op |-> "dret"])>>

Fits(r) == Len(r.code) < DataStart /\ DataStart + Len(r.data) < RomWords

\* riscv_cpu_serialize: a new ROM, or the one in memory at its first instruction, or an error
Serialize ==
  /\ phase = "running"
  /\ phase' = CASE saved.priv = 2                              -> "unsupported"
                [] saved.priv # 3 \/ saved.where = "beyond"    -> "saving"
                [] saved.where = "boot"                        -> "from the start"
                [] OTHER                                       -> "inside the rom"
  /\ UNCHANGED <<saved, rom, h>>

Emit ==
  /\ phase = "saving" /\ rom.items < Len(Items(saved))
  /\ LET it == Items(saved)[rom.items + 1]
     IN rom' = [items |-> rom.items + 1,
                code |-> rom.code \o CodeOf(it, Len(rom.code), DataStart + Len(rom.data)),
                data |-> rom.data \o DataOf(it)]
  /\ UNCHANGED <<saved, h, phase>>

WriteRom ==
  /\ phase = "saving" /\ rom.items = Len(Items(saved))
  /\ phase' = IF Fits(rom) THEN "saved" ELSE "too small"
  /\ UNCHANGED <<saved, rom, h>>

\* virt_machine_init and riscv_cpu_deserialize: a reset hart in debug mode, with the ROM of the file
Deserialize == phase = "saved" /\ phase' = "recovering" /\ h' = Reset /\ UNCHANGED <<saved, rom>>

-----------------------------------------------------------------------------
(* Executing the ROM.  Debug mode does not hold interrupts back.             *)

Has(n) == h.csr[n] = Val(n)

\* The timer is due from reset until its compare register is written.
TakesIrq == saved.irq /\ Has(C("mstatus")) /\ Has(C("mie")) /\ ~Has(C("timecmp"))

Interrupted == phase = "recovering" /\ TakesIrq /\ phase' = "interrupted" /\ UNCHANGED <<saved, rom, h>>

WordAt(p) == IF p < DataStart THEN rom.code[p + 1] ELSE rom.data[p - DataStart + 1]
ByteAddr(v) == v[1][2]
AddrOf(a) == <<<<"addr", a, "lo">>, <<"addr", a, "hi">>>>

\* An instruction retires: the counters written before go on unless they are stopped.
Retire(d) == [d EXCEPT !.pc = @ + 1, !.late = IF d.stopped THEN @ ELSE @ \cup {n \in Counters : Has(n)}]

Step(op) == phase = "recovering" /\ ~TakesIrq /\ rom.code[h.pc + 1].op = op
Does(op, d) == Step(op) /\ h' = Retire(d) /\ UNCHANGED <<saved, rom, phase>>
Insn == rom.code[h.pc + 1]

\* create_hang_nonzero_hart: the first hart goes on after the loop
Hang == /\ Step("hang")
        /\ h' = [h EXCEPT !.x[10] = Val(<<"mhartid", 0>>), !.pc = 4]
        /\ UNCHANGED <<saved, rom, phase>>

Auipc == Does("auipc", [h EXCEPT !.x[Insn.rd] = AddrOf(4 * h.pc + Insn.imm)])
Addi  == Does("addi", [h EXCEPT !.x[Insn.rd] = AddrOf(ByteAddr(h.x[Insn.rd]) + Insn.imm)])
Seti  == Does("seti", [h EXCEPT !.x[Insn.rd] = Insn.v])

Memory(v) == LET p == ByteAddr(v) \div 4 IN <<WordAt(p), WordAt(p + 1)>>
Ld  == Does("ld", [h EXCEPT !.x[Insn.rd] = Memory(h.x[Insn.rd])])
Fld == Does("fld", [h EXCEPT !.f[Insn.rd] = Memory(h.x[1]), !.fs = 3])
Sd  == Does("sd", [h EXCEPT !.csr[C(h.x[1][1][2])] = h.x[2]])

\* csr_write: floating-point flags need the unit on and make it dirty, locked addresses stay,
\* and the privilege to return to decides whether the counters stop.
Locked(n) == n[1] = "pmpaddr" /\ saved.locked /\ Has(<<"pmpcfg", IF n[2] < 8 THEN 0 ELSE 2>>)
Written(n, v) ==
  LET d == IF Locked(n) THEN h ELSE [h EXCEPT !.csr[n] = v]
  IN CASE n = C("mstatus") -> [d EXCEPT !.fs = saved.fs]
       [] n \in FpCsrs     -> [d EXCEPT !.fs = 3]
       [] n = C("dcsr")    -> [d EXCEPT !.stopped = (saved.priv % 2 = 1)]
       [] OTHER            -> d

Illegal(n) == n \in FpCsrs /\ h.fs = 0

CsrWrite ==
  /\ Step("csrrw")
  /\ IF Illegal(Insn.n) THEN phase' = "trapped" /\ UNCHANGED h
     ELSE h' = Retire(Written(Insn.n, h.x[Insn.rs])) /\ UNCHANGED phase
  /\ UNCHANGED <<saved, rom>>

CsrRead  == Does("csrrs", [h EXCEPT !.x[Insn.rd] = h.csr[C("dscratch")]])

\* handle_dret starts the counters before the instruction is counted.
Dret == /\ Step("dret")
        /\ h' = Retire([h EXCEPT !.stopped = FALSE])
        /\ phase' = "done"
        /\ UNCHANGED <<saved, rom>>

Next == Serialize \/ Emit \/ WriteRom \/ Deserialize \/ Interrupted
        \/ Hang \/ Auipc \/ Addi \/ Seti \/ Ld \/ Fld \/ Sd \/ CsrWrite \/ CsrRead \/ Dret

Spec == Init /\ [][Next]_vars

-----------------------------------------------------------------------------
(* Properties *)

Recovered == {n \in Csrs : n[1] \notin {"plic", "tdata1", "dscratch", "mhpmcounter"}
                           /\ (n \in FpCsrs => saved.fs # 0)}

(* When the recovery code returns, every integer register and every control *)
(* register it covers holds its value of the checkpoint, whatever the order *)
(* the registers affect each other in and whatever was used on the way; so  *)
(* every instruction also found its own data (create_boot_rom).             *)
Restored ==
  phase = "done" => /\ \A i \in 1..31 : h.x[i] = Val(X(i))
                    /\ \A n \in Recovered : Has(n)

(* The recovery code fits the ROM and never traps: no state of the hart     *)
(* makes it too large, or writes the flags of a unit that is off.           *)
RecoveryRuns == phase \notin {"too small", "trapped"}

(* The floating-point unit is as it was: setup.md:107 "to recover the CPU   *)
(* to the same state as before the checkpoint was created".                 *)
FpRestored == phase = "done" /\ saved.fs # 0 => h.fs = saved.fs /\ \A i \in 0..31 : h.f[i] = Val(F(i))

(* Debug mode carries the recovery to its end: riscv_cpu.cpp:1336 "only     *)
(* just enough to restore a snapshot and stop counters".                    *)
RecoveryUninterrupted == phase # "interrupted"

(* Counters go on from where they were: setup.md:107, as above.             *)
CountersResume == phase = "done" => h.late = {}

(* The interrupt controller is as it was: setup.md:108 "not only the        *)
(* architectural state, but CSRs, and PLIC/CLINT programmed registers".     *)
PlicRestored == phase = "done" => Has(C("plic")) /\ Has(C("timecmp")) /\ Has(C("mtime"))
=============================================================================
