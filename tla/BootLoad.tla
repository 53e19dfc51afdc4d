------------------------------ MODULE BootLoad ------------------------------
(***************************************************************************)
(* How riscv_machine.cpp fills memory before the guest starts: copy_kernel *)
(* puts firmware (a flat image or the segments of an ELF file), kernel,    *)
(* initial RAM disk, boot ROM and device tree into the ranges that         *)
(* virt_machine_init and load_elf_image register.  A byte is a pair: the   *)
(* image it comes from and its place in it.                                *)
(***************************************************************************)
EXTENDS Integers, Sequences, SequencesExt, FiniteSets

CONSTANTS
  PageSize,
  RomSize, FdtOff,                   \* the ROM is at 0; the tree follows 256 bytes after, when not compact
  RamBase, RamSize, KernelOff,       \* KERNEL_OFFSET
  FwLen, KernelLen, InitrdLen, BootLen, FdtLen,    \* lengths to try; 0: none
  SegAddr, SegLen,                   \* addresses and lengths of segments of ELF files
  Apart                              \* whether the user keeps the images apart

BootLoadAssumption ==
  /\ PageSize \in Nat \ {0} /\ RamSize % PageSize = 0 /\ RomSize % PageSize = 0 /\ RomSize <= RamBase
  /\ RamSize \in Nat /\ KernelOff \in Nat /\ Apart \in BOOLEAN

VARIABLES
  input,     \* what the user gives
  ranges,    \* [addr, size, mem]
  step,      \* what copy_kernel does next
  seg,       \* segments loaded
  initrd,    \* <<initrd_start, initrd_end>>, for the tree
  outside    \* history: whether a copy left the memory of its range

vars == <<input, ranges, step, seg, initrd, outside>>

Zero == <<"", 0>>
Memory(addr, size) == [addr |-> addr, size |-> size, mem |-> [o \in 0..(size - 1) |-> Zero]]

\* get_ram_ptr, get_phys_mem_range
RangeOf(rs, a) == {i \in DOMAIN rs : /\ a >= rs[i].addr /\ a < rs[i].addr + rs[i].size
                                     /\ \A j \in (i + 1)..Len(rs) : ~(a >= rs[j].addr /\ a < rs[j].addr + rs[j].size)}

\* memcpy of an image to the pointer of its first byte; bytes outside are only noted
Copied(rs, a, image, from, len) ==
  [i \in DOMAIN rs |-> IF i \notin RangeOf(rs, a) THEN rs[i]
     ELSE [rs[i] EXCEPT !.mem = [o \in DOMAIN @ |-> LET k == o - (a - rs[i].addr)
                                                     IN IF k \in 0..(len - 1) THEN <<image, from + k>> ELSE @[o]]]]

Leaves(rs, a, len) == len > 0 /\ ~\E i \in RangeOf(rs, a) : a + len <= rs[i].addr + rs[i].size

Copy(rs, a, image, from, len) ==
  /\ ranges' = Copied(rs, a, image, from, len)
  /\ outside' = (outside \/ Leaves(rs, a, len))

-----------------------------------------------------------------------------
PageUp(x) == PageSize * ((x + PageSize - 1) \div PageSize)

PageDown(x) == PageSize * (x \div PageSize)

RamEnd == RamBase + RamSize
InitrdStart(len) == PageDown(RamEnd - len)

\* Where the images end up when the user keeps them apart.
LaidOut(in) ==
  LET fwEnd == IF in.elf = <<>> THEN RamBase + in.fw
               ELSE CHOOSE e \in 0..RamEnd : /\ \A i \in DOMAIN in.elf : in.elf[i].addr + PageUp(in.elf[i].memsz) <= e
                                             /\ \E i \in DOMAIN in.elf : in.elf[i].addr + PageUp(in.elf[i].memsz) = e
      kernelEnd == IF in.kernel > 0 THEN RamBase + KernelOff + in.kernel ELSE fwEnd
  IN /\ in.kernel > 0 => fwEnd <= RamBase + KernelOff
     /\ in.initrd > 0 => fwEnd <= InitrdStart(in.initrd) /\ kernelEnd <= InitrdStart(in.initrd)
     /\ ~in.compact => in.boot <= FdtOff
     /\ FdtOff + in.fdt <= RomSize /\ in.boot + in.fdt <= RomSize       \* see Fdt
     /\ \A i \in DOMAIN in.elf : in.elf[i].addr = 0 => in.elf[i].memsz <= RomSize

Segment == {e \in [addr : SegAddr, filesz : SegLen, memsz : SegLen] : e.filesz <= e.memsz}

\* ELF files of one or two segments, in the order of their addresses
Elfs == {<<e>> : e \in Segment} \cup {<<d, e>> : <<d, e>> \in {p \in Segment \X Segment : p[1].addr + p[1].memsz <= p[2].addr}}

Inputs == [fw : FwLen, elf : {<<>>} \cup Elfs, kernel : KernelLen, initrd : InitrdLen,
           boot : BootLen, fdt : FdtLen, compact : BOOLEAN]

\* virt_machine_init registers RAM and ROM.
Init == /\ input \in {in \in Inputs : (Apart => LaidOut(in)) /\ (in.elf # <<>> => in.fw = 1)}
        /\ ranges = <<Memory(RamBase, RamSize), Memory(0, RomSize)>>
        /\ step = "firmware" /\ seg = 0 /\ initrd = <<0, 0>> /\ outside = FALSE

Refuse == step' = "refused" /\ UNCHANGED <<input, ranges, seg, initrd, outside>>

Skip(now, next) == step = now /\ step' = next /\ UNCHANGED <<input, ranges, seg, initrd, outside>>

FlatFirmware ==
  /\ step = "firmware" /\ input.elf = <<>>
  /\ IF input.fw > RamSize THEN Refuse
     ELSE /\ Copy(ranges, RamBase, "fw", 0, input.fw)
          /\ step' = "kernel" /\ UNCHANGED <<input, seg, initrd>>

\* A mutant: the part of a page at the end is forgotten.
RoundedFault(e) == PageDown(e.memsz)
Rounded(e) == PageUp(e.memsz)

\* load_elf_image: a segment that is not at the start of RAM or ROM gets a range of its own.
LoadSegment ==
  /\ step = "firmware" /\ seg < Len(input.elf)
  /\ LET e == input.elf[seg + 1]
         rs == IF e.addr \in {0, RamBase} THEN ranges ELSE Append(ranges, Memory(e.addr, Rounded(e)))
     IN IF e.addr \notin {0, RamBase} /\ e.memsz = 0 THEN Refuse      \* assert of register_ram_entry
        ELSE /\ Copy(rs, e.addr, "fw", e.addr, e.filesz)
             /\ seg' = seg + 1 /\ UNCHANGED <<input, step, initrd>>

\* A mutant: the boot ROM of the file is not noticed.
HasBootromFault == FALSE

HasBootrom == \E i \in DOMAIN input.elf : input.elf[i].addr = 0

\* Without a boot ROM of its own the file must be entered at the start of RAM.
ElfLoaded(entry) ==
  /\ step = "firmware" /\ input.elf # <<>> /\ seg = Len(input.elf)
  /\ IF ~HasBootrom /\ entry # RamBase THEN Refuse ELSE Skip("firmware", "kernel")

LoadKernel ==
  /\ step = "kernel"
  /\ IF input.kernel = 0 THEN Skip("kernel", "initrd")
     ELSE IF RamSize <= KernelOff \/ input.kernel > RamSize - KernelOff THEN Refuse
     ELSE /\ Copy(ranges, RamBase + KernelOff, "kernel", 0, input.kernel)
          /\ step' = "initrd" /\ UNCHANGED <<input, seg, initrd>>

LoadInitrd ==
  /\ step = "initrd"
  /\ IF input.initrd = 0 THEN Skip("initrd", "bootrom")
     ELSE IF input.initrd > RamSize THEN Refuse
     ELSE /\ Copy(ranges, InitrdStart(input.initrd), "initrd", 0, input.initrd)
          /\ initrd' = <<InitrdStart(input.initrd), RamEnd>>
          /\ step' = "bootrom" /\ UNCHANGED <<input, seg>>

\* load_bootrom, generate_bootrom
LoadBootrom ==
  /\ step = "bootrom"
  /\ IF HasBootrom THEN Skip("bootrom", "done") ELSE
     /\ Copy(ranges, 0, "boot", 0, input.boot)
     /\ step' = "fdt" /\ UNCHANGED <<input, seg, initrd>>

BuildFdt ==
  /\ step = "fdt"
  /\ Copy(ranges, IF input.compact THEN input.boot ELSE FdtOff, "fdt", 0, input.fdt)
  /\ step' = "done" /\ UNCHANGED <<input, seg, initrd>>

Finished == step \in {"done", "refused"} /\ UNCHANGED vars

Next == FlatFirmware \/ LoadSegment \/ (\E entry \in {RamBase, RamBase + 1} : ElfLoaded(entry)) \/ LoadKernel \/ LoadInitrd \/ LoadBootrom \/ BuildFdt \/ Finished

Spec == Init /\ [][Next]_vars

-----------------------------------------------------------------------------
(* Properties *)

\* What the guest reads at an address.
Sees(a) == LET r == RangeOf(ranges, a)
           IN IF r = {} THEN Zero ELSE LET i == CHOOSE x \in r : TRUE IN ranges[i].mem[a - ranges[i].addr]

Shown(image, a, from, len) == \A k \in 0..(len - 1) : Sees(a + k) = <<image, from + k>>

(* When copy_kernel has returned zero the guest finds every image whole     *)
(* where it expects it, zeros behind the bytes of a segment, the RAM disk   *)
(* where the device tree says:                                              *)
(* riscv_machine.cpp:967 "Return non-zero on failure".                      *)
ImagesWhole ==
  step = "done" =>
    /\ input.elf = <<>> => Shown("fw", RamBase, 0, input.fw)
    /\ \A i \in DOMAIN input.elf : Shown("fw", input.elf[i].addr, input.elf[i].addr, input.elf[i].filesz)
    /\ \A i \in DOMAIN input.elf : \A k \in input.elf[i].filesz..(input.elf[i].memsz - 1) :
         Sees(input.elf[i].addr + k) = Zero
    /\ Shown("kernel", RamBase + KernelOff, 0, input.kernel)
    /\ Shown("initrd", initrd[1], 0, input.initrd) /\ input.initrd <= initrd[2] - initrd[1]
    /\ ~HasBootrom => Shown("boot", 0, 0, input.boot)

(* No copy leaves the memory of the range it begins in (load_elf_image,     *)
(* copy_kernel).                                                            *)
CopiesInside == ~outside
=============================================================================
