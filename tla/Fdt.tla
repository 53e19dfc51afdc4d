-------------------------------- MODULE Fdt --------------------------------
(***************************************************************************)
(* The flattened device tree that riscv_machine.cpp builds for the guest:  *)
(* riscv_build_fdt lists nodes and properties, the fdt_ functions lay them *)
(* out as words, property names in a table of their own.                   *)
(***************************************************************************)
EXTENDS Integers, Sequences, SequencesExt, FiniteSetsExt

CONSTANTS
  NCpus,       \* numbers of harts to try, at most MAX_CPUS = 8
  NVirtio,     \* numbers of virtio devices to try, at most 11
  FdtOff,      \* offset of the tree in the boot ROM
  RomSize      \* ROM_SIZE

FdtAssumption == NCpus \subseteq 1..8 /\ NVirtio \subseteq 0..11

-----------------------------------------------------------------------------
(* What riscv_build_fdt lists.  A name is a text and the number in it; a    *)
(* word is a text and the index of its four bytes, or a number.             *)

Num(n) == <<"", n>>
PadWords(len) == (len + 3) \div 4

\* A mutant: the last, incomplete word is forgotten.
PutDataFault(text, len) == [i \in 1..(len \div 4) |-> <<text, i>>]

\* fdt_put_data, zero padded
PutData(text, len) == [i \in 1..PadWords(len) |-> <<text, i>>]

Begin(text, n) == [op |-> "begin", name |-> text, unit |-> n]
End == [op |-> "end"]
Prop(name, len, words) == [op |-> "prop", name |-> name, len |-> len, words |-> words]
PropStr(name, text) == Prop(name, Len(text) + 1, PutData(text, Len(text) + 1))
PropTabU32(name, ns) == Prop(name, 4 * Len(ns), [i \in 1..Len(ns) |-> Num(ns[i])])
PropU32(name, n) == PropTabU32(name, <<n>>)
PropEmpty(name) == Prop(name, 0, <<>>)
PropTabU64(name, k) == PropTabU32(name, [i \in 1..(2 * k) |-> 0])   \* addresses are left out

Each(lo, hi, F(_)) == FlattenSeq([i \in 1..(hi - lo + 1) |-> F(lo + i - 1)])

\* Harts have handles 1 to ncpus, the interrupt controller the next one.
Cpu(h) ==
  << Begin("cpu@0", h), PropStr("device_type", "cpu"), PropU32("reg", h), PropStr("status", "okay"),
     PropStr("compatible", "riscv"), PropStr("riscv,isa", "rv64acdfimsu"), PropStr("mmu-type", "riscv,sv48"),
     PropU32("clock-frequency", 2000000000), Begin("interrupt-controller", 0), PropU32("#interrupt-cells", 1),
     PropEmpty("interrupt-controller"), PropStr("compatible", "riscv,cpu-intc"), PropU32("phandle", h + 1),
     PropU32("linux,phandle", h + 1), End, End >>

\* A mutant: the handle of the interrupt controller is that of the last hart.
PlicHandleFault(m) == m.ncpus
PlicHandle(m) == m.ncpus + 1

\* VIRTIO_IRQ + i
VirtioIrq(i) == 4 + i

Virtio(m, i) ==
  << Begin("virtio@40010000", i), PropStr("compatible", "virtio,mmio"), PropTabU64("reg", 2),
     PropTabU32("interrupts-extended", <<PlicHandle(m), VirtioIrq(i)>>), End >>

Uart(m, i) ==
  << Begin("uart@12002000", i), PropTabU64("reg", 2), PropU32("current-speed", 115200),
     PropU32("clock-frequency", 25000000), PropU32("reg-shift", 2), PropU32("reg-io-width", 4),
     PropStr("compatible", "ns16550a"), PropU32("interrupt-parent", PlicHandle(m)),
     PropU32("interrupts", IF i = 0 THEN 3 ELSE 15), End >>

\* The local interrupts, two for each hart, that a controller raises.
HartIrqs(m, s, t) == PropTabU32("interrupts-extended", Each(0, m.ncpus - 1, LAMBDA h : <<h + 1, s, h + 1, t>>))

\* riscv_build_fdt; the frame buffer, which nothing sets, is left out.
BuildFdt(m) ==
  << Begin("", 0), PropU32("#address-cells", 2), PropU32("#size-cells", 2),
     PropStr("compatible", "ucbbar,dromajo-bar_dev"), PropStr("model", "ucbbar,dromajo-bare"),
     Begin("cpus", 0), PropU32("#address-cells", 1), PropU32("#size-cells", 0),
     PropU32("timebase-frequency", 1000000) >>
  \o Each(0, m.ncpus - 1, Cpu)
  \o << End, Begin("memory@80000000", 0), PropStr("device_type", "memory"), PropTabU64("reg", 2), End,
        Begin("soc", 0), PropU32("#address-cells", 2), PropU32("#size-cells", 2),
        PropStr("compatible", "ucbbar,dromajo-bar-soc;simple-bus"), PropEmpty("ranges"),   \* two texts
        Begin("clint@2000000", 0), PropStr("compatible", "riscv,clint0"), HartIrqs(m, 3, 7),
        PropTabU64("reg", 2), End,
        Begin("plic@10000000", 0), PropU32("#interrupt-cells", 1), PropEmpty("interrupt-controller"),
        PropStr("compatible", "riscv,plic0"), PropU32("riscv,ndev", 31), PropTabU64("reg", 2),
        HartIrqs(m, 9, 11), PropU32("phandle", PlicHandle(m)), End >>
  \o Each(0, m.virtio - 1, LAMBDA i : Virtio(m, i))
  \o Each(0, 1, LAMBDA i : Uart(m, i))
  \o << End, Begin("chosen", 0), PropStr("bootargs", "") >>
  \o (IF m.initrd THEN <<PropTabU64("linux,initrd-start", 1), PropTabU64("linux,initrd-end", 1)>> ELSE <<>>)
  \o << End, End >>

-----------------------------------------------------------------------------
(* The builder *)

VARIABLES
  machine,    \* what is described
  script,     \* what is still to be put
  tab,        \* words of the structure block
  strings,    \* property names, in the order of the string table
  depth,      \* open_node_count
  fdt         \* the header fdt_output writes, or NoFdt

vars == <<machine, script, tab, strings, depth, fdt>>
NoFdt == [totalsize |-> 0]

Init == /\ machine \in [ncpus : NCpus, virtio : NVirtio, initrd : BOOLEAN]
        /\ script = BuildFdt(machine)
        /\ tab = <<>> /\ strings = <<>> /\ depth = 0 /\ fdt = NoFdt

\* Bytes of the first k names, each with its terminator.
TableLen(names, k) == FoldLeft(LAMBDA a, s : a + Len(s) + 1, 0, SubSeq(names, 1, k))

WithName(names, name) == IF name \in Range(names) THEN names ELSE Append(names, name)

\* fdt_get_string_offset
StringOffset(names, name) ==
  TableLen(names, (CHOOSE k \in 1..Len(names) : names[k] = name) - 1)

BeginNode ==
  /\ script # <<>> /\ Head(script).op = "begin"
  /\ LET e == Head(script)
     IN tab' = tab \o <<Num(1)>> \o PutData(e.name, Len(e.name) + 1)
  /\ depth' = depth + 1 /\ script' = Tail(script)
  /\ UNCHANGED <<machine, strings, fdt>>

EndNode ==
  /\ script # <<>> /\ Head(script).op = "end"
  /\ tab' = Append(tab, Num(2))
  /\ depth' = depth - 1 /\ script' = Tail(script)
  /\ UNCHANGED <<machine, strings, fdt>>

PutProp ==
  /\ script # <<>> /\ Head(script).op = "prop"
  /\ LET e == Head(script)
     IN /\ strings' = WithName(strings, e.name)
        /\ tab' = tab \o <<Num(3), Num(e.len), Num(StringOffset(strings', e.name))>> \o e.words
  /\ script' = Tail(script)
  /\ UNCHANGED <<machine, depth, fdt>>

\* A mutant: the reserved map begins where the structure ends.
Align8Fault(pos) == pos
Align8(pos) == 8 * ((pos + 7) \div 8)

\* fdt_output; the header is 40 bytes and the one reserved entry 16.
Header(words, names) ==
  LET rsv == Align8(40 + 4 * words)
      str == rsv + 16
  IN [off_dt_struct |-> 40, size_dt_struct |-> 4 * words, off_mem_rsvmap |-> rsv,
      off_dt_strings |-> str, size_dt_strings |-> TableLen(names, Len(names)),
      totalsize |-> Align8(str + TableLen(names, Len(names)))]

Output ==
  /\ script = <<>> /\ depth = 0 /\ fdt = NoFdt
  /\ tab' = Append(tab, Num(9))
  /\ fdt' = Header(Len(tab'), strings)
  /\ UNCHANGED <<machine, script, strings, depth>>

Done == fdt # NoFdt /\ UNCHANGED vars

Next == BeginNode \/ EndNode \/ PutProp \/ Output \/ Done

Spec == Init /\ [][Next]_vars

-----------------------------------------------------------------------------
(* A reader of the tree, and the properties *)

Name(offset) == LET k == {i \in 1..Len(strings) : TableLen(strings, i - 1) = offset}
                IN IF k = {} THEN "?" ELSE strings[Min(k)]

\* Words a node name takes: up to the end of the text that begins there.
TextWords(p) == PadWords(Len(tab[p][1]) + 1)

Scan[p \in 1..(Len(tab) + 1)] ==
  IF p > Len(tab) THEN <<"cut">>
  ELSE CASE tab[p] = Num(1) -> <<<<"begin", tab[p + 1][1]>>>> \o Scan[p + 1 + TextWords(p + 1)]
         [] tab[p] = Num(2) -> <<<<"end", "">>>> \o Scan[p + 1]
         [] tab[p] = Num(3) -> LET w == PadWords(tab[p + 1][2])
                               IN <<<<"prop", Name(tab[p + 2][2]), SubSeq(tab, p + 3, p + 2 + w)>>>>
                                  \o Scan[p + 3 + w]
         [] tab[p] = Num(9) -> <<>>
         [] OTHER           -> <<<<"cut", "">>>>

Listed(e) == CASE e.op = "begin" -> <<"begin", e.name>>
               [] e.op = "end"   -> <<"end", "">>
               [] OTHER          -> <<"prop", e.name, e.words>>

(* A reader that follows the lengths and offsets of the blocks finds the    *)
(* nodes and properties that were put, each with its own name: shared       *)
(* strings, padding and nesting agree (fdt_put_data, fdt_get_string_offset).*)
ReadsBack ==
  fdt # NoFdt =>
    LET events == BuildFdt(machine)
    IN Scan[1] = [i \in 1..Len(events) |-> Listed(events[i])]

(* The blocks lie one after the other and the reserved map is aligned to    *)
(* eight bytes whatever the number of words (fdt_output).                   *)
BlocksApart ==
  fdt # NoFdt =>
    /\ fdt.off_mem_rsvmap >= fdt.off_dt_struct + fdt.size_dt_struct
    /\ fdt.off_mem_rsvmap % 8 = 0
    /\ fdt.off_dt_strings = fdt.off_mem_rsvmap + 16
    /\ fdt.totalsize >= fdt.off_dt_strings + fdt.size_dt_strings

(* Every interrupt of the tree has a controller: the handles used are those *)
(* of one controller node each, and no two devices share a number           *)
(* (riscv_build_fdt, virt_machine_init).                                    *)
HandlesResolve ==
  LET Put(name) == SelectSeq(BuildFdt(machine), LAMBDA e : e.op = "prop" /\ e.name = name)
      given  == Put("phandle")
      lines  == SelectSeq(Put("interrupts-extended"), LAMBDA e : Len(e.words) = 2)
      uarts  == Put("interrupts")
      handle == {given[i].words[1][2] : i \in 1..Len(given)}
      Irqs   == [i \in 1..(Len(lines) + Len(uarts)) |->
                   IF i <= Len(lines) THEN lines[i].words[2][2] ELSE uarts[i - Len(lines)].words[1][2]]
  IN tab = <<>> => /\ Cardinality(handle) = Len(given)
                   /\ \A i \in 1..Len(Put("interrupt-parent")) : Put("interrupt-parent")[i].words[1][2] \in handle
                   /\ \A i \in 1..Len(lines) : lines[i].words[1][2] \in handle
                   /\ \A i, j \in 1..Len(Irqs) : i # j => Irqs[i] # Irqs[j]

(* The tree ends inside the boot ROM it is written to: riscv_cpu.h:47 gives *)
(* it "ROM_SIZE       0x00001000" bytes and fdt_output checks nothing.      *)
FitsRom == FdtOff + fdt.totalsize <= RomSize
=============================================================================
