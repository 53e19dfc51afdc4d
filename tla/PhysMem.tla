------------------------------ MODULE PhysMem ------------------------------
(***************************************************************************)
(* Loads and stores of a hart below translation: the ranges of iomem.cpp,  *)
(* RAM with dirty bits and devices of 32-bit registers; accesses that are  *)
(* not aligned, made of several; the TLBs, which keep for a page where its *)
(* bytes are and through which a store sets no dirty bit.  A byte is a     *)
(* pair: the store it comes from and its place in it.                      *)
(***************************************************************************)
EXTENDS Integers, Sequences

CONSTANTS
  PageSize,     \* bytes of a page
  Reg,          \* bytes of a device register, 4 in the code
  RamSize,      \* RAM is registered first, at 0
  Second,       \* address of a second, later RAM range of one page
  Device,       \* address of the device, a page
  Sizes,        \* sizes of accesses, a subset of {1, 2, 4, 8}
  Closed,       \* pages where stores fault, until the guest opens them
  AllowMisaligned,  \* CONFIG_ALLOW_MISALIGNED_ACCESS
  MaxStores     \* bound: stores

PhysMemAssumption ==
  /\ PageSize \in Nat \ {0} /\ RamSize % PageSize = 0 /\ {Reg, RamSize, Second, Device, MaxStores} \subseteq Nat
  /\ Sizes \subseteq {1, 2, 4, 8} /\ \A size \in Sizes : PageSize % size = 0
  /\ AllowMisaligned \in BOOLEAN

\* phys_mem_range, in the order of registration: RAM, the second RAM and the device
RangeBase(i) == IF i = 1 THEN 0 ELSE IF i = 2 THEN Second ELSE Device
RangeSize(i) == IF i = 1 THEN RamSize ELSE PageSize
Ram == 1..2
Ranges == 1..3

Covers(i, a) == RangeBase(i) <= a /\ a < RangeBase(i) + RangeSize(i)
Mapped(a) == {i \in Ranges : Covers(i, a)} # {}
Addrs == {a \in 0..(RamSize + Second + Device + PageSize - 1) : Mapped(a)}
PageOf(a) == a \div PageSize

VARIABLES
  mem,        \* bytes of RAM, by range and offset
  tlb,        \* tlb_read and tlb_write, of one entry each: a page and the range of its bytes
  dirty,      \* dirty_bits of the buffer in use: pages
  closed,     \* pages where stores fault
  io,         \* device accesses of the last instruction, <<"r" or "w", address, bytes>>
  n,          \* stores made
  last,       \* history: the last store, [addr, size, done, fault]
  got,        \* history: the last load, <<address, bytes>>
  view,       \* history: what was stored last at every address
  written     \* history: pages written since the dirty bits were collected

vars == <<mem, tlb, dirty, closed, io, n, last, got, view, written>>
NoEntry == [page |-> -1, r |-> 0]
NoStore == [addr |-> 0, size |-> 0, done |-> 0, fault |-> FALSE]
Zero == <<0, 0>>
Beyond == <<-1, 0>>     \* a byte outside the memory of a range

\* get_phys_mem_range: the range registered last
RangeOf(a) == CHOOSE i \in Ranges : Covers(i, a) /\ \A j \in Ranges : j > i => ~Covers(j, a)

IsRam(a) == RangeOf(a) \in Ram

Init == /\ mem = [i \in Ram |-> [o \in 0..(RangeSize(i) - 1) |-> Zero]]
        /\ tlb = [r |-> NoEntry, w |-> NoEntry]
        /\ dirty = {} /\ closed = Closed /\ io = <<>> /\ n = 0
        /\ last = NoStore /\ got = <<>> /\ written = {}
        /\ view = [a \in {x \in Addrs : IsRam(x)} |-> Zero]

-----------------------------------------------------------------------------
(* One aligned access.  S is the state an instruction goes through.         *)

OffsetIn(i, a) == a - RangeBase(i)

ByteAt(s, i, a) == IF OffsetIn(i, a) \in DOMAIN s.mem[i] THEN s.mem[i][OffsetIn(i, a)] ELSE Beyond

\* The accesses a device sees: of its own size, or two of them for an access twice as large.
DeviceAccesses(rw, a, bytes) ==
  CASE Len(bytes) = Reg -> <<<<rw, a, bytes>>>>
    [] Len(bytes) = 2 * Reg -> <<<<rw, a, SubSeq(bytes, 1, Reg)>>, <<rw, a + Reg, SubSeq(bytes, Reg + 1, 2 * Reg)>>>>
    [] OTHER          -> <<>>      \* unsupported: zero is read, nothing is written

\* target_read_u*, riscv_cpu_read_memory: RAM enters the TLB
Fill(s, k, a) == [s EXCEPT !.tlb[k] = [page |-> PageOf(a), r |-> RangeOf(a)]]

ReadPart(s, a, size) ==
  LET Got(t, i) == [t EXCEPT !.val = @ \o [k \in 1..size |-> ByteAt(t, i, a + k - 1)]]
  IN IF s.tlb.r.page = PageOf(a) THEN Got(s, s.tlb.r.r)
     ELSE IF IsRam(a) THEN Got(Fill(s, "r", a), RangeOf(a))
     ELSE [s EXCEPT !.io = @ \o DeviceAccesses("r", a, [k \in 1..size |-> Zero]), !.val = @ \o [k \in 1..size |-> Zero]]

\* A mutant: the first block is not shifted.
ReadFault(s, a, size) ==
  LET al == a % size
      t == ReadPart(ReadPart(s, a - al, size), a - al + size, size)
  IN IF al = 0 THEN ReadPart(s, a, size)
     ELSE [t EXCEPT !.val = SubSeq(@, 1, size - al) \o SubSeq(@, size + 1, size + al)]

\* Without alignment the two blocks around are read, shifted and joined; a half word byte by byte.
Read(s, a, size) ==
  LET al == a % size
      t == ReadPart(ReadPart(s, a - al, size), a - al + size, size)
  IN IF al = 0 THEN ReadPart(s, a, size)
     ELSE IF size = 2 THEN ReadPart(ReadPart(s, a, 1), a + 1, 1)
     ELSE [t EXCEPT !.val = SubSeq(@, al + 1, size) \o SubSeq(@, size + 1, size + al)]

Put(s, i, a, bytes) ==
  [s EXCEPT !.mem[i] = [o \in DOMAIN @ |-> LET k == o - OffsetIn(i, a) + 1
                                            IN IF k \in DOMAIN bytes THEN bytes[k] ELSE @[o]],
            !.done = @ + Len(bytes)]

WritePart(s, a, bytes) ==
  IF s.fault THEN s
  ELSE IF s.tlb.w.page = PageOf(a) THEN Put(s, s.tlb.w.r, a, bytes)
  ELSE IF PageOf(a) \in closed THEN [s EXCEPT !.fault = TRUE]
  ELSE IF IsRam(a) THEN Put([Fill(s, "w", a) EXCEPT !.dirty = @ \cup {PageOf(a)}], RangeOf(a), a, bytes)
  ELSE [s EXCEPT !.io = @ \o DeviceAccesses("w", a, bytes), !.done = @ + Len(bytes)]

\* riscv_cpu_write_memory: without alignment byte by byte, until one faults
Byte(s, a, bytes, k) == WritePart(s, a + k - 1, <<bytes[k]>>)
Bytes2(s, a, bytes, k) == Byte(Byte(s, a, bytes, k), a, bytes, k + 1)
Bytes4(s, a, bytes, k) == Bytes2(Bytes2(s, a, bytes, k), a, bytes, k + 2)
Bytes8(s, a, bytes, k) == Bytes4(Bytes4(s, a, bytes, k), a, bytes, k + 4)

Write(s, a, bytes) ==
  IF a % Len(bytes) = 0 THEN WritePart(s, a, bytes)
  ELSE CASE Len(bytes) = 2 -> Bytes2(s, a, bytes, 1)
         [] Len(bytes) = 4 -> Bytes4(s, a, bytes, 1)
         [] Len(bytes) = 8 -> Bytes8(s, a, bytes, 1)

Start == [mem |-> mem, tlb |-> tlb, dirty |-> dirty, io |-> <<>>, done |-> 0, fault |-> FALSE, val |-> <<>>]

-----------------------------------------------------------------------------
\* Without the option an access that is not aligned traps and does nothing.
Misaligned(a, size) == ~AllowMisaligned /\ a % size # 0

Load(a, size) ==
  LET s == Read(Start, a, size)
  IN /\ ~last.fault /\ ~Misaligned(a, size)
     /\ tlb' = s.tlb /\ io' = s.io /\ got' = <<a, s.val>>
     /\ UNCHANGED <<mem, dirty, closed, n, last, view, written>>

Store(a, bytes) ==
  LET s == Write(Start, a, bytes)
      Done(x) == x - a + 1 \in 1..s.done
  IN /\ mem' = s.mem /\ io' = s.io /\ dirty' = s.dirty /\ tlb' = s.tlb /\ got' = <<>>
     /\ last' = [addr |-> a, size |-> Len(bytes), done |-> s.done, fault |-> s.fault]
     /\ view' = [x \in DOMAIN view |-> IF Done(x) THEN bytes[x - a + 1] ELSE view[x]]
     /\ written' = written \cup {PageOf(x) : x \in {y \in DOMAIN view : Done(y)}}
     /\ UNCHANGED closed

NewStore(a, size) ==
  /\ n < MaxStores /\ ~last.fault /\ ~Misaligned(a, size)
  /\ n' = n + 1
  /\ Store(a, [k \in 1..size |-> <<n + 1, k>>])

\* After a page fault the guest opens the page; it may make the store again.
OpenPages ==
  /\ last.fault
  /\ closed' = {}
  /\ got' = <<>> /\ io' = <<>> /\ last' = [last EXCEPT !.fault = FALSE]
  /\ UNCHANGED <<mem, tlb, dirty, n, view, written>>

\* A mutant: the other buffer is taken and the TLB keeps its entry.
CollectFault ==
  /\ dirty' = {} /\ written' = {} /\ got' = <<>> /\ io' = <<>>
  /\ UNCHANGED <<mem, tlb, closed, n, last, view>>

\* default_get_dirty_bits, which clears the buffer it switches to
Collect ==
  /\ dirty' = {} /\ written' = {} /\ got' = <<>> /\ io' = <<>>
  /\ tlb' = IF dirty # {} THEN [tlb EXCEPT !.w = NoEntry] ELSE tlb
  /\ UNCHANGED <<mem, closed, n, last, view>>

Inside(a, size) == /\ \A x \in {a - (a % size), a - (a % size) + size - 1, a + size - 1} : Mapped(x)
                   /\ a % size # 0 => Mapped(a - (a % size) + 2 * size - 1)

Next == \/ \E a \in Addrs, size \in Sizes : Inside(a, size) /\ (Load(a, size) \/ NewStore(a, size))
        \/ OpenPages
        \/ Collect

Spec == Init /\ [][Next]_vars

-----------------------------------------------------------------------------
(* Properties *)

(* A load of any size and alignment, through the TLB or not, returns what   *)
(* was stored last at its addresses, where the ranges registered last have  *)
(* RAM (riscv_cpu_read_memory, riscv_cpu_write_memory, get_phys_mem_range). *)
LoadSeesStores ==
  got # <<>> => \A k \in 1..Len(got[2]) :
                  LET a == got[1] + k - 1 IN a \in DOMAIN view => got[2][k] = view[a]

(* A page written since the dirty bits were collected is dirty, although    *)
(* stores that hit the TLB set no bit (default_get_dirty_bits,              *)
(* riscv_cpu_flush_tlb_write_range_ram).                                    *)
WrittenIsDirty == written \subseteq dirty
=============================================================================
