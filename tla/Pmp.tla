-------------------------------- MODULE Pmp --------------------------------
(***************************************************************************)
(* Physical memory protection of riscv_cpu.cpp.  The guest writes          *)
(* configuration and address registers; unpack_pmpaddrs turns them into a  *)
(* list of regions [lo; hi), which every access searches.                  *)
(***************************************************************************)
EXTENDS Integers, FiniteSets, FiniteSetTheorems

CONSTANTS
  NPmp,       \* entries, PMP_N
  AddrBits,   \* bits of an address register, which counts units of 4 bytes
  Perm,       \* permissions, a subset of {"R", "W", "X"}
  Size,       \* sizes of accesses, in bytes
  PageSize    \* bytes of a page

PmpAssumption == NPmp \in Nat \ {0} /\ AddrBits \in Nat \ {0} /\ Perm \subseteq {"R", "W", "X"}

\* 1 << j, as a recursive function so that it can be reasoned about
Bit[j \in 0..AddrBits] == IF j = 0 THEN 1 ELSE 2 * Bit[j - 1]

Entry == 0..(NPmp - 1)
Addr == 0..(Bit[AddrBits] - 1)
Bytes == 0..(4 * Bit[AddrBits] - 1)   \* physical_addr_len: beyond, every access fails
Mode == {"off", "tor", "na4", "napot"}
Cfg == [a : Mode, l : BOOLEAN, p : SUBSET Perm]
PrvM == 3

VARIABLES cfg, addr, pmp    \* csr_pmpcfg, csr_pmpaddr, and the unpacked regions

vars == <<cfg, addr, pmp>>

-----------------------------------------------------------------------------
\* The loop over j: the first bit of n that is 0
TrailingOnes(n) == CHOOSE j \in 0..AddrBits : /\ (n \div Bit[j]) % 2 = 0
                                              /\ \A i \in 0..(j - 1) : (n \div Bit[i]) % 2 = 1

\* The region of an entry.  An address register has too few bits for the code's
\* overflow cases of napot to be reached.
Region(c, a, i) ==
  CASE c[i].a = "tor" -> [lo |-> IF i = 0 THEN 0 ELSE 4 * a[i - 1], hi |-> 4 * a[i]]
    [] c[i].a = "na4" -> [lo |-> 4 * a[i], hi |-> 4 * a[i] + 4]
    [] OTHER -> LET s == 8 * Bit[TrailingOnes(a[i])]
                    lo == s * ((4 * a[i]) \div s)
                IN [lo |-> lo, hi |-> lo + s]

InUse(c, i) == c[i].a # "off"

\* pmp_n when the loop comes to entry i
PmpN(c, i) == Cardinality({j \in 0..(i - 1) : InUse(c, j)})

\* unpack_pmpaddrs, which also flushes the TLB: the regions in use, lowest entry first.
Unpack(c, a) ==
  [k \in 1..PmpN(c, NPmp) |->
     LET i == CHOOSE j \in Entry : InUse(c, j) /\ PmpN(c, j) = k - 1
         r == Region(c, a, i)
     IN [lo |-> r.lo, hi |-> r.hi, l |-> c[i].l, p |-> c[i].p]]

Init == /\ cfg = [i \in Entry |-> [a |-> "off", l |-> FALSE, p |-> {}]]
        /\ addr = [i \in Entry |-> 0]
        /\ pmp = <<>>

\* csr_write of pmpcfg: locked entries keep their value.
WriteCfg(new) ==
  /\ cfg' = [i \in Entry |-> IF cfg[i].l THEN cfg[i] ELSE new[i]]
  /\ pmp' = Unpack(cfg', addr)
  /\ UNCHANGED addr

\* A mutant: the entry above, which may begin at this address, is not looked at.
AddrLockedFault(i) == cfg[i].l

AddrLocked(i) == cfg[i].l \/ (i + 1 \in Entry /\ cfg[i + 1].a = "tor" /\ cfg[i + 1].l)

\* csr_write of pmpaddr
WriteAddr(i, val) ==
  /\ addr' = IF AddrLocked(i) THEN addr ELSE [addr EXCEPT ![i] = val]
  /\ pmp' = IF AddrLocked(i) THEN pmp ELSE Unpack(cfg, addr')
  /\ UNCHANGED cfg

Next == \/ \E i \in Entry, c \in Cfg : WriteCfg([cfg EXCEPT ![i] = c])
        \/ \E i \in Entry, a \in Addr : WriteAddr(i, a)

Spec == Init /\ [][Next]_vars

-----------------------------------------------------------------------------
(* Accesses *)

\* A mutant: the upper end is taken for inclusive.
OverlapsFault(r, paddr, size) == r.lo <= paddr + size - 1 /\ paddr <= r.hi

Overlaps(r, paddr, size) == r.lo <= paddr + size - 1 /\ paddr < r.hi

\* riscv_cpu_pmp_access_ok, with the privilege that mstatus.MPRV selects
AccessOk(paddr, size, perm, priv) ==
  LET hit == {k \in DOMAIN pmp : Overlaps(pmp[k], paddr, size)}
      k == CHOOSE x \in hit : \A y \in hit : x <= y
  IN /\ paddr \in Bytes
     /\ IF hit = {} THEN priv = PrvM
        ELSE (priv < PrvM \/ pmp[k].l) => perm \in pmp[k].p

Aligned(size) == {p \in Bytes : p % size = 0}

\* What the registers say of a byte, entry by entry.
ByteEntries(b) ==
  {i \in Entry : InUse(cfg, i) /\ LET r == Region(cfg, addr, i) IN b \in r.lo..(r.hi - 1)}

-----------------------------------------------------------------------------
(* Properties *)

\* What the lowest entry with one of the bytes says of an access.
EntryAllows(p, size, perm, priv) ==
  LET on == UNION {ByteEntries(b) : b \in p..(p + size - 1)}
      e == CHOOSE x \in on : \A y \in on : x <= y
  IN IF on = {} THEN priv = PrvM ELSE (priv < PrvM \/ cfg[e].l) => perm \in cfg[e].p

(* An access is judged by the lowest entry that has one of its bytes, and   *)
(* without one only machine mode may make it, whatever was written to which *)
(* register in which order (unpack_pmpaddrs, riscv_cpu_pmp_access_ok:       *)
(* "[lo;hi) `intersect` [paddr;paddr+size) is non-empty").                  *)
LowestEntryDecides ==
  \A size \in Size : \A p \in Aligned(size), priv \in {1, PrvM}, perm \in Perm :
    AccessOk(p, size, perm, priv) <=> EntryAllows(p, size, perm, priv)

(* The region and the permissions of a locked entry never change, by a      *)
(* write of its own registers or of its neighbour's (csr_write).            *)
LockStep ==
  \A i \in Entry : cfg[i].l =>
    /\ cfg'[i] = cfg[i]
    /\ InUse(cfg, i) => Region(cfg', addr', i) = Region(cfg, addr, i)

(* When a page passes the check it may be executed from end to end, so that *)
(* the code TLB need not ask again: riscv_cpu.cpp:748 says "All of this     *)
(* page has full execute access so we can bypass the slow PMP checks."      *)
PageMeansAll ==
  \A p \in Aligned(PageSize), priv \in {1, PrvM}, perm \in Perm :
    AccessOk(p, PageSize, perm, priv) =>
      \A b \in p..(p + PageSize - 1) : AccessOk(b, 1, perm, priv)

-----------------------------------------------------------------------------
(* The inductive invariant, and what its proofs need *)

\* The list is always what the registers say, whatever was written in which order.
PmpInv ==
  /\ cfg \in [Entry -> Cfg]
  /\ addr \in [Entry -> Addr]
  /\ pmp = Unpack(cfg, addr)

\* The entry whose region unpack_pmpaddrs puts at place k.
EntryAt(c, k) == CHOOSE i \in Entry : InUse(c, i) /\ PmpN(c, i) = k - 1

\* The code's test finds a region exactly when it has a byte of the access.
OverlapExact(r, p, size) ==
  Overlaps(r, p, size) <=> \E b \in p..(p + size - 1) : b \in r.lo..(r.hi - 1)

NoEmptyRegion ==
  \A i \in Entry : InUse(cfg, i) => Region(cfg, addr, i).lo < Region(cfg, addr, i).hi
=============================================================================
