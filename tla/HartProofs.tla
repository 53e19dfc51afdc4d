----------------------------- MODULE HartProofs -----------------------------
(***************************************************************************)
(* Protection, translation, privilege, memory and atomic operations of     *)
(* Dromajo's hart, for every number of entries, size of a TLB, set of      *)
(* interrupts, memory map and number of harts: the invariants of Pmp, Tlb, *)
(* PhysMem and LrSc, and with those of Traps what MCHart promises of all.  *)
(***************************************************************************)
EXTENDS MCHart, FiniteSets, Sequences, FiniteSetTheorems, WellFoundedInduction, TLAPS

-----------------------------------------------------------------------------
(* Physical memory protection *)

\* A set of naturals has a least element.
LEMMA Least ==
  ASSUME NEW W \in SUBSET Nat, W # {}
  PROVE  \E w \in W : \A v \in W : w <= v
<1>1. \A x, y \in Nat : x < y => <<x, y>> \in OpToRel(<, Nat)
  BY DEF OpToRel
<1>2. PICK R : IsWellFoundedOn(R, Nat) /\ \A x, y \in Nat : x < y => <<x, y>> \in R
  BY <1>1, NatLessThanWellFounded, Zenon
<1>3. \E x \in W : \A y \in W : ~ (<<y, x>> \in R)
  <2>1. IsWellFoundedOn(R, Nat) /\ W \subseteq Nat /\ W # {}
    BY <1>2
  <2>2. QED
    BY ONLY <2>1, WFMin, Zenon
<1>4. \E x \in W : \A y \in W : ~ (y < x)
  BY <1>2, <1>3, Zenon
<1>5. QED
  BY <1>4

\* The recursive definition of the powers of two defines something: a table that is
\* right up to j can be made right up to j + 1.
LEMMA BitIs ==
  ASSUME AddrBits \in Nat
  PROVE  Pmp!Bit = [j \in 0..AddrBits |-> IF j = 0 THEN 1 ELSE 2 * Pmp!Bit[j - 1]]
<1> DEFINE Upto(f, k) == \A j \in 0..k : f[j] = IF j = 0 THEN 1 ELSE 2 * f[j - 1]
           Bad == {k \in 0..AddrBits : ~ \E f \in [0..AddrBits -> Int] : Upto(f, k)}
<1>1. Bad = {}
  <2>0. SUFFICES ASSUME Bad # {} PROVE FALSE
    OBVIOUS
  <2>1. PICK k \in Bad : \A v \in Bad : k <= v
    <3>1. Bad \in SUBSET Nat
      OBVIOUS
    <3>2. QED
      BY <2>0, <3>1, Least
  <2>2. CASE k = 0
    <3> DEFINE f == [j \in 0..AddrBits |-> 1]
    <3>1. f \in [0..AddrBits -> Int] /\ Upto(f, 0)
      OBVIOUS
    <3>2. QED
      BY <2>2, <3>1
  <2>3. CASE k # 0
    <3>1. k - 1 \in 0..AddrBits /\ k - 1 \notin Bad
      <4>1. k - 1 \in 0..AddrBits /\ ~(k <= k - 1)
        BY <2>3
      <4>2. QED
        BY <2>1, <4>1
    <3>2. PICK f \in [0..AddrBits -> Int] : Upto(f, k - 1)
      BY <3>1
    <3> DEFINE g == [f EXCEPT ![k] = 2 * f[k - 1]]
    <3>3. g \in [0..AddrBits -> Int]
      BY <3>1
    <3>4. Upto(g, k)
      BY <2>1, <2>3, <3>2
    <3>5. QED
      BY <3>3, <3>4
  <2>4. QED
    BY <2>2, <2>3
<1>2. PICK f \in [0..AddrBits -> Int] : Upto(f, AddrBits)
  <2>1. AddrBits \in 0..AddrBits
    OBVIOUS
  <2>2. AddrBits \notin Bad
    BY <1>1, Zenon
  <2>3. QED
    BY <2>1, <2>2
<1>3. f = [j \in 0..AddrBits |-> IF j = 0 THEN 1 ELSE 2 * f[j - 1]]
  BY <1>2
<1>4. QED
  BY <1>3 DEF Pmp!Bit

\* A weight of the encoding is at least 1.
LEMMA BitPositive ==
  ASSUME AddrBits \in Nat
  PROVE  \A j \in 0..AddrBits : Pmp!Bit[j] \in Nat /\ Pmp!Bit[j] > 0
<1> DEFINE Bad == {j \in 0..AddrBits : ~(Pmp!Bit[j] \in Nat /\ Pmp!Bit[j] > 0)}
<1>0. SUFFICES ASSUME Bad # {} PROVE FALSE
  OBVIOUS
<1>1. PICK j \in Bad : \A v \in Bad : j <= v
  <2>1. Bad \in SUBSET Nat
    OBVIOUS
  <2>2. QED
    BY <1>0, <2>1, Least
<1>2. Pmp!Bit[j] = IF j = 0 THEN 1 ELSE 2 * Pmp!Bit[j - 1]
  BY BitIs
<1>3. j # 0 => Pmp!Bit[j - 1] \in Nat /\ Pmp!Bit[j - 1] > 0
  BY <1>1
<1>4. QED
  BY <1>2, <1>3

\* An address register has a bit that is 0 at its width, at the latest.
LEMMA OnesFound ==
  ASSUME AddrBits \in Nat, NEW n \in Pmp!Addr
  PROVE  Pmp!TrailingOnes(n) \in 0..AddrBits
<1> DEFINE Zeros == {j \in 0..AddrBits : (n \div Pmp!Bit[j]) % 2 = 0}
<1>1. AddrBits \in Zeros
  <2>1. Pmp!Bit[AddrBits] \in Nat /\ Pmp!Bit[AddrBits] > 0
    BY BitPositive
  <2>2. n \in Nat /\ n < Pmp!Bit[AddrBits]
    BY <2>1 DEF Pmp!Addr
  <2>3. n \div Pmp!Bit[AddrBits] = 0
    BY <2>1, <2>2
  <2>4. QED
    BY <2>3
<1>2. PICK j \in Zeros : \A v \in Zeros : j <= v
  <2>1. Zeros \in SUBSET Nat /\ Zeros # {}
    BY <1>1
  <2> HIDE DEF Zeros
  <2>2. QED
    BY <2>1, Least
<1>3. ASSUME NEW i \in 0..(j - 1)
      PROVE  (n \div Pmp!Bit[i]) % 2 = 1
  <2>1. i \in 0..AddrBits /\ i \notin Zeros
    BY <1>2
  <2>2. Pmp!Bit[i] \in Nat /\ Pmp!Bit[i] > 0
    BY <2>1, BitPositive
  <2>3. n \in Int
    BY DEF Pmp!Addr
  <2>4. n \div Pmp!Bit[i] \in Int
    BY <2>2, <2>3
  <2>5. QED
    BY <2>1, <2>4
<1>4. QED
  BY <1>3 DEF Pmp!TrailingOnes

\* Both ends of a region are at a multiple of 4 bytes.
LEMMA RegionOfWords ==
  ASSUME AddrBits \in Nat, NPmp \in Nat, NEW c \in [Pmp!Entry -> Pmp!Cfg], NEW a \in [Pmp!Entry -> Pmp!Addr], NEW i \in Pmp!Entry
  PROVE  \E m, n \in Int : Pmp!Region(c, a, i).lo = 4 * m /\ Pmp!Region(c, a, i).hi = 4 * n
<1>1. \A j \in Pmp!Entry : a[j] \in Int
  BY DEF Pmp!Addr
<1>2. CASE c[i].a = "tor"
  <2>1. i # 0 => i - 1 \in Pmp!Entry
    BY DEF Pmp!Entry
  <2>2. PICK m \in Int : m = IF i = 0 THEN 0 ELSE a[i - 1]
    BY <1>1, <2>1
  <2>3. Pmp!Region(c, a, i).lo = 4 * m /\ Pmp!Region(c, a, i).hi = 4 * a[i]
    BY <1>2, <2>2 DEF Pmp!Region
  <2>4. QED
    BY <1>1, <2>3
<1>3. CASE c[i].a = "na4"
  <2>1. Pmp!Region(c, a, i).lo = 4 * a[i] /\ Pmp!Region(c, a, i).hi = 4 * (a[i] + 1)
    BY <1>1, <1>3 DEF Pmp!Region
  <2>2. a[i] \in Int /\ a[i] + 1 \in Int
    BY <1>1
  <2>3. QED
    BY <2>1, <2>2
<1>4. CASE c[i].a \notin {"tor", "na4"}
  <2> DEFINE b == Pmp!Bit[Pmp!TrailingOnes(a[i])]
             s == 8 * b
             q == (4 * a[i]) \div s
  <2>1. b \in Nat /\ b > 0
    BY OnesFound, BitPositive
  <2>2. Pmp!Region(c, a, i).lo = s * q /\ Pmp!Region(c, a, i).hi = s * q + s
    BY <1>4 DEF Pmp!Region
  <2> HIDE DEF b
  <2>3. s \in Int /\ s > 0 /\ 4 * a[i] \in Int
    BY <1>1, <2>1
  <2>4. q \in Int
    BY <2>3
  <2> HIDE DEF q
  <2>5. s * q = 4 * (2 * b * q) /\ s * q + s = 4 * (2 * b * q + 2 * b)
    BY <2>1, <2>4
  <2>6. 2 * b * q \in Int /\ 2 * b * q + 2 * b \in Int
    BY <2>1, <2>4
  <2>7. QED
    BY <2>2, <2>5, <2>6
<1>5. QED
  BY <1>2, <1>3, <1>4

\* pmp_n counts the entries in use: it grows by one past each of them.
LEMMA PmpNCounts ==
  ASSUME NPmp \in Nat, NEW c
  PROVE  /\ \A i \in 0..NPmp : Pmp!PmpN(c, i) \in Nat
         /\ Pmp!PmpN(c, 0) = 0
         /\ \A i \in Pmp!Entry : Pmp!PmpN(c, i + 1) = Pmp!PmpN(c, i) + (IF Pmp!InUse(c, i) THEN 1 ELSE 0)
         /\ \A i, j \in 0..NPmp : i <= j => Pmp!PmpN(c, i) <= Pmp!PmpN(c, j)
<1> DEFINE Below(i) == {j \in 0..(i - 1) : Pmp!InUse(c, j)}
<1>1. ASSUME NEW i \in 0..NPmp
      PROVE  Pmp!IsFiniteSet(Below(i)) /\ Pmp!PmpN(c, i) = Pmp!Cardinality(Below(i)) /\ Pmp!PmpN(c, i) \in Nat
  <2>1. Pmp!IsFiniteSet(0..(i - 1)) /\ Below(i) \in SUBSET (0..(i - 1))
    BY Pmp!FS_Interval
  <2>2. Pmp!IsFiniteSet(Below(i))
    BY <2>1, Pmp!FS_Subset
  <2>3. QED
    BY <2>2, Pmp!FS_CardinalityType DEF Pmp!PmpN
<1>2. Pmp!PmpN(c, 0) = 0
  <2>1. Below(0) = {}
    OBVIOUS
  <2>2. QED
    BY <2>1, Pmp!FS_EmptySet DEF Pmp!PmpN
<1>3. ASSUME NEW i \in Pmp!Entry
      PROVE  Pmp!PmpN(c, i + 1) = Pmp!PmpN(c, i) + (IF Pmp!InUse(c, i) THEN 1 ELSE 0)
  <2>1. i \in 0..NPmp /\ i + 1 \in 0..NPmp /\ i \in Int
    BY DEF Pmp!Entry
  <2>2. i \notin Below(i) /\ Below(i + 1) = IF Pmp!InUse(c, i) THEN Below(i) \cup {i} ELSE Below(i)
    BY <2>1
  <2> HIDE DEF Below
  <2>3. Pmp!Cardinality(Below(i) \cup {i}) = Pmp!Cardinality(Below(i)) + 1
    BY <1>1, <2>1, <2>2, Pmp!FS_AddElement
  <2>4. QED
    BY <1>1, <2>1, <2>2, <2>3
<1>4. ASSUME NEW i \in 0..NPmp, NEW j \in 0..NPmp, i <= j
      PROVE  Pmp!PmpN(c, i) <= Pmp!PmpN(c, j)
  <2>1. Below(i) \in SUBSET Below(j)
    BY <1>4
  <2> HIDE DEF Below
  <2>2. QED
    BY <1>1, <2>1, Pmp!FS_Subset
<1>5. QED
  BY <1>1, <1>2, <1>3, <1>4

\* The places of the list and the entries in use correspond, in the same order.
LEMMA PlacesOfEntries ==
  ASSUME NPmp \in Nat, NEW c
  PROVE  /\ \A k \in 1..Pmp!PmpN(c, NPmp) : /\ Pmp!EntryAt(c, k) \in Pmp!Entry /\ Pmp!InUse(c, Pmp!EntryAt(c, k))
                                     /\ Pmp!PmpN(c, Pmp!EntryAt(c, k)) = k - 1
         /\ \A i \in Pmp!Entry : Pmp!InUse(c, i) => /\ Pmp!PmpN(c, i) + 1 \in 1..Pmp!PmpN(c, NPmp)
                                           /\ Pmp!EntryAt(c, Pmp!PmpN(c, i) + 1) = i
         /\ \A i, j \in Pmp!Entry : Pmp!InUse(c, i) /\ i < j => Pmp!PmpN(c, i) < Pmp!PmpN(c, j)
<1>0. Pmp!Entry \subseteq 0..NPmp /\ NPmp \in 0..NPmp /\ \A i \in Pmp!Entry : i \in Int /\ i + 1 \in 0..NPmp
  BY DEF Pmp!Entry
<1>1. ASSUME NEW k \in 1..Pmp!PmpN(c, NPmp)
      PROVE  \E i \in Pmp!Entry : Pmp!InUse(c, i) /\ Pmp!PmpN(c, i) = k - 1
  <2> DEFINE Enough == {i \in 0..NPmp : k <= Pmp!PmpN(c, i)}
  <2>1. Enough \in SUBSET Nat /\ Enough # {} /\ k \in Int /\ k > 0
    BY <1>0, PmpNCounts
  <2>2. PICK m \in Enough : \A v \in Enough : m <= v
    <3> HIDE DEF Enough
    <3>1. QED
      BY <2>1, Least
  <2>3. m # 0
    BY <2>1, PmpNCounts
  <2>4. m - 1 \in Pmp!Entry /\ m - 1 \in 0..NPmp /\ (m - 1) + 1 = m
    BY <2>3 DEF Pmp!Entry
  <2>5. m - 1 \notin Enough
    <3>1. ~(m <= m - 1)
      BY <2>2
    <3>2. QED
      BY <2>2, <3>1
  <2>6. Pmp!PmpN(c, m - 1) < k /\ k <= Pmp!PmpN(c, m)
    BY <2>1, <2>2, <2>4, <2>5, PmpNCounts
  <2>7. Pmp!PmpN(c, m) = Pmp!PmpN(c, m - 1) + (IF Pmp!InUse(c, m - 1) THEN 1 ELSE 0)
    BY <2>4, PmpNCounts
  <2>8. Pmp!PmpN(c, m - 1) \in Nat
    BY <2>4, PmpNCounts
  <2>9. Pmp!InUse(c, m - 1) /\ Pmp!PmpN(c, m - 1) = k - 1
    BY <2>1, <2>6, <2>7, <2>8
  <2>10. QED
    BY <2>4, <2>9
<1>2. ASSUME NEW i \in Pmp!Entry, NEW j \in Pmp!Entry, Pmp!InUse(c, i), i < j
      PROVE  Pmp!PmpN(c, i) < Pmp!PmpN(c, j)
  <2>1. i + 1 <= j
    BY <1>0, <1>2
  <2>2. Pmp!PmpN(c, i + 1) <= Pmp!PmpN(c, j) /\ Pmp!PmpN(c, i + 1) = Pmp!PmpN(c, i) + 1
    BY <1>0, <1>2, <2>1, PmpNCounts
  <2>3. Pmp!PmpN(c, i) \in Nat /\ Pmp!PmpN(c, j) \in Nat
    BY <1>0, PmpNCounts
  <2>4. QED
    BY <2>2, <2>3
<1>3. ASSUME NEW i \in Pmp!Entry, Pmp!InUse(c, i)
      PROVE  /\ Pmp!PmpN(c, i) + 1 \in 1..Pmp!PmpN(c, NPmp)
             /\ Pmp!EntryAt(c, Pmp!PmpN(c, i) + 1) = i
  <2>1. Pmp!PmpN(c, i) \in Nat /\ Pmp!PmpN(c, NPmp) \in Nat
    BY <1>0, PmpNCounts
  <2>2. Pmp!PmpN(c, i + 1) = Pmp!PmpN(c, i) + 1 /\ Pmp!PmpN(c, i + 1) <= Pmp!PmpN(c, NPmp)
    <3>1. i + 1 <= NPmp
      BY <1>0
    <3>2. QED
      BY <1>0, <1>3, <3>1, PmpNCounts
  <2>3. (Pmp!PmpN(c, i) + 1) - 1 = Pmp!PmpN(c, i)
    BY <2>1
  <2>4. ASSUME NEW j \in Pmp!Entry, Pmp!InUse(c, j), Pmp!PmpN(c, j) = Pmp!PmpN(c, i)
        PROVE  j = i
    <3>1. ~(j < i) /\ ~(i < j)
      BY <1>2, <1>3, <2>1, <2>4
    <3>2. QED
      BY <1>0, <3>1
  <2>5. Pmp!EntryAt(c, Pmp!PmpN(c, i) + 1) = i
    BY <1>3, <2>3, <2>4 DEF Pmp!EntryAt
  <2>6. QED
    BY <2>1, <2>2, <2>5
<1>4. ASSUME NEW k \in 1..Pmp!PmpN(c, NPmp)
      PROVE  /\ Pmp!EntryAt(c, k) \in Pmp!Entry /\ Pmp!InUse(c, Pmp!EntryAt(c, k))
             /\ Pmp!PmpN(c, Pmp!EntryAt(c, k)) = k - 1
  BY <1>1 DEF Pmp!EntryAt
<1>5. QED
  BY <1>2, <1>3, <1>4

\* The entries reset unlocked and off.
LEMMA PmpInit == ASSUME Pmp!PmpAssumption, Pmp!Init PROVE Pmp!PmpInv
<1>1. cfg \in [Pmp!Entry -> Pmp!Cfg]
  BY DEF Pmp!Init, Pmp!Cfg, Pmp!Mode
<1>2. addr \in [Pmp!Entry -> Pmp!Addr]
  <2>1. Pmp!Bit[AddrBits] \in Nat /\ Pmp!Bit[AddrBits] > 0
    BY BitPositive DEF Pmp!PmpAssumption
  <2>2. 0 \in Pmp!Addr
    BY <2>1 DEF Pmp!Addr
  <2>3. QED
    BY <2>2 DEF Pmp!Init
<1>3. regions = Pmp!Unpack(cfg, addr)
  <2>1. {j \in 0..(NPmp - 1) : Pmp!InUse(cfg, j)} = {}
    BY DEF Pmp!Init, Pmp!InUse, Pmp!Entry
  <2>2. Pmp!PmpN(cfg, NPmp) = 0
    BY <2>1, Pmp!FS_EmptySet DEF Pmp!PmpN
  <2>3. 1..0 = {}
    OBVIOUS
  <2>4. DOMAIN Pmp!Unpack(cfg, addr) = {} /\ Pmp!Unpack(cfg, addr) = [k \in {} |-> Pmp!Unpack(cfg, addr)[k]]
    BY <2>2, <2>3 DEF Pmp!Unpack
  <2>5. <<>> = [k \in {} |-> Pmp!Unpack(cfg, addr)[k]]
    OBVIOUS
  <2>6. QED
    BY <2>4, <2>5 DEF Pmp!Init
<1>4. QED
  BY <1>1, <1>2, <1>3 DEF Pmp!PmpInv

\* A write of a configuration or of an address keeps the invariant, stopped or not.
LEMMA PmpStep == ASSUME Pmp!PmpInv, [Pmp!Next]_(Pmp!vars) PROVE Pmp!PmpInv'
<1>1. CASE \E i \in Pmp!Entry, c \in Pmp!Cfg : Pmp!WriteCfg([cfg EXCEPT ![i] = c])
  BY <1>1 DEF Pmp!WriteCfg, Pmp!PmpInv
<1>2. CASE \E i \in Pmp!Entry, a \in Pmp!Addr : Pmp!WriteAddr(i, a)
  BY <1>2 DEF Pmp!WriteAddr, Pmp!PmpInv
<1>3. CASE UNCHANGED Pmp!vars
  BY <1>3 DEF Pmp!vars, Pmp!PmpInv
<1>4. QED
  BY <1>1, <1>2, <1>3 DEF Pmp!Next

\* The region and permissions of a locked entry stay, since the write of the address
\* below a locked top-of-range entry is refused too (csr_write).
THEOREM EntriesLocked == ASSUME Pmp!PmpAssumption PROVE Pmp!Spec => [][Pmp!LockStep]_(Pmp!vars)
<1>1. Pmp!Init => Pmp!PmpInv
  BY PmpInit
<1>2. Pmp!PmpInv /\ [Pmp!Next]_(Pmp!vars) => Pmp!PmpInv'
  BY PmpStep
<1>3. Pmp!PmpInv /\ [Pmp!Next]_(Pmp!vars) => [Pmp!LockStep]_(Pmp!vars)
  <2> SUFFICES ASSUME Pmp!PmpInv, Pmp!Next, NEW i \in Pmp!Entry, cfg[i].l
               PROVE  /\ cfg'[i] = cfg[i]
                      /\ Pmp!InUse(cfg, i) => Pmp!Region(cfg', addr', i) = Pmp!Region(cfg, addr, i)
    BY DEF Pmp!LockStep
  <2>1. CASE \E j \in Pmp!Entry, c \in Pmp!Cfg : Pmp!WriteCfg([cfg EXCEPT ![j] = c])
    BY <2>1 DEF Pmp!WriteCfg, Pmp!Region
  <2>2. CASE \E j \in Pmp!Entry, a \in Pmp!Addr : Pmp!WriteAddr(j, a)
    <3> PICK j \in Pmp!Entry, a \in Pmp!Addr : Pmp!WriteAddr(j, a)
      BY <2>2
    <3>1. CASE Pmp!AddrLocked(j)
      BY <3>1 DEF Pmp!WriteAddr
    <3>2. CASE ~Pmp!AddrLocked(j)
      <4>1. cfg' = cfg /\ addr' = [addr EXCEPT ![j] = a] /\ addr \in [Pmp!Entry -> Pmp!Addr]
        BY <3>2 DEF Pmp!WriteAddr, Pmp!PmpInv
      <4>2. j # i /\ addr'[i] = addr[i]
        BY <3>2, <4>1 DEF Pmp!AddrLocked
      <4>3. cfg[i].a = "tor" /\ i # 0 => addr'[i - 1] = addr[i - 1]
        <5>1. ASSUME cfg[i].a = "tor", j = i - 1 PROVE FALSE
          <6>1. j + 1 = i
            BY <5>1 DEF Pmp!Entry, Pmp!PmpAssumption
          <6>2. QED
            BY <3>2, <5>1, <6>1 DEF Pmp!AddrLocked
        <5>2. i # 0 => i - 1 \in Pmp!Entry
          BY DEF Pmp!Entry, Pmp!PmpAssumption
        <5>3. QED
          BY <4>1, <5>1, <5>2
      <4>4. Pmp!Region(cfg, addr', i) = Pmp!Region(cfg, addr, i)
        BY <4>2, <4>3 DEF Pmp!Region
      <4>5. QED
        BY <4>1, <4>4
    <3>3. QED
      BY <3>1, <3>2
  <2>3. QED
    BY <2>1, <2>2 DEF Pmp!Next
<1>4. QED
  BY <1>1, <1>2, <1>3, PTL DEF Pmp!Spec

\* It is exact for an access of a word or less, because regions are made of words.
LEMMA WordOverlapExact ==
  ASSUME NEW r, NEW m \in Int, NEW n \in Int, r.lo = 4 * m, r.hi = 4 * n,
         NEW size \in {1, 2, 4}, NEW p \in Nat, p % size = 0
  PROVE  Pmp!OverlapExact(r, p, size)
<1>1. CASE Pmp!Overlaps(r, p, size)
  <2>1. r.lo <= p
    <3>1. r.lo <= p + size - 1
      BY <1>1 DEF Pmp!Overlaps
    <3>2. CASE size = 4
      <4>1. PICK k \in Int : p = 4 * k
        BY <3>2
      <4>2. QED
        BY <3>1, <3>2, <4>1
    <3>3. CASE size = 2
      <4>1. PICK k \in Int : p = 2 * k
        BY <3>3
      <4>2. QED
        BY <3>1, <3>3, <4>1
    <3>4. CASE size = 1
      BY <3>1, <3>4
    <3>5. QED
      BY <3>2, <3>3, <3>4
  <2>2. p < r.hi
    BY <1>1 DEF Pmp!Overlaps
  <2>3. p \in p..(p + size - 1) /\ p \in r.lo..(r.hi - 1)
    BY <2>1, <2>2
  <2>4. QED
    BY <1>1, <2>3 DEF Pmp!OverlapExact
<1>2. ASSUME NEW b \in p..(p + size - 1), b \in r.lo..(r.hi - 1)
      PROVE  Pmp!Overlaps(r, p, size)
  BY <1>2 DEF Pmp!Overlaps
<1>3. QED
  BY <1>1, <1>2 DEF Pmp!OverlapExact

\* Where the code's test for an overlap is exact, an access is decided by the lowest
\* entry that has one of its bytes.
LEMMA LowestOverlapDecides ==
  ASSUME Pmp!PmpAssumption, Pmp!PmpInv, NEW size \in Nat \ {0}, NEW p \in Pmp!Aligned(size),
         NEW priv \in {1, Pmp!PrvM}, NEW perm \in Perm,
         \A i \in Pmp!Entry : Pmp!InUse(cfg, i) => Pmp!OverlapExact(Pmp!Region(cfg, addr, i), p, size)
  PROVE  Pmp!AccessOk(p, size, perm, priv) <=> Pmp!EntryAllows(p, size, perm, priv)
<1> DEFINE on == UNION {Pmp!ByteEntries(b) : b \in p..(p + size - 1)}
           hit == {k \in DOMAIN regions : Pmp!Overlaps(regions[k], p, size)}
           At(k) == Pmp!EntryAt(cfg, k)
           Place(i) == Pmp!PmpN(cfg, i) + 1
<1>1. /\ NPmp \in Nat /\ AddrBits \in Nat /\ cfg \in [Pmp!Entry -> Pmp!Cfg] /\ addr \in [Pmp!Entry -> Pmp!Addr]
      /\ p \in Pmp!Bytes
  BY DEF Pmp!PmpAssumption, Pmp!PmpInv, Pmp!Aligned, Pmp!Bytes
<1>2. /\ DOMAIN regions = 1..Pmp!PmpN(cfg, NPmp)
      /\ \A k \in 1..Pmp!PmpN(cfg, NPmp) : LET r == Pmp!Region(cfg, addr, At(k))
                                    IN regions[k] = [lo |-> r.lo, hi |-> r.hi,
                                                 l |-> cfg[At(k)].l, p |-> cfg[At(k)].p]
  BY DEF Pmp!PmpInv, Pmp!Unpack, Pmp!EntryAt
<1>3. ASSUME NEW i
      PROVE  i \in on <=> i \in Pmp!Entry /\ Pmp!InUse(cfg, i) /\ Pmp!Overlaps(Pmp!Region(cfg, addr, i), p, size)
  BY DEF Pmp!ByteEntries, Pmp!OverlapExact
<1> HIDE DEF on
<1>4. ASSUME NEW k
      PROVE  k \in hit <=> k \in 1..Pmp!PmpN(cfg, NPmp) /\ At(k) \in on
  <2>1. k \in 1..Pmp!PmpN(cfg, NPmp) =>
          (Pmp!Overlaps(regions[k], p, size) <=> Pmp!Overlaps(Pmp!Region(cfg, addr, At(k)), p, size))
    BY <1>2 DEF Pmp!Overlaps
  <2>2. k \in 1..Pmp!PmpN(cfg, NPmp) => At(k) \in Pmp!Entry /\ Pmp!InUse(cfg, At(k))
    BY <1>1, PlacesOfEntries
  <2>3. QED
    BY <1>2, <1>3, <2>1, <2>2
<1> HIDE DEF hit
<1>5. ASSUME NEW i \in on
      PROVE  i \in Pmp!Entry /\ Pmp!InUse(cfg, i) /\ Place(i) \in hit /\ At(Place(i)) = i
  <2>1. i \in Pmp!Entry /\ Pmp!InUse(cfg, i)
    BY <1>3
  <2>2. Place(i) \in 1..Pmp!PmpN(cfg, NPmp) /\ At(Place(i)) = i
    BY <1>1, <2>1, PlacesOfEntries
  <2>3. QED
    BY <1>4, <2>1, <2>2
<1>6. CASE hit = {}
  <2>1. on = {}
    BY <1>5, <1>6
  <2>2. Pmp!AccessOk(p, size, perm, priv) <=> priv = Pmp!PrvM
    BY <1>1, <1>6 DEF Pmp!AccessOk, hit
  <2>3. QED
    BY <2>1, <2>2 DEF Pmp!EntryAllows, on
<1>7. CASE hit # {}
  <2>1. hit \in SUBSET Nat
    BY <1>4
  <2>2. PICK k \in hit : \A y \in hit : k <= y
    BY <1>7, <2>1, Least
  <2>3. k = CHOOSE x \in hit : \A y \in hit : x <= y
    <3>1. \A x \in hit : (\A y \in hit : x <= y) => x = k
      BY <2>1, <2>2
    <3>2. QED
      BY <2>2, <3>1
  <2>4. k \in 1..Pmp!PmpN(cfg, NPmp) /\ At(k) \in on
    BY <1>4
  <2>5. ASSUME NEW y \in on
        PROVE  At(k) <= y
    <3>1. k <= Place(y) /\ Pmp!PmpN(cfg, At(k)) = k - 1 /\ At(k) \in Pmp!Entry
      BY <1>1, <1>5, <2>2, <2>4, PlacesOfEntries
    <3>2. y \in Pmp!Entry /\ Pmp!InUse(cfg, y)
      BY <1>5
    <3>3. y < At(k) => Pmp!PmpN(cfg, y) < Pmp!PmpN(cfg, At(k))
      BY <1>1, <3>1, <3>2, PlacesOfEntries
    <3>4. k \in Int /\ At(k) \in Int /\ y \in Int /\ y \in 0..NPmp
      BY <1>1, <2>4, <3>1, <3>2 DEF Pmp!Entry
    <3>5. Pmp!PmpN(cfg, y) \in Nat
      BY <1>1, <3>4, PmpNCounts
    <3>6. QED
      BY <3>1, <3>3, <3>4, <3>5
  <2>6. At(k) = CHOOSE x \in on : \A y \in on : x <= y
    <3>1. \A x \in on : x \in Int
      BY <1>5 DEF Pmp!Entry
    <3>2. \A x \in on : (\A y \in on : x <= y) => x = At(k)
      BY <2>4, <2>5, <3>1
    <3>3. QED
      BY <2>4, <2>5, <3>2
  <2>7. Pmp!AccessOk(p, size, perm, priv) <=> ((priv < Pmp!PrvM \/ regions[k].l) => perm \in regions[k].p)
    BY <1>1, <1>7, <2>3 DEF Pmp!AccessOk, hit
  <2>8. regions[k].l = cfg[At(k)].l /\ regions[k].p = cfg[At(k)].p
    BY <1>2, <2>4
  <2>9. on # {}
    BY <2>4
  <2>10. QED
    BY <2>6, <2>7, <2>8, <2>9 DEF Pmp!EntryAllows, on
<1>8. QED
  BY <1>6, <1>7

\* Every access of a word or less is decided by the lowest entry that has one of its
\* bytes, for any number of entries and whatever was written to which register in
\* which order (unpack_pmpaddrs, riscv_cpu_pmp_access_ok).
THEOREM LowestDecides ==
  ASSUME Pmp!PmpAssumption, Size \subseteq {1, 2, 4} PROVE Pmp!Spec => []Pmp!LowestEntryDecides
<1>1. Pmp!Init => Pmp!PmpInv
  BY PmpInit
<1>2. Pmp!PmpInv /\ [Pmp!Next]_(Pmp!vars) => Pmp!PmpInv'
  BY PmpStep
<1>3. Pmp!PmpInv => Pmp!LowestEntryDecides
  <2> SUFFICES ASSUME Pmp!PmpInv, NEW size \in Size, NEW p \in Pmp!Aligned(size), NEW i \in Pmp!Entry
               PROVE  Pmp!OverlapExact(Pmp!Region(cfg, addr, i), p, size)
    BY LowestOverlapDecides DEF Pmp!LowestEntryDecides
  <2>1. \E m, n \in Int : Pmp!Region(cfg, addr, i).lo = 4 * m /\ Pmp!Region(cfg, addr, i).hi = 4 * n
    BY RegionOfWords DEF Pmp!PmpAssumption, Pmp!PmpInv
  <2>2. size \in {1, 2, 4} /\ p \in Nat /\ p % size = 0
    BY DEF Pmp!Aligned, Pmp!Bytes
  <2>3. QED
    BY <2>1, <2>2, WordOverlapExact
<1>4. QED
  BY <1>1, <1>2, <1>3, PTL DEF Pmp!Spec

\* So is every wider access, down to the check of a whole page, while no entry in use
\* has an empty region, which the code would find in the middle of the access.
THEOREM LowestDecidesWide ==
  ASSUME Pmp!PmpAssumption, Size \subseteq Nat \ {0}
  PROVE  Pmp!Spec /\ []Pmp!NoEmptyRegion => []Pmp!LowestEntryDecides
<1>1. Pmp!Init => Pmp!PmpInv
  BY PmpInit
<1>2. Pmp!PmpInv /\ [Pmp!Next]_(Pmp!vars) => Pmp!PmpInv'
  BY PmpStep
<1>3. Pmp!PmpInv /\ Pmp!NoEmptyRegion => Pmp!LowestEntryDecides
  <2> SUFFICES ASSUME Pmp!PmpInv, Pmp!NoEmptyRegion, NEW size \in Size, NEW p \in Pmp!Aligned(size),
                      NEW i \in Pmp!Entry, Pmp!InUse(cfg, i)
               PROVE  Pmp!OverlapExact(Pmp!Region(cfg, addr, i), p, size)
    BY LowestOverlapDecides DEF Pmp!LowestEntryDecides
  <2> DEFINE r == Pmp!Region(cfg, addr, i)
  <2>1. r.lo \in Int /\ r.hi \in Int
    <3>1. PICK m, n \in Int : r.lo = 4 * m /\ r.hi = 4 * n
      BY RegionOfWords DEF Pmp!PmpAssumption, Pmp!PmpInv
    <3>2. QED
      BY <3>1
  <2>2. r.lo < r.hi
    BY DEF Pmp!NoEmptyRegion
  <2>3. size \in Nat /\ size > 0 /\ p \in Nat
    BY DEF Pmp!Aligned, Pmp!Bytes
  <2> HIDE DEF r
  <2>4. ASSUME Pmp!Overlaps(r, p, size)
        PROVE  \E b \in p..(p + size - 1) : b \in r.lo..(r.hi - 1)
    <3>1. CASE r.lo <= p
      BY <2>1, <2>3, <2>4, <3>1 DEF Pmp!Overlaps
    <3>2. CASE p < r.lo
      BY <2>1, <2>2, <2>3, <2>4, <3>2 DEF Pmp!Overlaps
    <3>3. QED
      BY <2>1, <2>3, <3>1, <3>2
  <2>5. ASSUME NEW b \in p..(p + size - 1), b \in r.lo..(r.hi - 1)
        PROVE  Pmp!Overlaps(r, p, size)
    BY <2>1, <2>3, <2>5 DEF Pmp!Overlaps
  <2>6. QED
    BY <2>4, <2>5 DEF Pmp!OverlapExact, r
<1>4. QED
  BY <1>1, <1>2, <1>3, PTL DEF Pmp!Spec

-----------------------------------------------------------------------------
(* The TLBs *)

\* A virtual page has a slot of the TLB, and is never the mark of an empty one.
LEMMA SlotType == ASSUME Tlb!TlbAssumption, NEW v \in Tlb!Page PROVE Tlb!Slot(v) \in Tlb!Index /\ v \in Int /\ v # -1
BY DEF Tlb!TlbAssumption, Tlb!Page, Tlb!Slot, Tlb!Index

\* An empty TLB answers nothing, so it is right whatever changed.
LEMMA FlushedRight ==
  ASSUME Tlb!TlbAssumption, cpu' \in Tlb!Cpu, pt' \in [Tlb!Page -> Tlb!Pte], tlb' = Tlb!Flushed, accessed' = Tlb!None
  PROVE  Tlb!TlbInv'
<1>1. Tlb!Flushed \in [Tlb!Kind -> [Tlb!Index -> [v : Int, p : Int]]]
  BY DEF Tlb!Flushed, Tlb!Index, Tlb!Empty
<1>2. ASSUME NEW kind \in Tlb!Kind, NEW v \in Tlb!Page
      PROVE  ~Tlb!Hit(kind, v)'
  <2>1. tlb'[kind][Tlb!Slot(v)].v = -1
    BY SlotType DEF Tlb!Flushed, Tlb!Index, Tlb!Empty
  <2>2. QED
    BY <2>1, SlotType DEF Tlb!Hit
<1>3. QED
  BY <1>1, <1>2 DEF Tlb!TlbInv, Tlb!Sure

\* A step that keeps the TLB is right when it keeps what the checks depend on.
LEMMA KeptRight ==
  ASSUME Tlb!TlbInv, cpu' \in Tlb!Cpu, accessed' = Tlb!None, UNCHANGED <<pt, open, tlb, edited>>,
         \A kind \in Tlb!Sure : Tlb!EffPriv(cpu', kind) = Tlb!EffPriv(cpu, kind),
         cpu'.sum = cpu.sum, cpu'.satp = cpu.satp
  PROVE  Tlb!TlbInv'
<1>1. ASSUME NEW kind \in Tlb!Sure, NEW v
      PROVE  Tlb!Translate(cpu, kind, v)' = Tlb!Translate(cpu, kind, v)
  BY DEF Tlb!Translate
<1>2. ASSUME NEW kind \in Tlb!Sure, NEW p, NEW o
      PROVE  Tlb!PmpOk(cpu, kind, p, o)' <=> Tlb!PmpOk(cpu, kind, p, o)
  BY DEF Tlb!PmpOk
<1>3. ASSUME NEW kind \in Tlb!Sure, NEW v, NEW p, Tlb!EntryRight(kind, v, p)
      PROVE  Tlb!EntryRight(kind, v, p)'
  BY <1>1, <1>2, <1>3 DEF Tlb!EntryRight, Tlb!AnswerRight
<1>4. ASSUME NEW kind \in Tlb!Sure, NEW v \in Tlb!Page, Tlb!Hit(kind, v)'
      PROVE  Tlb!EntryRight(kind, v, tlb[kind][Tlb!Slot(v)].p)'
  BY <1>3, <1>4 DEF Tlb!TlbInv, Tlb!Hit
<1>5. QED
  BY <1>4 DEF Tlb!TlbInv

\* The TLBs reset empty and the tables map nothing.
LEMMA TlbInit == ASSUME Tlb!TlbAssumption, Tlb!Init PROVE Tlb!TlbInv
<1>1. cpu \in Tlb!Cpu
  BY DEF Tlb!Init, Tlb!Cpu, Tlb!Prv, Tlb!PrvM
<1>2. tlb \in [Tlb!Kind -> [Tlb!Index -> [v : Int, p : Int]]]
  BY DEF Tlb!Init, Tlb!Flushed, Tlb!Index, Tlb!Empty
<1>3. ASSUME NEW kind \in Tlb!Kind, NEW v \in Tlb!Page
      PROVE  ~Tlb!Hit(kind, v)
  <2>1. tlb[kind][Tlb!Slot(v)].v = -1
    BY SlotType DEF Tlb!Init, Tlb!Flushed, Tlb!Index, Tlb!Empty
  <2>2. QED
    BY <2>1, SlotType DEF Tlb!Hit
<1>4. pt \in [Tlb!Page -> Tlb!Pte]
  BY DEF Tlb!Init, Tlb!Pte
<1>5. QED
  BY <1>1, <1>2, <1>3, <1>4 DEF Tlb!TlbInv, Tlb!Init, Tlb!Sure

\* A hit repeats an answer that is right; a miss asks the checks themselves.
LEMMA AccessStep ==
  ASSUME Tlb!TlbAssumption, Tlb!TlbInv, NEW kind \in Tlb!Kind, NEW v \in Tlb!Page, NEW o \in Offset, Tlb!DoAccess(kind, v, o)
  PROVE  Tlb!TlbInv'
<1>0. UNCHANGED <<cpu, pt, open, edited>>
  BY DEF Tlb!DoAccess
<1>1. ASSUME NEW k, NEW w, NEW p, NEW off
      PROVE  Tlb!AnswerRight(k, w, p, off)' <=> Tlb!AnswerRight(k, w, p, off)
  BY <1>0 DEF Tlb!AnswerRight, Tlb!Translate, Tlb!PmpOk
<1>2. ASSUME NEW k, NEW w, NEW p
      PROVE  Tlb!EntryRight(k, w, p)' <=> Tlb!EntryRight(k, w, p)
  BY <1>1 DEF Tlb!EntryRight
<1>3. CASE Tlb!Hit(kind, v)
  <2>1. accessed' = <<kind, v, o, tlb[kind][Tlb!Slot(v)].p>> /\ tlb' = tlb
    BY <1>3 DEF Tlb!DoAccess
  <2>2. kind \in Tlb!Sure => Tlb!AnswerRight(kind, v, tlb[kind][Tlb!Slot(v)].p, o)
    BY <1>3 DEF Tlb!TlbInv, Tlb!EntryRight
  <2>3. ASSUME NEW k \in Tlb!Sure, NEW w \in Tlb!Page, Tlb!Hit(k, w)'
        PROVE  Tlb!EntryRight(k, w, tlb[k][Tlb!Slot(w)].p)'
    BY <2>1, <2>3, <1>2 DEF Tlb!TlbInv, Tlb!Hit
  <2>4. (accessed[1] \in Tlb!Sure => Tlb!AnswerRight(accessed[1], accessed[2], accessed[4], accessed[3]))'
    BY <2>1, <2>2, <1>1
  <2>5. QED
    BY <1>0, <2>1, <2>3, <2>4 DEF Tlb!TlbInv
<1>4. CASE ~Tlb!Hit(kind, v)
  <2> DEFINE p == Tlb!Translate(cpu, kind, v)
  <2>1. CASE p = -1 \/ ~Tlb!PmpOk(cpu, kind, p, o)
    <3>1. accessed' = Tlb!None /\ tlb' = tlb
      BY <1>4, <2>1 DEF Tlb!DoAccess
    <3>2. ASSUME NEW k \in Tlb!Sure, NEW w \in Tlb!Page, Tlb!Hit(k, w)'
          PROVE  Tlb!EntryRight(k, w, tlb[k][Tlb!Slot(w)].p)'
      BY <3>1, <3>2, <1>2 DEF Tlb!TlbInv, Tlb!Hit
    <3>3. QED
      BY <1>0, <3>1, <3>2 DEF Tlb!TlbInv
  <2>2. CASE p # -1 /\ Tlb!PmpOk(cpu, kind, p, o)
    <3> DEFINE e == [v |-> v, p |-> p]
    <3>1. /\ accessed' = <<kind, v, o, p>>
          /\ tlb' = IF Tlb!Fills(cpu, kind, p) THEN [tlb EXCEPT ![kind][Tlb!Slot(v)] = e] ELSE tlb
      BY <1>4, <2>2 DEF Tlb!DoAccess
    <3>2. p \in Int
      <4>1. v \in Int /\ pt[v] \in Tlb!Pte
        BY SlotType DEF Tlb!TlbInv
      <4>2. pt[v] # Tlb!NoPte => pt[v].p \in Int
        BY <4>1 DEF Tlb!Pte, Tlb!TlbAssumption, Tlb!Page
      <4>3. QED
        BY <4>1, <4>2 DEF Tlb!Translate
    <3>3. Tlb!AnswerRight(kind, v, p, o)
      BY <2>2 DEF Tlb!AnswerRight
    <3>4. Tlb!Fills(cpu, kind, p) => Tlb!EntryRight(kind, v, p)
      BY <2>2 DEF Tlb!AnswerRight, Tlb!EntryRight, Tlb!Fills
    <3>5. e \in [v : Int, p : Int] /\ e.v = v /\ e.p = p
      BY <3>2, SlotType
    <3> HIDE DEF p, e
    <3>6. tlb' \in [Tlb!Kind -> [Tlb!Index -> [v : Int, p : Int]]]
      BY <3>1, <3>5, SlotType DEF Tlb!TlbInv
    <3>7. ASSUME NEW k \in Tlb!Sure, NEW w \in Tlb!Page, Tlb!Hit(k, w)'
          PROVE  Tlb!EntryRight(k, w, tlb[k][Tlb!Slot(w)].p)'
      <4>1. CASE tlb'[k][Tlb!Slot(w)] = tlb[k][Tlb!Slot(w)]
        BY <3>7, <4>1, <1>2 DEF Tlb!TlbInv, Tlb!Hit
      <4>2. CASE tlb'[k][Tlb!Slot(w)] # tlb[k][Tlb!Slot(w)]
        <5>1. Tlb!Fills(cpu, kind, p) /\ k = kind /\ tlb'[k][Tlb!Slot(w)] = e
          BY <3>1, <4>2, SlotType DEF Tlb!TlbInv, Tlb!Sure
        <5>2. w = v
          BY <3>5, <3>7, <5>1 DEF Tlb!Hit
        <5>3. QED
          BY <3>4, <3>5, <5>1, <5>2, <1>2
      <4>3. QED
        BY <4>1, <4>2
    <3>8. Tlb!AnswerRight(accessed[1], accessed[2], accessed[4], accessed[3])'
      BY <3>1, <3>3, <1>1
    <3>9. QED
      BY <1>0, <3>1, <3>6, <3>7, <3>8 DEF Tlb!TlbInv
  <2>3. QED
    BY <2>1, <2>2
<1>5. QED
  BY <1>3, <1>4

\* A change of privilege flushes; where the privilege stays, the effective one of
\* loads and stores must stay too.
LEMMA PrivStep ==
  ASSUME Tlb!TlbAssumption, Tlb!TlbInv, NEW d \in Tlb!Cpu, NEW priv \in Tlb!Prv, Tlb!SetPriv(d, priv), accessed' = Tlb!None,
         UNCHANGED <<pt, open>>, d.mprv = cpu.mprv, d.sum = cpu.sum, d.satp = cpu.satp,
         cpu.priv = priv /\ cpu.mprv => d.mpp = cpu.mpp \/ MprvTraps
  PROVE  Tlb!TlbInv'
<1>1. cpu' = [d EXCEPT !.priv = priv] /\ cpu' \in Tlb!Cpu /\ pt' \in [Tlb!Page -> Tlb!Pte]
  BY DEF Tlb!SetPriv, Tlb!Cpu, Tlb!TlbInv
<1>2. CASE cpu.priv # priv
  BY <1>1, <1>2, FlushedRight DEF Tlb!SetPriv, Tlb!Flush
<1>3. CASE cpu.priv = priv
  <2>1. UNCHANGED <<pt, open, tlb, edited>>
    BY <1>3 DEF Tlb!SetPriv, Tlb!Keep
  <2>2. /\ cpu'.priv = priv /\ cpu'.mprv = cpu.mprv /\ cpu'.mpp = d.mpp
        /\ cpu'.sum = cpu.sum /\ cpu'.satp = cpu.satp
    BY <1>1 DEF Tlb!Cpu
  <2>3. \A kind \in Tlb!Sure : Tlb!EffPriv(cpu', kind) = Tlb!EffPriv(cpu, kind)
    BY <1>3, <2>2 DEF Tlb!EffPriv, Tlb!Sure
  <2>4. QED
    BY <1>1, <2>1, <2>2, <2>3, KeptRight
<1>4. QED
  BY <1>2, <1>3

\* A write of mstatus that changes nothing for loads and stores need not flush.
LEMMA StatusStep ==
  ASSUME Tlb!TlbAssumption, Tlb!TlbInv, NEW d \in Tlb!Cpu, cpu' = d, accessed' = Tlb!None, UNCHANGED <<pt, open>>,
         d.priv = cpu.priv, d.satp = cpu.satp,
         IF Tlb!MmuChanged(cpu, cpu') THEN Tlb!Flush ELSE Tlb!Keep
  PROVE  Tlb!TlbInv'
<1>1. CASE Tlb!MmuChanged(cpu, cpu')
  BY <1>1, FlushedRight DEF Tlb!Flush, Tlb!TlbInv
<1>2. CASE ~Tlb!MmuChanged(cpu, cpu')
  <2>1. UNCHANGED <<pt, open, tlb, edited>>
    BY <1>2 DEF Tlb!Keep
  <2>2. d.mprv = cpu.mprv /\ d.sum = cpu.sum /\ (cpu.mprv => d.mpp = cpu.mpp)
    BY <1>2 DEF Tlb!MmuChanged
  <2>3. \A kind \in Tlb!Sure : Tlb!EffPriv(cpu', kind) = Tlb!EffPriv(cpu, kind)
    BY <2>2 DEF Tlb!EffPriv
  <2>4. QED
    BY <2>1, <2>2, <2>3, KeptRight
<1>3. QED
  BY <1>1, <1>2

\* An edit of the table leaves an answer behind only for the page that was edited.
LEMMA EditStep ==
  ASSUME Tlb!TlbAssumption, Tlb!TlbInv, NEW v \in Tlb!Page, NEW e \in Tlb!Pte, Tlb!EditTable(v, e)
  PROVE  Tlb!TlbInv'
<1>1. UNCHANGED <<cpu, open, tlb>> /\ accessed' = Tlb!None /\ pt' = [pt EXCEPT ![v] = e]
  BY DEF Tlb!EditTable
<1>2. pt' \in [Tlb!Page -> Tlb!Pte]
  BY <1>1 DEF Tlb!TlbInv
<1>3. CASE tlb = Tlb!Flushed
  BY <1>1, <1>2, <1>3, FlushedRight DEF Tlb!TlbInv
<1>4. CASE tlb # Tlb!Flushed
  <2>1. edited' = edited \cup {v}
    BY <1>4 DEF Tlb!EditTable
  <2>2. ASSUME NEW kind \in Tlb!Sure, NEW w \in Tlb!Page, NEW p, Tlb!EntryRight(kind, w, p)
        PROVE  Tlb!EntryRight(kind, w, p)'
    <3>1. \A o : Tlb!PmpOk(cpu, kind, p, o)' <=> Tlb!PmpOk(cpu, kind, p, o)
      BY <1>1 DEF Tlb!PmpOk
    <3>2. w \in edited' \/ Tlb!Translate(cpu, kind, w)' = Tlb!Translate(cpu, kind, w)
      <4>1. CASE w = v
        BY <2>1, <4>1
      <4>2. CASE w # v
        <5>1. pt'[w] = pt[w]
          BY <1>1, <4>2 DEF Tlb!TlbInv
        <5>2. QED
          BY <1>1, <5>1 DEF Tlb!Translate
      <4>3. QED
        BY <4>1, <4>2
    <3>3. QED
      BY <1>1, <2>1, <2>2, <3>1, <3>2 DEF Tlb!EntryRight, Tlb!AnswerRight
  <2>3. ASSUME NEW kind \in Tlb!Sure, NEW w \in Tlb!Page, Tlb!Hit(kind, w)'
        PROVE  Tlb!EntryRight(kind, w, tlb[kind][Tlb!Slot(w)].p)'
    BY <1>1, <2>2, <2>3 DEF Tlb!TlbInv, Tlb!Hit
  <2>4. QED
    BY <1>1, <1>2, <2>3 DEF Tlb!TlbInv
<1>5. QED
  BY <1>3, <1>4

\* Every access, fence and rewrite of the tables keeps the invariant of the TLBs.
LEMMA TlbStep ==
  ASSUME Tlb!TlbAssumption, Tlb!TlbInv, [Tlb!Next]_(Tlb!vars)
  PROVE  Tlb!TlbInv'
<1>0. cpu \in Tlb!Cpu /\ pt \in [Tlb!Page -> Tlb!Pte]
  BY DEF Tlb!TlbInv
<1>1. CASE \E k \in Tlb!Kind, v \in Tlb!Page, o \in Offset : Tlb!DoAccess(k, v, o)
  BY <1>1, AccessStep
<1>2. CASE \E b, s \in BOOLEAN, p \in Tlb!Prv : Tlb!SetMstatus(b, p, s)
  <2> PICK b, s \in BOOLEAN, p \in Tlb!Prv : Tlb!SetMstatus(b, p, s)
    BY <1>2
  <2> DEFINE d == [cpu EXCEPT !.mprv = b, !.mpp = p, !.sum = s]
  <2>1. d \in Tlb!Cpu /\ d.priv = cpu.priv /\ d.satp = cpu.satp
    BY <1>0 DEF Tlb!Cpu
  <2>2. /\ cpu' = d /\ accessed' = Tlb!None /\ UNCHANGED <<pt, open>>
        /\ IF Tlb!MmuChanged(cpu, cpu') THEN Tlb!Flush ELSE Tlb!Keep
    BY DEF Tlb!SetMstatus
  <2> HIDE DEF d
  <2>3. QED
    BY <2>1, <2>2, StatusStep
<1>3. CASE \E b \in BOOLEAN : Tlb!SetSum(b)
  <2> PICK b \in BOOLEAN : Tlb!SetSum(b)
    BY <1>3
  <2> DEFINE d == [cpu EXCEPT !.sum = b]
  <2>1. d \in Tlb!Cpu /\ d.priv = cpu.priv /\ d.satp = cpu.satp
    BY <1>0 DEF Tlb!Cpu
  <2>2. /\ cpu' = d /\ accessed' = Tlb!None /\ UNCHANGED <<pt, open>>
        /\ IF Tlb!MmuChanged(cpu, cpu') THEN Tlb!Flush ELSE Tlb!Keep
    BY DEF Tlb!SetSum
  <2> HIDE DEF d
  <2>3. QED
    BY <2>1, <2>2, StatusStep
<1>4. CASE (\E b \in BOOLEAN : Tlb!WriteSatp(b)) \/ Tlb!SfenceVma \/ \E s \in [Tlb!Page -> Tlb!Protection] : Tlb!WritePmp(s)
  <2>1. cpu' \in Tlb!Cpu /\ pt' \in [Tlb!Page -> Tlb!Pte] /\ tlb' = Tlb!Flushed /\ accessed' = Tlb!None
    BY <1>0, <1>4 DEF Tlb!WriteSatp, Tlb!SfenceVma, Tlb!WritePmp, Tlb!Flush, Tlb!Cpu
  <2>2. QED
    BY <2>1, FlushedRight
<1>5. CASE Tlb!TrapM
  <2> DEFINE d == [cpu EXCEPT !.mpp = cpu.priv]
  <2>1. /\ d \in Tlb!Cpu /\ d.mprv = cpu.mprv /\ d.sum = cpu.sum /\ d.satp = cpu.satp
        /\ cpu.priv = Tlb!PrvM /\ cpu.mprv => MprvTraps
    BY <1>0, <1>5 DEF Tlb!TrapM, Tlb!Cpu
  <2>2. Tlb!SetPriv(d, Tlb!PrvM) /\ accessed' = Tlb!None /\ UNCHANGED <<pt, open>> /\ Tlb!PrvM \in Tlb!Prv
    BY <1>5 DEF Tlb!TrapM, Tlb!PrvM, Tlb!Prv
  <2> HIDE DEF d
  <2>3. QED
    BY <2>1, <2>2, PrivStep
<1>6. CASE Tlb!TrapS \/ \E spp \in {0, 1} : Tlb!Sret(spp)
  <2> PICK priv \in {0, 1} : Tlb!SetPriv(cpu, priv) /\ accessed' = Tlb!None /\ UNCHANGED <<pt, open>>
    BY <1>6 DEF Tlb!TrapS, Tlb!Sret
  <2>1. priv \in Tlb!Prv
    BY DEF Tlb!Prv
  <2>2. QED
    BY <1>0, <2>1, PrivStep
<1>7. CASE Tlb!Mret
  <2> DEFINE d == [cpu EXCEPT !.mpp = 0]
  <2>1. /\ d \in Tlb!Cpu /\ d.mprv = cpu.mprv /\ d.sum = cpu.sum /\ d.satp = cpu.satp
        /\ cpu.mpp \in Tlb!Prv /\ (cpu.priv = cpu.mpp /\ cpu.mprv => MprvTraps)
    BY <1>0, <1>7 DEF Tlb!Mret, Tlb!Cpu, Tlb!Prv
  <2>2. Tlb!SetPriv(d, cpu.mpp) /\ accessed' = Tlb!None /\ UNCHANGED <<pt, open>>
    BY <1>7 DEF Tlb!Mret
  <2> HIDE DEF d
  <2>3. QED
    BY <2>1, <2>2, PrivStep
<1>8. CASE \E v \in Tlb!Page, e \in Tlb!Pte : Tlb!EditTable(v, e)
  BY <1>8, EditStep
<1>9. CASE UNCHANGED Tlb!vars
  <2>1. UNCHANGED <<cpu, pt, open, tlb, edited, accessed>>
    BY <1>9 DEF Tlb!vars
  <2>2. \A kind, v, p, o : Tlb!AnswerRight(kind, v, p, o)' <=> Tlb!AnswerRight(kind, v, p, o)
    BY <2>1 DEF Tlb!AnswerRight, Tlb!Translate, Tlb!PmpOk
  <2>3. \A kind, v, p : Tlb!EntryRight(kind, v, p)' <=> Tlb!EntryRight(kind, v, p)
    BY <2>2 DEF Tlb!EntryRight
  <2>4. \A kind, v : Tlb!Hit(kind, v)' <=> Tlb!Hit(kind, v)
    BY <2>1 DEF Tlb!Hit
  <2>5. QED
    BY <2>1, <2>2, <2>3, <2>4 DEF Tlb!TlbInv
<1>10. QED
  BY <1>1, <1>2, <1>3, <1>4, <1>5, <1>6, <1>7, <1>8, <1>9 DEF Tlb!Next

\* The TLBs answer what a walk would answer now, however the guest changes privilege,
\* mstatus, satp and its tables, except for the pages edited since the last fence
\* (set_priv, set_mstatus, tlb_flush_all).  A trap or mret in machine mode under MPRV
\* would break it for loads and stores.
THEOREM TlbTranslates ==
  ASSUME Tlb!TlbAssumption, ~MprvTraps PROVE Tlb!Spec => []Tlb!AccessIsTranslated
<1>1. Tlb!Init => Tlb!TlbInv
  BY TlbInit
<1>2. Tlb!TlbInv /\ [Tlb!Next]_(Tlb!vars) => Tlb!TlbInv'
  BY TlbStep
<1>3. Tlb!TlbInv => Tlb!AccessIsTranslated
  BY DEF Tlb!TlbInv, Tlb!AnswerRight, Tlb!AccessIsTranslated, Tlb!Sure
<1>4. QED
  BY <1>1, <1>2, <1>3, PTL DEF Tlb!Spec

\* Whatever traps are taken, a fetch reaches the page that a walk would find now, unless
\* edited, and the protection of now permits it in its own part or in the part of the
\* region that comes first on the page: MPRV does not touch fetches, and a fill asks for
\* the whole page, for which that region answers (riscv_cpu_pmp_access_ok,
\* target_read_insn_slow).  So a fetch that its own part refuses is one whose page has
\* several regions, of which the first permits.
THEOREM TlbFetches ==
  ASSUME Tlb!TlbAssumption PROVE Tlb!Spec => []Tlb!FetchIsRight
<1>1. Tlb!Init => Tlb!TlbInv
  BY TlbInit
<1>2. Tlb!TlbInv /\ [Tlb!Next]_(Tlb!vars) => Tlb!TlbInv'
  BY TlbStep
<1>3. Tlb!TlbInv => Tlb!FetchIsRight
  BY DEF Tlb!TlbInv, Tlb!AnswerRight, Tlb!FetchIsRight, Tlb!Sure
<1>4. QED
  BY <1>1, <1>2, <1>3, PTL DEF Tlb!Spec

\* Where all parts of a page have the same protection, loads and stores are permitted
\* too.  With finer regions they are not: the first access decides for the page.
THEOREM TlbPermits ==
  ASSUME Tlb!TlbAssumption, ~MprvTraps, \A o1, o2 \in Offset : o1 = o2
  PROVE  Tlb!Spec => []Tlb!AccessIsPermitted
<1>1. Tlb!Init => Tlb!TlbInv
  BY TlbInit
<1>2. Tlb!TlbInv /\ [Tlb!Next]_(Tlb!vars) => Tlb!TlbInv'
  BY TlbStep
<1>3. Tlb!TlbInv => Tlb!AccessIsPermitted
  BY DEF Tlb!TlbInv, Tlb!AnswerRight, Tlb!AccessIsPermitted, Tlb!Sure
<1>4. QED
  BY <1>1, <1>2, <1>3, PTL DEF Tlb!Spec

-----------------------------------------------------------------------------
(* Physical memory *)

\* The ranges lie at pages, as RAM and the devices of the machine do; a segment of an image
\* need not, and then the TLB knows one range of a page that has two.
RangesOnPages == Second % RamPage = 0 /\ Device % RamPage = 0

\* A page boundary is below an address exactly when its page is not above the address's.
LEMMA PageBound ==
  ASSUME NEW p \in Nat \ {0}, NEW b \in Nat, b % p = 0, NEW x \in Nat
  PROVE  b <= x <=> b \div p <= x \div p
<1> DEFINE q == b \div p
           y == x \div p
           r == x % p
<1>1. b = p * q /\ q \in Nat
  OBVIOUS
<1>2. x = p * y + r /\ y \in Nat /\ r \in 0..(p - 1)
  OBVIOUS
<1> HIDE DEF q, y, r
<1>3. CASE q <= y
  <2>1. PICK d \in Nat : y = q + d
    BY <1>1, <1>2, <1>3
  <2>2. p * y = p * q + p * d /\ p * d \in Nat
    BY <1>1, <2>1
  <2>3. QED
    BY <1>1, <1>2, <1>3, <2>2 DEF q, y
<1>4. CASE ~(q <= y)
  <2>1. PICK d \in Nat : q = y + 1 + d
    BY <1>1, <1>2, <1>4
  <2>2. p * q = p * y + p + p * d /\ p * d \in Nat
    BY <1>2, <2>1
  <2>3. QED
    BY <1>1, <1>2, <1>4, <2>2 DEF q, y
<1>5. QED
  BY <1>3, <1>4

\* The end of a page is a page boundary.
LEMMA PageEnd ==
  ASSUME NEW p \in Nat \ {0}, NEW b \in Nat, b % p = 0
  PROVE  (b + p) \in Nat /\ (b + p) % p = 0
<1>1. b = p * (b \div p) /\ b \div p \in Nat
  OBVIOUS
<1> DEFINE d == b \div p + 1
           x == b + p
<1>2. x = p * d + 0 /\ d \in Nat /\ 0 \in 0..(p - 1) /\ x \in Nat
  BY <1>1
<1> HIDE DEF d, x
<1>3. x \div p = d /\ x % p = 0
  BY <1>2
<1>4. QED
  BY <1>2, <1>3 DEF x

\* The addresses are those of the ranges.
LEMMA MappedAddrs == ASSUME NEW x \in Nat, Phys!Mapped(x) PROVE x \in Phys!Addrs
<1>1. PICK i \in Phys!Ranges : Phys!Covers(i, x)
  BY DEF Phys!Mapped
<1>2. RamPage \in Nat \ {0} /\ RamSize \in Nat /\ Second \in Nat /\ Device \in Nat
  BY MemoryAssumption DEF Phys!PhysMemAssumption
<1>3. x < RamSize + Second + Device + RamPage
  BY <1>1, <1>2 DEF Phys!Covers, Phys!RangeBase, Phys!RangeSize, Phys!Ranges
<1>4. QED
  BY <1>2, <1>3 DEF Phys!Addrs

\* Addresses of one page are in the same range, or in none.
LEMMA SamePage ==
  ASSUME RangesOnPages, NEW a \in Phys!Addrs, NEW b \in Nat, Phys!PageOf(b) = Phys!PageOf(a)
  PROVE  b \in Phys!Addrs /\ Phys!RangeOf(b) = Phys!RangeOf(a)
<1>0. /\ RamPage \in Nat \ {0} /\ RamSize \in Nat /\ Second \in Nat /\ Device \in Nat /\ a \in Nat
      /\ RamSize % RamPage = 0 /\ Second % RamPage = 0 /\ Device % RamPage = 0
  BY MemoryAssumption DEF Phys!PhysMemAssumption, Phys!Addrs, RangesOnPages
<1> DEFINE Bounds == {0, RamSize, Second, Second + RamPage, Device, Device + RamPage}
<1>1. \A c \in Bounds : c <= a <=> c <= b
  <2>1. ASSUME NEW c \in Nat, c % RamPage = 0 PROVE c <= a <=> c <= b
    BY <1>0, <2>1, PageBound DEF Phys!PageOf
  <2>2. /\ (Second + RamPage) \in Nat /\ (Second + RamPage) % RamPage = 0
        /\ (Device + RamPage) \in Nat /\ (Device + RamPage) % RamPage = 0
    BY <1>0, PageEnd
  <2>3. /\ RamSize <= a <=> RamSize <= b
        /\ Second <= a <=> Second <= b
        /\ Device <= a <=> Device <= b
    BY <1>0, <2>1
  <2>4. /\ Second + RamPage <= a <=> Second + RamPage <= b
        /\ Device + RamPage <= a <=> Device + RamPage <= b
    BY ONLY <2>1, <2>2
  <2>5. QED
    BY <1>0, <2>3, <2>4
<1>2. \A i \in Phys!Ranges : Phys!Covers(i, a) <=> Phys!Covers(i, b)
  BY <1>0, <1>1 DEF Phys!Covers, Phys!RangeBase, Phys!RangeSize, Phys!Ranges
<1>3. b \in Phys!Addrs
  BY <1>0, <1>2, MappedAddrs DEF Phys!Addrs, Phys!Mapped
<1>4. Phys!RangeOf(b) = Phys!RangeOf(a)
  BY <1>2 DEF Phys!RangeOf, Phys!Ranges
<1>5. QED
  BY <1>3, <1>4

\* An address has a range, and its offset is inside it.
LEMMA RangeCovers ==
  ASSUME NEW a \in Phys!Addrs
  PROVE  /\ a \in Nat /\ Phys!PageOf(a) \in Nat
         /\ Phys!RangeOf(a) \in Phys!Ranges
         /\ a - Phys!RangeBase(Phys!RangeOf(a)) \in 0..(Phys!RangeSize(Phys!RangeOf(a)) - 1)
<1>0. RamPage \in Nat \ {0} /\ RamSize \in Nat /\ Second \in Nat /\ Device \in Nat /\ a \in Nat
  BY MemoryAssumption DEF Phys!PhysMemAssumption, Phys!Addrs
<1>1. \E i \in Phys!Ranges : Phys!Covers(i, a) /\ \A j \in Phys!Ranges : j > i => ~Phys!Covers(j, a)
  BY DEF Phys!Addrs, Phys!Mapped, Phys!Ranges
<1>2. Phys!RangeOf(a) \in Phys!Ranges /\ Phys!Covers(Phys!RangeOf(a), a)
  BY <1>1 DEF Phys!RangeOf
<1>3. Phys!PageOf(a) \in Nat
  BY <1>0 DEF Phys!PageOf
<1>4. QED
  BY <1>0, <1>2, <1>3 DEF Phys!Covers, Phys!RangeBase, Phys!RangeSize, Phys!Ranges

\* An aligned access stays on its page.
LEMMA OnOnePage ==
  ASSUME NEW m \in {1, 2, 4, 8}, RamPage % m = 0, NEW a \in Nat, a % m = 0, NEW k \in 0..(m - 1)
  PROVE  Phys!PageOf(a + k) = Phys!PageOf(a)
<1>0. RamPage \in Nat \ {0}
  BY MemoryAssumption DEF Phys!PhysMemAssumption
<1> DEFINE q == a \div RamPage
           r == a % RamPage
<1>1. a = RamPage * q + r /\ q \in Nat /\ r \in 0..(RamPage - 1)
  BY <1>0
<1>2. PICK u \in Nat : RamPage = m * u
  BY <1>0
<1>3. PICK v \in Nat : a = m * v
  <2>1. a = m * (a \div m) /\ a \div m \in Nat
    OBVIOUS
  <2>2. QED
    BY <2>1
<1>4. RamPage * q = m * (u * q) /\ u * q \in Nat
  BY <1>1, <1>2
<1> HIDE DEF q, r
<1>5. r + k < RamPage
  <2> DEFINE w == u * q
  <2> HIDE DEF w
  <2>1. w \in Nat /\ m * v = m * w + r /\ r < m * u
    BY <1>1, <1>2, <1>3, <1>4 DEF w
  <2>2. QED
    BY <2>1, <1>1, <1>2
<1>6. a + k = RamPage * q + (r + k) /\ r + k \in 0..(RamPage - 1)
  BY <1>0, <1>1, <1>4, <1>5
<1>7. (a + k) \div RamPage = q
  BY <1>0, <1>1, <1>6
<1>8. QED
  BY <1>7 DEF Phys!PageOf, q

\* The state an instruction goes through is a record; what it holds of memory has the
\* shape of the ranges, and its TLB entries say where the bytes of their page are.
Cell == Int \X Int
RamAddrs == {x \in Phys!Addrs : Phys!IsRam(x)}
MemAt(m, x) == m[Phys!RangeOf(x)][x - Phys!RangeBase(Phys!RangeOf(x))]
MemShape(m) == /\ m = [i \in Phys!Ram |-> m[i]]
               /\ \A i \in Phys!Ram : m[i] \in [0..(Phys!RangeSize(i) - 1) -> Cell]
PageEntry(e) == /\ e \in [page : Int, r : Int]
                /\ e.page # -1 => \E x \in RamAddrs : e.page = Phys!PageOf(x) /\ e.r = Phys!RangeOf(x)
PageEntries(t) == t = [r |-> t.r, w |-> t.w] /\ PageEntry(t.r) /\ PageEntry(t.w)
StateRecord(s) ==
  /\ s = [mem |-> s.mem, tlb |-> s.tlb, dirty |-> s.dirty, io |-> s.io, done |-> s.done,
          fault |-> s.fault, val |-> s.val]
  /\ MemShape(s.mem) /\ PageEntries(s.tlb)

\* An access of m bytes at a.
Aligned(a, m) == m \in {1, 2, 4, 8} /\ RamPage % m = 0 /\ a % m = 0

\* What a store has done when k of its bytes have been tried.
Storing(s, a, bytes, k) ==
  /\ StateRecord(s)
  /\ s.fault \in BOOLEAN /\ s.done \in 0..k /\ (~s.fault => s.done = k)
  /\ s.tlb.w.page # -1 => s.tlb.w.page \in s.dirty
  /\ dirty \subseteq s.dirty
  /\ \A x \in RamAddrs :
       /\ MemAt(s.mem, x) = IF x - a + 1 \in 1..s.done THEN bytes[x - a + 1] ELSE view[x]
       /\ x - a + 1 \in 1..s.done => Phys!PageOf(x) \in s.dirty

\* Bytes put into a range change the addresses they are for and no other.
BytesPut(s, t, a, bytes, m) ==
  /\ StateRecord(t)
  /\ t.tlb = s.tlb /\ t.dirty = s.dirty /\ t.fault = s.fault /\ t.done = s.done + m
  /\ \A x \in RamAddrs :
       MemAt(t.mem, x) = IF x - a + 1 \in 1..m THEN bytes[x - a + 1] ELSE MemAt(s.mem, x)

LEMMA PutRight ==
  ASSUME RangesOnPages, NEW s, StateRecord(s), s.done \in Nat, NEW m, NEW bytes \in Seq(Cell), Len(bytes) = m,
         NEW a \in RamAddrs, Aligned(a, m),
         NEW t, t = Phys!Put(s, Phys!RangeOf(a), a, bytes)
  PROVE  BytesPut(s, t, a, bytes, m)
<1> DEFINE i == Phys!RangeOf(a)
           off == a - Phys!RangeBase(i)
           after == [o \in DOMAIN s.mem[i] |-> IF o - off + 1 \in DOMAIN bytes THEN bytes[o - off + 1] ELSE s.mem[i][o]]
<1>1. i \in Phys!Ram /\ a \in Nat /\ a \in Phys!Addrs
  BY RangeCovers DEF RamAddrs, Phys!IsRam
<1>11. m \in {1, 2, 4, 8} /\ RamPage % m = 0 /\ a % m = 0
  BY DEF Aligned
<1>2. t = [s EXCEPT !.mem[i] = after, !.done = s.done + m]
  BY DEF Phys!Put, Phys!OffsetIn
<1>3. s.mem = [j \in Phys!Ram |-> s.mem[j]] /\ s.mem[i] \in [0..(Phys!RangeSize(i) - 1) -> Cell]
  BY <1>1 DEF StateRecord, MemShape
<1>0. DOMAIN bytes = 1..m /\ \A k \in 1..m : bytes[k] \in Cell
  OBVIOUS
<1>4. after \in [0..(Phys!RangeSize(i) - 1) -> Cell]
  <2>1. DOMAIN s.mem[i] = 0..(Phys!RangeSize(i) - 1) /\ \A o \in DOMAIN s.mem[i] : s.mem[i][o] \in Cell
    BY <1>3
  <2>2. QED
    BY <1>0, <2>1
<1> HIDE DEF after
<1> DEFINE m2 == [s.mem EXCEPT ![i] = after]
<1>5. m2 = [j \in Phys!Ram |-> m2[j]] /\ m2[i] = after /\ \A j \in Phys!Ram : j # i => m2[j] = s.mem[j]
  BY <1>1, <1>3
<1>6. MemShape(m2)
  BY <1>1, <1>4, <1>5 DEF StateRecord, MemShape
<1>7. t = [mem |-> m2, tlb |-> s.tlb, dirty |-> s.dirty, io |-> s.io, done |-> s.done + m,
           fault |-> s.fault, val |-> s.val]
  BY <1>2 DEF StateRecord
<1> HIDE DEF m2
<1>8. StateRecord(t)
  BY <1>6, <1>7 DEF StateRecord
<1>9. ASSUME NEW x \in RamAddrs
      PROVE  MemAt(m2, x) = IF x - a + 1 \in 1..m THEN bytes[x - a + 1] ELSE MemAt(s.mem, x)
  <2> DEFINE j == Phys!RangeOf(x)
             o == x - Phys!RangeBase(j)
  <2>1. j \in Phys!Ram /\ x \in Nat /\ x \in Phys!Addrs /\ o \in 0..(Phys!RangeSize(j) - 1)
    BY RangeCovers DEF RamAddrs, Phys!IsRam
  <2>2. CASE j = i
    <3>1. Phys!RangeBase(i) \in Int
      BY <1>1, MemoryAssumption DEF Phys!RangeBase, Phys!PhysMemAssumption
    <3>2. o - off + 1 = x - a + 1
      BY <1>1, <2>1, <2>2, <3>1
    <3>3. MemAt(m2, x) = after[o]
      BY <1>5, <2>2 DEF MemAt
    <3>4. after[o] = IF o - off + 1 \in 1..m THEN bytes[o - off + 1] ELSE s.mem[i][o]
      <4>1. o \in DOMAIN s.mem[i] /\ DOMAIN bytes = 1..m
        BY <1>0, <1>3, <2>1, <2>2
      <4>2. QED
        BY <4>1 DEF after
    <3>5. QED
      BY <2>2, <3>2, <3>3, <3>4 DEF MemAt
  <2>3. CASE j # i
    <3>1. x - a + 1 \notin 1..m
      <4> SUFFICES ASSUME x - a + 1 \in 1..m PROVE FALSE
        OBVIOUS
      <4>1. PICK k \in 0..(m - 1) : x = a + k
        <5>1. x - a \in 0..(m - 1) /\ x = a + (x - a)
          BY <1>1, <1>11, <2>1
        <5>2. QED
          BY <5>1
      <4>2. Phys!PageOf(x) = Phys!PageOf(a)
        BY <1>1, <1>11, <4>1, OnOnePage
      <4>3. QED
        BY <1>1, <2>1, <2>3, <4>2, SamePage
    <3>2. QED
      BY <1>5, <2>1, <2>3, <3>1 DEF MemAt
  <2>4. QED
    BY <2>2, <2>3
<1>10. QED
  BY <1>7, <1>8, <1>9 DEF BytesPut

\* An entry made for an address of RAM is right.
LEMMA FillRight ==
  ASSUME NEW s, StateRecord(s), NEW a \in RamAddrs
  PROVE  LET e == [page |-> Phys!PageOf(a), r |-> Phys!RangeOf(a)]
         IN /\ PageEntry(e)
            /\ Phys!Fill(s, "w", a) = [mem |-> s.mem, tlb |-> [r |-> s.tlb.r, w |-> e], dirty |-> s.dirty,
                                       io |-> s.io, done |-> s.done, fault |-> s.fault, val |-> s.val]
            /\ Phys!Fill(s, "r", a) = [mem |-> s.mem, tlb |-> [r |-> e, w |-> s.tlb.w], dirty |-> s.dirty,
                                       io |-> s.io, done |-> s.done, fault |-> s.fault, val |-> s.val]
<1> DEFINE e == [page |-> Phys!PageOf(a), r |-> Phys!RangeOf(a)]
<1>1. PageEntry(e)
  BY RangeCovers DEF RamAddrs, PageEntry, Phys!Ranges
<1>2. \A k : Phys!Fill(s, k, a) = [s EXCEPT !.tlb = [s.tlb EXCEPT ![k] = e]]
  BY DEF Phys!Fill
<1>3. s.tlb = [r |-> s.tlb.r, w |-> s.tlb.w]
  BY DEF StateRecord, PageEntries
<1>4. [s.tlb EXCEPT !["w"] = e] = [r |-> s.tlb.r, w |-> e] /\ [s.tlb EXCEPT !["r"] = e] = [r |-> e, w |-> s.tlb.w]
  BY <1>3
<1>5. QED
  BY <1>1, <1>2, <1>4 DEF StateRecord

\* A store that faults leaves what was done.
LEMMA FaultKeeps ==
  ASSUME NEW s, NEW a, NEW bytes, NEW k \in Nat, NEW m \in Nat, Storing(s, a, bytes, k)
  PROVE  Storing([s EXCEPT !.fault = TRUE], a, bytes, k + m)
<1> DEFINE t == [s EXCEPT !.fault = TRUE]
<1>1. t = [mem |-> s.mem, tlb |-> s.tlb, dirty |-> s.dirty, io |-> s.io, done |-> s.done,
           fault |-> TRUE, val |-> s.val]
  <2>1. StateRecord(s)
    BY DEF Storing
  <2>2. \A v : [s EXCEPT !.fault = v] = [mem |-> s.mem, tlb |-> s.tlb, dirty |-> s.dirty, io |-> s.io,
                                         done |-> s.done, fault |-> v, val |-> s.val]
    BY <2>1 DEF StateRecord
  <2>3. QED
    BY <2>2
<1> HIDE DEF t
<1>2. StateRecord(t)
  BY <1>1 DEF Storing, StateRecord
<1>3. s.done \in 0..(k + m)
  BY DEF Storing
<1>4. Storing(t, a, bytes, k + m)
  BY <1>1, <1>2, <1>3 DEF Storing
<1>5. QED
  BY <1>4 DEF t

\* target_write_u*: one aligned store of m bytes, the bytes k + 1 to k + m of the whole.
LEMMA WritePartRight ==
  ASSUME RangesOnPages, NEW s, NEW a \in Nat, NEW bytes, NEW k \in Nat, Storing(s, a, bytes, k),
         NEW m \in {1, 2, 4, 8}, RamPage % m = 0, NEW b \in Phys!Addrs, b = a + k, b % m = 0,
         NEW bs \in Seq(Cell), Len(bs) = m, \A j \in 1..m : bs[j] = bytes[k + j]
  PROVE  Storing(Phys!WritePart(s, b, bs), a, bytes, k + m)
<1> DEFINE t == Phys!WritePart(s, b, bs)
<1>0. /\ StateRecord(s) /\ s.fault \in BOOLEAN /\ s.done \in 0..k /\ (~s.fault => s.done = k)
      /\ s.tlb.w.page # -1 => s.tlb.w.page \in s.dirty
      /\ dirty \subseteq s.dirty
  BY DEF Storing
<1>1. CASE s.fault
  <2>1. t = s
    BY <1>1 DEF Phys!WritePart
  <2>2. s.done \in 0..(k + m)
    BY <1>0
  <2>3. QED
    BY <1>1, <2>1, <2>2 DEF Storing
<1>2. CASE ~s.fault /\ b \notin RamAddrs
  <2>1. s.tlb.w.page # Phys!PageOf(b)
    <3> SUFFICES ASSUME s.tlb.w.page = Phys!PageOf(b) PROVE FALSE
      OBVIOUS
    <3>1. Phys!PageOf(b) \in Nat
      BY RangeCovers
    <3>2. PICK x \in RamAddrs : Phys!PageOf(b) = Phys!PageOf(x)
      BY <1>0, <3>1 DEF StateRecord, PageEntries, PageEntry
    <3>3. QED
      BY <1>2, <3>2, SamePage DEF RamAddrs, Phys!IsRam
  <2>2. CASE Phys!PageOf(b) \in closed
    <3>1. t = [s EXCEPT !.fault = TRUE]
      BY <1>2, <2>1, <2>2 DEF Phys!WritePart
    <3>2. QED
      BY <1>0, <3>1, FaultKeeps
  <2>3. CASE Phys!PageOf(b) \notin closed
    <3> DEFINE acc == s.io \o Phys!DeviceAccesses("w", b, bs)
    <3>1. t = [s EXCEPT !.io = acc, !.done = s.done + m]
      BY <1>2, <2>1, <2>3 DEF Phys!WritePart, RamAddrs
    <3> HIDE DEF acc
    <3>2. t = [mem |-> s.mem, tlb |-> s.tlb, dirty |-> s.dirty, io |-> acc, done |-> s.done + m,
               fault |-> s.fault, val |-> s.val]
      BY <1>0, <3>1 DEF StateRecord
    <3> HIDE DEF t
    <3>3. StateRecord(t)
      BY <1>0, <3>2 DEF StateRecord
    <3>4. \A x \in RamAddrs : x - a + 1 \in 1..(s.done + m) => x - a + 1 \in 1..s.done
      <4> SUFFICES ASSUME NEW x \in RamAddrs, x - a + 1 \in 1..(s.done + m), x - a + 1 \notin 1..s.done PROVE FALSE
        OBVIOUS
      <4>1. s.done = k /\ x \in Nat /\ x \in Phys!Addrs
        BY <1>0, <1>2, RangeCovers DEF RamAddrs
      <4>2. PICK j \in 0..(m - 1) : x = b + j
        <5>1. x - b \in 0..(m - 1) /\ x = b + (x - b)
          BY <4>1
        <5>2. QED
          BY <5>1
      <4>3. Phys!PageOf(x) = Phys!PageOf(b)
        BY <4>2, RangeCovers, OnOnePage
      <4>4. QED
        BY <1>2, <4>1, <4>3, SamePage DEF RamAddrs, Phys!IsRam
    <3>5. t.done \in 0..(k + m) /\ t.done = k + m /\ t.fault = s.fault
      BY <1>0, <1>2, <3>2
    <3>6. \A x \in RamAddrs :
            /\ MemAt(t.mem, x) = IF x - a + 1 \in 1..t.done THEN bytes[x - a + 1] ELSE view[x]
            /\ x - a + 1 \in 1..t.done => Phys!PageOf(x) \in t.dirty
      <4> SUFFICES ASSUME NEW x \in RamAddrs
                   PROVE  /\ MemAt(t.mem, x) = IF x - a + 1 \in 1..t.done THEN bytes[x - a + 1] ELSE view[x]
                          /\ x - a + 1 \in 1..t.done => Phys!PageOf(x) \in t.dirty
        OBVIOUS
      <4>1. x - a + 1 \in 1..t.done <=> x - a + 1 \in 1..s.done
        BY <1>0, <3>2, <3>4
      <4>2. t.mem = s.mem /\ t.dirty = s.dirty
        BY <3>2
      <4>3. QED
        BY <4>1, <4>2 DEF Storing
    <3>7. Storing(t, a, bytes, k + m)
      BY <1>0, <3>2, <3>3, <3>5, <3>6 DEF Storing
    <3>8. QED
      BY <3>7 DEF t
  <2>4. QED
    BY <2>2, <2>3
<1>3. CASE ~s.fault /\ b \in RamAddrs
  <2> DEFINE i == Phys!RangeOf(b)
  <2>0. b \in Phys!Addrs /\ i \in Phys!Ram /\ b \in Nat /\ Phys!PageOf(b) \in Nat /\ Phys!IsRam(b) /\ i \in Int
    BY <1>3, RangeCovers DEF RamAddrs, Phys!IsRam, Phys!Ram
  <2>1. ASSUME NEW u, StateRecord(u), u.mem = s.mem, u.done = s.done, u.fault = s.fault,
               u.tlb.w.page = Phys!PageOf(b), Phys!PageOf(b) \in u.dirty, s.dirty \subseteq u.dirty,
               NEW p, p = Phys!Put(u, i, b, bs)
        PROVE  Storing(p, a, bytes, k + m)
    <3>1. /\ StateRecord(p)
          /\ p.tlb = u.tlb /\ p.dirty = u.dirty /\ p.fault = u.fault /\ p.done = u.done + m
          /\ \A x \in RamAddrs :
               MemAt(p.mem, x) = IF x - b + 1 \in 1..m THEN bs[x - b + 1] ELSE MemAt(u.mem, x)
      <4>1. u.done \in Nat
        BY <1>0, <2>1
      <4>2. /\ b \in RamAddrs /\ Aligned(b, m)
            /\ bs \in Seq(Cell) /\ Len(bs) = m /\ p = Phys!Put(u, Phys!RangeOf(b), b, bs) /\ StateRecord(u)
        BY <1>3, <2>1 DEF Aligned
      <4>3. BytesPut(u, p, b, bs, m)
        BY <4>1, <4>2, PutRight
      <4>4. QED
        BY <4>3 DEF BytesPut
    <3>2. p.done = k + m /\ p.done \in 0..(k + m) /\ p.fault \in BOOLEAN
      BY <1>0, <1>3, <2>1, <3>1
    <3>3. ASSUME NEW x \in RamAddrs
          PROVE  /\ MemAt(p.mem, x) = IF x - a + 1 \in 1..p.done THEN bytes[x - a + 1] ELSE view[x]
                 /\ x - a + 1 \in 1..p.done => Phys!PageOf(x) \in p.dirty
      <4>1. x \in Nat /\ x \in Phys!Addrs
        BY RangeCovers DEF RamAddrs
      <4>2. CASE x - b + 1 \in 1..m
        <5>1. bs[x - b + 1] = bytes[x - a + 1]
          <6>1. k + (x - b + 1) = x - a + 1
            BY <4>1
          <6>2. QED
            BY <4>2, <6>1
        <5>2. PICK j \in 0..(m - 1) : x = b + j
          <6>1. x - b \in 0..(m - 1) /\ x = b + (x - b)
            BY <2>0, <4>1, <4>2
          <6>2. QED
            BY <6>1
        <5>3. Phys!PageOf(x) = Phys!PageOf(b)
          BY <2>0, <5>2, OnOnePage
        <5>4. x - a + 1 \in 1..p.done
          BY <2>0, <3>2, <4>1, <4>2
        <5>5. QED
          BY <2>1, <3>1, <4>2, <5>1, <5>3, <5>4
      <4>3. CASE x - b + 1 \notin 1..m
        <5>1. x - a + 1 \in 1..p.done <=> x - a + 1 \in 1..s.done
          <6>1. s.done = k /\ p.done = k + m
            BY <1>0, <1>3, <3>2
          <6>2. x - a + 1 \in 1..(k + m) <=> x - a + 1 \in 1..k
            <7>1. k \in Nat /\ a \in Nat /\ x \in Nat /\ m \in Nat /\ b = a + k
              BY <4>1
            <7>2. QED
              BY ONLY <4>3, <7>1
          <6>3. QED
            BY <6>1, <6>2
        <5>2. MemAt(p.mem, x) = MemAt(s.mem, x)
          BY <2>1, <3>1, <4>3
        <5>3. s.dirty \subseteq p.dirty
          BY <2>1, <3>1
        <5>4. QED
          BY <5>1, <5>2, <5>3 DEF Storing
      <4>4. QED
        BY <4>2, <4>3
    <3>4. QED
      BY <1>0, <2>1, <3>1, <3>2, <3>3 DEF Storing
  <2>2. CASE s.tlb.w.page = Phys!PageOf(b)
    <3>1. PICK x \in RamAddrs : Phys!PageOf(b) = Phys!PageOf(x) /\ s.tlb.w.r = Phys!RangeOf(x)
      BY <1>0, <2>0, <2>2 DEF StateRecord, PageEntries, PageEntry
    <3>2. s.tlb.w.r = i
      BY <2>0, <3>1, SamePage DEF RamAddrs
    <3>3. t = Phys!Put(s, i, b, bs)
      BY <1>3, <2>2, <3>2 DEF Phys!WritePart
    <3>4. Phys!PageOf(b) \in s.dirty
      BY <1>0, <2>0, <2>2
    <3>5. QED
      BY <1>0, <2>1, <2>2, <3>3, <3>4
  <2>3. CASE s.tlb.w.page # Phys!PageOf(b) /\ Phys!PageOf(b) \in closed
    <3>1. t = [s EXCEPT !.fault = TRUE]
      BY <1>3, <2>3 DEF Phys!WritePart
    <3>2. QED
      BY <1>0, <3>1, FaultKeeps
  <2>4. CASE s.tlb.w.page # Phys!PageOf(b) /\ Phys!PageOf(b) \notin closed
    <3> DEFINE e == [page |-> Phys!PageOf(b), r |-> i]
               f == Phys!Fill(s, "w", b)
               u == [f EXCEPT !.dirty = @ \cup {Phys!PageOf(b)}]
    <3>1. /\ f = [mem |-> s.mem, tlb |-> [r |-> s.tlb.r, w |-> e], dirty |-> s.dirty,
                                     io |-> s.io, done |-> s.done, fault |-> s.fault, val |-> s.val]
          /\ PageEntry(e)
      BY <1>0, <1>3, <2>0, FillRight
    <3> HIDE DEF f
    <3>2. u = [mem |-> s.mem, tlb |-> [r |-> s.tlb.r, w |-> e], dirty |-> s.dirty \cup {Phys!PageOf(b)},
               io |-> s.io, done |-> s.done, fault |-> s.fault, val |-> s.val]
      <4> HIDE DEF e
      <4>1. \A v : [f EXCEPT !.dirty = v] = [mem |-> s.mem, tlb |-> [r |-> s.tlb.r, w |-> e], dirty |-> v,
                                             io |-> s.io, done |-> s.done, fault |-> s.fault, val |-> s.val]
        BY <3>1
      <4>2. f.dirty = s.dirty
        BY <3>1
      <4>3. QED
        BY <4>1, <4>2
    <3>4. t = Phys!Put(u, i, b, bs)
      BY <1>3, <2>0, <2>4 DEF Phys!WritePart, f
    <3> HIDE DEF u
    <3>5. StateRecord(u)
      BY <1>0, <3>1, <3>2 DEF StateRecord, PageEntries
    <3>6. QED
      BY <2>1, <3>2, <3>4, <3>5
  <2>5. QED
    BY <2>2, <2>3, <2>4
<1>4. QED
  BY <1>1, <1>2, <1>3

\* Every byte of an access lies in a range, and so do the blocks around one that is not aligned.
LEMMA InsideRanges ==
  ASSUME RangesOnPages, NEW size \in MemSize, NEW a \in Phys!Addrs, Phys!Inside(a, size)
  PROVE  /\ size \in {1, 2, 4, 8} /\ RamPage % size = 0
         /\ a - (a % size) \in Phys!Addrs /\ (a - (a % size)) % size = 0
         /\ a % size # 0 => a - (a % size) + size \in Phys!Addrs /\ (a - (a % size) + size) % size = 0
         /\ \A k \in 0..(size - 1) : a + k \in Phys!Addrs
<1> DEFINE al == a % size
           base == a - al
<1>1. size \in {1, 2, 4, 8} /\ RamPage % size = 0 /\ a \in Nat
  BY MemoryAssumption, RangeCovers DEF Phys!PhysMemAssumption
<1>2. al \in 0..(size - 1) /\ base \in Nat /\ base % size = 0 /\ (base + size) % size = 0
  <2>1. CASE size = 1
    BY <1>1, <2>1
  <2>2. CASE size = 2
    BY <1>1, <2>2
  <2>4. CASE size = 4
    BY <1>1, <2>4
  <2>8. CASE size = 8
    BY <1>1, <2>8
  <2>9. QED
    BY <1>1, <2>1, <2>2, <2>4, <2>8
<1>3. base \in Phys!Addrs /\ (al # 0 => base + 2 * size - 1 \in Phys!Addrs)
  <2> DEFINE end == base + 2 * size - 1
  <2>1. Phys!Mapped(base) /\ (al # 0 => Phys!Mapped(end))
    BY DEF Phys!Inside
  <2>2. end \in Nat
    <3> HIDE DEF al, base
    <3>1. QED
      BY <1>1, <1>2
  <2> HIDE DEF al, base, end
  <2>3. base \in Phys!Addrs /\ (al # 0 => end \in Phys!Addrs)
    BY <1>2, <2>1, <2>2, MappedAddrs
  <2>4. QED
    BY <2>3 DEF end
<1> HIDE DEF al, base
<1>4. \A k \in 0..(size - 1) : base + k \in Phys!Addrs
  <2> TAKE k \in 0..(size - 1)
  <2>1. Phys!PageOf(base + k) = Phys!PageOf(base) /\ base + k \in Nat
    BY <1>1, <1>2, OnOnePage
  <2>2. QED
    BY <1>3, <2>1, SamePage
<1>5. ASSUME al # 0 PROVE \A k \in 0..(size - 1) : base + size + k \in Phys!Addrs
  <2> DEFINE next == base + size
  <2>1. next \in Nat /\ next % size = 0 /\ next + (size - 1) \in Phys!Addrs
    <3>1. base + 2 * size - 1 = base + size + (size - 1)
      BY <1>1, <1>2
    <3>2. QED
      BY <1>1, <1>2, <1>3, <1>5, <3>1
  <2> HIDE DEF next
  <2>2. \A k \in 0..(size - 1) : Phys!PageOf(next + k) = Phys!PageOf(next)
    BY <1>1, <2>1, OnOnePage
  <2>3. \A k \in 0..(size - 1) : next + k \in Phys!Addrs
    <3> TAKE k \in 0..(size - 1)
    <3>1. Phys!PageOf(next + k) = Phys!PageOf(next + (size - 1)) /\ next + k \in Nat
      BY <1>1, <2>1, <2>2
    <3>2. QED
      BY <2>1, <3>1, SamePage
  <2>4. QED
    BY <2>3 DEF next
<1>6. \A k \in 0..(size - 1) : a + k \in Phys!Addrs
  <2> TAKE k \in 0..(size - 1)
  <2>1. a = base + al
    BY <1>1, <1>2 DEF base, al
  <2>2. CASE al + k < size
    <3>1. al + k \in 0..(size - 1) /\ a + k = base + (al + k)
      BY <1>1, <1>2, <2>1, <2>2
    <3>2. QED
      BY <1>4, <3>1
  <2>3. CASE ~(al + k < size)
    <3>1. al # 0 /\ al + k - size \in 0..(size - 1) /\ a + k = base + size + (al + k - size)
      BY <1>1, <1>2, <2>1, <2>3
    <3>2. QED
      BY <1>5, <3>1
  <2>4. QED
    BY <2>2, <2>3
<1>7. base + 0 = base /\ base + size + 0 = base + size /\ 0 \in 0..(size - 1)
  BY <1>1, <1>2
<1>8. al # 0 => base + size \in Phys!Addrs
  BY <1>5, <1>7
<1>9. QED
  BY <1>1, <1>2, <1>3, <1>6, <1>8 DEF al, base

\* A store that is not aligned is made of bytes, each of which may fault.
LEMMA ByteRight ==
  ASSUME RangesOnPages, NEW s, NEW a \in Nat, NEW bytes \in Seq(Cell), NEW k \in 1..Len(bytes), Storing(s, a, bytes, k - 1),
         a + (k - 1) \in Phys!Addrs
  PROVE  Storing(Phys!Byte(s, a, bytes, k), a, bytes, k)
<1> DEFINE b == a + k - 1
           j == k - 1
<1>1. b = a + j /\ j \in Nat /\ b \in Phys!Addrs /\ b % 1 = 0 /\ RamPage % 1 = 0 /\ j + 1 = k /\ b = a + (k - 1)
  <2>1. RamPage \in Nat /\ Len(bytes) \in Nat
    BY MemoryAssumption DEF Phys!PhysMemAssumption
  <2>2. QED
    BY <2>1
<1>2. <<bytes[k]>> \in Seq(Cell) /\ Len(<<bytes[k]>>) = 1
  OBVIOUS
<1>3. \A i \in 1..1 : <<bytes[k]>>[i] = bytes[j + i]
  BY <1>1
<1>4. Phys!Byte(s, a, bytes, k) = Phys!WritePart(s, b, <<bytes[k]>>)
  BY DEF Phys!Byte
<1> HIDE DEF b, j
<1>5. Storing(s, a, bytes, j)
  BY DEF j
<1>6. Storing(Phys!WritePart(s, b, <<bytes[k]>>), a, bytes, j + 1)
  BY <1>1, <1>2, <1>3, <1>5, WritePartRight
<1>7. QED
  BY <1>1, <1>4, <1>6

\* riscv_cpu_write_memory
LEMMA WriteRight ==
  ASSUME RangesOnPages, NEW s, NEW bytes \in Seq(Cell), Len(bytes) \in MemSize, NEW a \in Phys!Addrs,
         Phys!Inside(a, Len(bytes)), Storing(s, a, bytes, 0)
  PROVE  Storing(Phys!Write(s, a, bytes), a, bytes, Len(bytes))
<1> DEFINE size == Len(bytes)
<1>1. /\ size \in {1, 2, 4, 8} /\ RamPage % size = 0 /\ a \in Nat
      /\ \A k \in 0..(size - 1) : a + k \in Phys!Addrs
  BY InsideRanges, RangeCovers
<1>2. CASE a % size = 0
  <2>1. Phys!Write(s, a, bytes) = Phys!WritePart(s, a, bytes)
    BY <1>2 DEF Phys!Write
  <2>2. a = a + 0 /\ size = 0 + size /\ \A j \in 1..size : bytes[j] = bytes[0 + j]
    BY <1>1
  <2>3. Storing(Phys!WritePart(s, a, bytes), a, bytes, 0 + size)
    BY <1>1, <1>2, <2>2, WritePartRight
  <2>4. QED
    BY <2>1, <2>2, <2>3
<1>3. CASE a % size # 0
  <2>0. size \in {2, 4, 8}
    <3>1. size = 1 => a % size = 0
      BY <1>1
    <3>2. QED
      BY <1>1, <1>3, <3>1
  <2>1. ASSUME NEW t, NEW k \in 1..size, NEW l, l = k - 1, Storing(t, a, bytes, l)
        PROVE  Storing(Phys!Byte(t, a, bytes, k), a, bytes, k)
    <3>1. a + (k - 1) \in Phys!Addrs
      <4>1. k - 1 \in 0..(size - 1)
        BY <1>1
      <4>2. QED
        BY <1>1, <4>1
    <3>2. QED
      BY <1>1, <2>1, <3>1, ByteRight
  <2>2. ASSUME NEW t, NEW k \in 1..(size - 1), NEW l, l = k - 1, Storing(t, a, bytes, l)
        PROVE  Storing(Phys!Bytes2(t, a, bytes, k), a, bytes, k + 1)
    <3>1. Storing(Phys!Byte(t, a, bytes, k), a, bytes, k) /\ k = k + 1 - 1 /\ k + 1 \in 1..size
      BY <1>1, <2>1, <2>2
    <3>2. QED
      BY <2>1, <3>1 DEF Phys!Bytes2
  <2>3. ASSUME NEW t, NEW k \in 1..(size - 3), NEW l, l = k - 1, Storing(t, a, bytes, l)
        PROVE  Storing(Phys!Bytes4(t, a, bytes, k), a, bytes, k + 3)
    <3>1. Storing(Phys!Bytes2(t, a, bytes, k), a, bytes, k + 1)
      BY <1>1, <2>2, <2>3
    <3>2. k + 1 = k + 2 - 1 /\ k + 2 \in 1..(size - 1) /\ k + 2 + 1 = k + 3
      BY <1>1
    <3>3. Storing(Phys!Bytes2(Phys!Bytes2(t, a, bytes, k), a, bytes, k + 2), a, bytes, k + 2 + 1)
      BY <2>2, <3>1, <3>2
    <3>4. QED
      BY <3>2, <3>3 DEF Phys!Bytes4
  <2>4. CASE size = 2
    <3>1. Phys!Write(s, a, bytes) = Phys!Bytes2(s, a, bytes, 1)
      BY <1>3, <2>4 DEF Phys!Write
    <3>2. 1 \in 1..(size - 1) /\ 0 = 1 - 1 /\ 1 + 1 = size
      BY <2>4
    <3>3. QED
      BY <2>2, <3>1, <3>2
  <2>5. CASE size = 4
    <3>1. Phys!Write(s, a, bytes) = Phys!Bytes4(s, a, bytes, 1)
      BY <1>3, <2>5 DEF Phys!Write
    <3>2. 1 \in 1..(size - 3) /\ 0 = 1 - 1 /\ 1 + 3 = size
      BY <2>5
    <3>3. QED
      BY <2>3, <3>1, <3>2
  <2>6. CASE size = 8
    <3>1. Phys!Write(s, a, bytes) = Phys!Bytes8(s, a, bytes, 1)
      BY <1>3, <2>6 DEF Phys!Write
    <3>2. 1 \in 1..(size - 3) /\ 0 = 1 - 1 /\ 5 \in 1..(size - 3) /\ 4 = 5 - 1 /\ 1 + 3 = 4 /\ 5 + 3 = size /\ 1 + 4 = 5
      BY <2>6
    <3>3. Storing(Phys!Bytes4(s, a, bytes, 1), a, bytes, 4)
      BY <2>3, <3>2
    <3>4. Storing(Phys!Bytes4(Phys!Bytes4(s, a, bytes, 1), a, bytes, 5), a, bytes, size)
      BY <2>3, <3>2, <3>3
    <3>5. QED
      BY <3>1, <3>2, <3>4 DEF Phys!Bytes8
  <2>7. QED
    BY <2>0, <2>4, <2>5, <2>6
<1>4. QED
  BY <1>2, <1>3

\* What a load has done when it has read k bytes from address a on.
Loading(s, a, k) ==
  /\ StateRecord(s)
  /\ s.mem = mem /\ s.tlb.w = memtlb.w
  /\ s.val \in Seq(Cell) /\ Len(s.val) = k
  /\ \A j \in 1..k : a + (j - 1) \in RamAddrs => s.val[j] = view[a + (j - 1)]

\* The history of stores says what is in RAM.
ViewRight == MemShape(mem) /\ \A x \in RamAddrs : MemAt(mem, x) = view[x]

\* Bytes appended to what was read.
LEMMA Appended ==
  ASSUME NEW s, NEW a \in Nat, NEW k \in Nat, Loading(s, a, k), NEW m \in {1, 2, 4, 8},
         NEW t, NEW w \in Seq(Cell), Len(w) = m, StateRecord(t),
         t.mem = mem, t.tlb.w = memtlb.w, t.val = s.val \o w,
         \A j \in 1..m : a + k + (j - 1) \in RamAddrs => w[j] = view[a + k + (j - 1)]
  PROVE  Loading(t, a, k + m)
<1> DEFINE v == s.val
           u == t.val
<1>1. v \in Seq(Cell) /\ Len(v) = k /\ \A j \in 1..k : a + (j - 1) \in RamAddrs => v[j] = view[a + (j - 1)]
  BY DEF Loading
<1>2. u = v \o w
  OBVIOUS
<1> HIDE DEF v, u
<1>3. u \in Seq(Cell) /\ Len(u) = k + m
  BY <1>1, <1>2
<1>4. ASSUME NEW j \in 1..(k + m), a + (j - 1) \in RamAddrs PROVE u[j] = view[a + (j - 1)]
  <2>1. CASE j <= k
    <3>1. j \in 1..k /\ u[j] = v[j]
      BY <1>1, <1>2, <2>1
    <3>2. QED
      BY <1>1, <1>4, <3>1
  <2>2. CASE ~(j <= k)
    <3>1. j - k \in 1..m /\ a + (j - 1) = a + k + (j - k - 1) /\ u[j] = w[j - k]
      BY <1>1, <1>2, <2>2
    <3>2. QED
      BY <1>4, <3>1
  <2>3. QED
    BY <2>1, <2>2
<1>5. QED
  BY <1>3, <1>4 DEF u, Loading

\* The bytes of RAM at an aligned address, wherever the range was found.
LEMMA RamBytes ==
  ASSUME RangesOnPages, NEW s, s.mem = mem, ViewRight, NEW m, NEW b \in RamAddrs, Aligned(b, m),
         NEW w, w = [j \in 1..m |-> Phys!ByteAt(s, Phys!RangeOf(b), b + j - 1)]
  PROVE  w \in Seq(Cell) /\ Len(w) = m /\ \A j \in 1..m : w[j] = view[b + (j - 1)]
<1> DEFINE i == Phys!RangeOf(b)
<1>1. i \in Phys!Ram /\ b \in Nat /\ b \in Phys!Addrs /\ m \in {1, 2, 4, 8} /\ RamPage % m = 0 /\ b % m = 0
  BY RangeCovers DEF RamAddrs, Phys!IsRam, Aligned
<1>2. ASSUME NEW j \in 1..m
      PROVE  w[j] = view[b + (j - 1)] /\ w[j] \in Cell
  <2> DEFINE y == b + (j - 1)
             o == y - Phys!RangeBase(i)
  <2>1. j - 1 \in 0..(m - 1) /\ y \in Nat /\ b + j - 1 = y
    BY <1>1
  <2>2. Phys!PageOf(y) = Phys!PageOf(b)
    BY <1>1, <2>1, OnOnePage
  <2>3. y \in Phys!Addrs /\ Phys!RangeOf(y) = i
    BY <1>1, <2>1, <2>2, SamePage
  <2>4. y \in RamAddrs /\ o \in 0..(Phys!RangeSize(i) - 1)
    BY <1>1, <2>3, RangeCovers DEF RamAddrs, Phys!IsRam
  <2>5. mem[i] \in [0..(Phys!RangeSize(i) - 1) -> Cell]
    BY <1>1 DEF ViewRight, MemShape
  <2>6. Phys!ByteAt(s, i, y) = mem[i][o] /\ mem[i][o] \in Cell
    BY <2>4, <2>5 DEF Phys!ByteAt, Phys!OffsetIn
  <2>7. mem[i][o] = view[y]
    BY <2>3, <2>4 DEF ViewRight, MemAt
  <2>8. w[j] = Phys!ByteAt(s, i, y)
    BY <2>1
  <2>9. QED
    BY <2>6, <2>7, <2>8
<1>3. w \in [1..m -> Cell]
  BY <1>2
<1>4. m \in Nat /\ DOMAIN w = 1..m
  BY <1>1
<1>5. w \in Seq(Cell) /\ Len(w) = m
  BY <1>3, <1>4
<1>6. QED
  BY <1>2, <1>5

\* target_read_u*: one aligned load of m bytes, after k.
LEMMA ReadPartRight ==
  ASSUME RangesOnPages, NEW s, NEW a \in Nat, NEW k \in Nat, Loading(s, a, k), ViewRight,
         NEW m, NEW b \in Phys!Addrs, b = a + k, Aligned(b, m)
  PROVE  Loading(Phys!ReadPart(s, b, m), a, k + m)
<1> DEFINE t == Phys!ReadPart(s, b, m)
           i == Phys!RangeOf(b)
           w == [j \in 1..m |-> Phys!ByteAt(s, i, b + j - 1)]
<1>0. /\ StateRecord(s) /\ s.mem = mem /\ s.tlb.w = memtlb.w
      /\ m \in {1, 2, 4, 8} /\ RamPage % m = 0 /\ b % m = 0
      /\ Phys!PageOf(b) \in Nat /\ b \in Nat
  BY RangeCovers DEF Loading, Aligned
<1>1. CASE s.tlb.r.page = Phys!PageOf(b)
  <2>1. PICK x \in RamAddrs : Phys!PageOf(b) = Phys!PageOf(x) /\ s.tlb.r.r = Phys!RangeOf(x)
    BY <1>0, <1>1 DEF StateRecord, PageEntries, PageEntry
  <2>2. b \in RamAddrs /\ s.tlb.r.r = i
    BY <2>1, SamePage DEF RamAddrs, Phys!IsRam
  <2>3. t = [s EXCEPT !.val = s.val \o w]
    BY <1>1, <2>2 DEF Phys!ReadPart
  <2>4. w \in Seq(Cell) /\ Len(w) = m /\ \A j \in 1..m : w[j] = view[b + (j - 1)]
    BY <1>0, <2>2, RamBytes
  <2> HIDE DEF t, w
  <2>5. t = [mem |-> s.mem, tlb |-> s.tlb, dirty |-> s.dirty, io |-> s.io, done |-> s.done,
             fault |-> s.fault, val |-> s.val \o w]
    <3>1. \A v : [s EXCEPT !.val = v] = [mem |-> s.mem, tlb |-> s.tlb, dirty |-> s.dirty, io |-> s.io,
                                         done |-> s.done, fault |-> s.fault, val |-> v]
      BY <1>0 DEF StateRecord
    <3>2. QED
      BY <2>3, <3>1
  <2>6. StateRecord(t)
    BY <1>0, <2>5 DEF StateRecord
  <2>7. Loading(t, a, k + m)
    BY <1>0, <2>4, <2>5, <2>6, Appended
  <2>8. QED
    BY <2>7 DEF t
<1>2. CASE s.tlb.r.page # Phys!PageOf(b) /\ Phys!IsRam(b)
  <2> DEFINE f == Phys!Fill(s, "r", b)
             e == [page |-> Phys!PageOf(b), r |-> i]
             w2 == [j \in 1..m |-> Phys!ByteAt(f, i, b + j - 1)]
  <2>1. b \in RamAddrs
    BY <1>2 DEF RamAddrs
  <2>2. t = [f EXCEPT !.val = f.val \o w2]
    BY <1>2 DEF Phys!ReadPart
  <2>3. /\ PageEntry(e)
        /\ f = [mem |-> s.mem, tlb |-> [r |-> e, w |-> s.tlb.w], dirty |-> s.dirty,
                io |-> s.io, done |-> s.done, fault |-> s.fault, val |-> s.val]
    BY <1>0, <2>1, FillRight
  <2> HIDE DEF f, e, t
  <2>30. f.mem = mem /\ f.val = s.val
    BY <1>0, <2>3
  <2>4. w2 \in Seq(Cell) /\ Len(w2) = m /\ \A j \in 1..m : w2[j] = view[b + (j - 1)]
    BY <2>1, <2>30, RamBytes
  <2> HIDE DEF w2
  <2>5. t = [mem |-> s.mem, tlb |-> [r |-> e, w |-> s.tlb.w], dirty |-> s.dirty, io |-> s.io, done |-> s.done,
             fault |-> s.fault, val |-> s.val \o w2]
    <3>1. \A v : [f EXCEPT !.val = v] = [mem |-> s.mem, tlb |-> [r |-> e, w |-> s.tlb.w], dirty |-> s.dirty, io |-> s.io,
                                         done |-> s.done, fault |-> s.fault, val |-> v]
      BY <2>3
    <3>2. QED
      BY <2>2, <2>30, <3>1
  <2>6. PageEntries([r |-> e, w |-> s.tlb.w])
    BY <1>0, <2>3 DEF StateRecord, PageEntries
  <2>7. StateRecord(t) /\ t.mem = mem /\ t.tlb.w = memtlb.w /\ t.val = s.val \o w2
    BY <1>0, <2>5, <2>6 DEF StateRecord
  <2>8. Loading(t, a, k + m)
    BY <1>0, <2>4, <2>7, Appended
  <2>9. QED
    BY <2>8 DEF t
<1>3. CASE s.tlb.r.page # Phys!PageOf(b) /\ ~Phys!IsRam(b)
  <2> DEFINE z == [j \in 1..m |-> Phys!Zero]
             acc == s.io \o Phys!DeviceAccesses("r", b, z)
  <2>1. t = [s EXCEPT !.io = acc, !.val = s.val \o z]
    BY <1>3 DEF Phys!ReadPart
  <2>2. z \in Seq(Cell) /\ Len(z) = m
    <3>1. z \in [1..m -> Cell] /\ DOMAIN z = 1..m
      BY DEF Phys!Zero, Cell
    <3>2. m \in Nat
      BY <1>0
    <3> HIDE DEF z
    <3>3. QED
      BY <3>1, <3>2
  <2>3. ASSUME NEW j \in 1..m PROVE b + (j - 1) \notin RamAddrs
    <3> DEFINE y == b + (j - 1)
    <3>1. j - 1 \in 0..(m - 1) /\ y \in Nat
      BY <1>0
    <3>2. Phys!PageOf(y) = Phys!PageOf(b)
      BY <1>0, <3>1, OnOnePage
    <3>3. Phys!RangeOf(y) = i
      BY <1>0, <3>1, <3>2, SamePage
    <3>4. QED
      BY <1>3, <3>3 DEF RamAddrs, Phys!IsRam
  <2> HIDE DEF t, z, acc
  <2>4. t = [mem |-> s.mem, tlb |-> s.tlb, dirty |-> s.dirty, io |-> acc, done |-> s.done,
             fault |-> s.fault, val |-> s.val \o z]
    <3> DEFINE v == s.val \o z
    <3>1. t = [s EXCEPT !.io = acc, !.val = v]
      BY <2>1
    <3> HIDE DEF v
    <3>2. t = [mem |-> s.mem, tlb |-> s.tlb, dirty |-> s.dirty, io |-> acc,
               done |-> s.done, fault |-> s.fault, val |-> v]
      BY <1>0, <3>1 DEF StateRecord
    <3>3. QED
      BY <3>2 DEF v
  <2>5. StateRecord(t) /\ t.mem = mem /\ t.tlb.w = memtlb.w /\ t.val = s.val \o z
    BY <1>0, <2>4 DEF StateRecord
  <2>6. Loading(t, a, k + m)
    BY <1>0, <2>2, <2>3, <2>5, Appended
  <2>7. QED
    BY <2>6 DEF t
<1>4. QED
  BY <1>1, <1>2, <1>3

\* riscv_cpu_read_memory: without alignment the blocks around are read and joined.
LEMMA ReadRight ==
  ASSUME RangesOnPages, NEW s, ViewRight, NEW size \in MemSize, NEW a \in Phys!Addrs, Phys!Inside(a, size),
         \A x : Loading(s, x, 0)
  PROVE  Loading(Phys!Read(s, a, size), a, size)
<1> DEFINE al == a % size
           base == a - al
<1>1. /\ size \in {1, 2, 4, 8} /\ RamPage % size = 0 /\ a \in Nat
      /\ base \in Phys!Addrs /\ base % size = 0
      /\ al # 0 => base + size \in Phys!Addrs /\ (base + size) % size = 0
      /\ \A k \in 0..(size - 1) : a + k \in Phys!Addrs
  BY InsideRanges, RangeCovers
<1>2. base \in Nat /\ base = base + 0 /\ 0 + size = size /\ al \in 0..(size - 1) /\ a = base + al
      /\ Aligned(base, size)
  <2>1. base \in Nat
    BY <1>1, RangeCovers
  <2>2. al \in 0..(size - 1) /\ al \in Int /\ size \in Int
    BY <1>1
  <2> HIDE DEF al
  <2>3. a = base + al
    BY <1>1, <2>2
  <2> HIDE DEF base
  <2>4. base = base + 0 /\ 0 + size = size
    BY <2>1, <2>2
  <2>5. QED
    BY <1>1, <2>1, <2>2, <2>3, <2>4 DEF Aligned
<1>3. CASE al = 0
  <2>1. Phys!Read(s, a, size) = Phys!ReadPart(s, a, size)
    BY <1>3 DEF Phys!Read
  <2>2. a = a + 0 /\ Aligned(a, size)
    BY <1>1, <1>3 DEF Aligned
  <2>3. Loading(Phys!ReadPart(s, a, size), a, 0 + size)
    BY <1>1, <2>2, ReadPartRight
  <2>4. QED
    BY <1>2, <2>1, <2>3
<1>4. CASE al # 0 /\ size = 2
  <2> DEFINE t == Phys!ReadPart(s, a, 1)
  <2>1. Phys!Read(s, a, size) = Phys!ReadPart(t, a + 1, 1)
    BY <1>4 DEF Phys!Read
  <2>2. /\ a = a + 0 /\ 0 + 1 = 1 /\ 1 + 1 = size /\ Aligned(a, 1) /\ Aligned(a + 1, 1)
        /\ 1 \in 0..(size - 1)
    <3>1. RamPage \in Nat
      BY MemoryAssumption DEF Phys!PhysMemAssumption
    <3>2. QED
      BY <1>1, <1>4, <3>1 DEF Aligned
  <2>3. Loading(t, a, 0 + 1)
    BY <1>1, <2>2, ReadPartRight
  <2> HIDE DEF t
  <2>4. a + 1 \in Phys!Addrs /\ Loading(t, a, 1)
    BY <1>1, <2>2, <2>3
  <2>5. Loading(Phys!ReadPart(t, a + 1, 1), a, 1 + 1)
    BY <1>1, <2>2, <2>4, ReadPartRight
  <2>6. QED
    BY <2>1, <2>2, <2>5
<1>5. CASE al # 0 /\ size # 2
  <2> DEFINE t1 == Phys!ReadPart(s, base, size)
             t == Phys!ReadPart(t1, base + size, size)
             v == SubSeq(t.val, al + 1, size) \o SubSeq(t.val, size + 1, size + al)
  <2>1. Phys!Read(s, a, size) = [t EXCEPT !.val = v]
    BY <1>5 DEF Phys!Read
  <2>2. Loading(t1, base, 0 + size)
    BY <1>1, <1>2, ReadPartRight
  <2> HIDE DEF t1
  <2>3. base + size \in Phys!Addrs /\ Aligned(base + size, size) /\ Loading(t1, base, size) /\ size \in Nat
    BY <1>1, <1>2, <1>5, <2>2 DEF Aligned
  <2> HIDE DEF al, base
  <2>4. Loading(t, base, size + size)
    BY <1>2, <2>3, ReadPartRight
  <2> DEFINE u == t.val
  <2>5. /\ u \in Seq(Cell) /\ Len(u) = size + size
        /\ \A j \in 1..(size + size) : base + (j - 1) \in RamAddrs => u[j] = view[base + (j - 1)]
    BY <2>4 DEF Loading
  <2>6. v = SubSeq(u, al + 1, size) \o SubSeq(u, size + 1, size + al)
    OBVIOUS
  <2> HIDE DEF t, u, v
  <2>7. v \in Seq(Cell) /\ Len(v) = size /\ \A j \in 1..size : v[j] = u[al + j]
    <3>0. size \in Nat /\ al \in 1..(size - 1)
      BY <1>1, <1>2, <1>5
    <3> DEFINE x == SubSeq(u, al + 1, size)
               y == SubSeq(u, size + 1, size + al)
    <3>1. x \in Seq(Cell) /\ Len(x) = size - al /\ \A j \in 1..(size - al) : x[j] = u[al + j]
      <4>1. al + 1 \in 1..(size + size + 1) /\ size \in 1..(size + size) /\ al + 1 <= size
        BY <3>0
      <4>2. x \in Seq(Cell) /\ Len(x) = size - (al + 1) + 1
        BY <2>5, <3>0, <4>1
      <4>3. \A j \in 1..Len(x) : x[j] = u[al + 1 + j - 1]
        BY <2>5, <3>0, <4>1
      <4>4. Len(x) = size - al /\ \A j \in 1..(size - al) : al + 1 + j - 1 = al + j
        BY <3>0, <4>2
      <4>5. QED
        BY <4>2, <4>3, <4>4
    <3>2. y \in Seq(Cell) /\ Len(y) = al /\ \A j \in 1..al : y[j] = u[size + j]
      <4>1. size + 1 \in 1..(size + size) /\ size + al \in 1..(size + size) /\ size + 1 <= size + al
        BY <3>0
      <4>2. y \in Seq(Cell) /\ Len(y) = (size + al) - (size + 1) + 1
        BY <2>5, <3>0, <4>1
      <4>3. \A j \in 1..Len(y) : y[j] = u[(size + 1 + j) - 1]
        BY <2>5, <3>0, <4>1
      <4>4. Len(y) = al /\ \A j \in 1..al : (size + 1 + j) - 1 = size + j
        BY <3>0, <4>2
      <4>5. QED
        BY <4>2, <4>3, <4>4
    <3> HIDE DEF x, y
    <3>3. v = x \o y
      BY <2>6 DEF x, y
    <3>4. v \in Seq(Cell) /\ Len(v) = size
      <4>1. v \in Seq(Cell) /\ Len(v) = Len(x) + Len(y)
        <5>1. x \in Seq(Cell) /\ y \in Seq(Cell)
          BY <3>1, <3>2
        <5>2. QED
          BY ONLY <3>3, <5>1
      <4>2. QED
        BY <3>0, <3>1, <3>2, <4>1
    <3>5. ASSUME NEW j \in 1..size PROVE v[j] = u[al + j]
      <4>1. CASE j <= size - al
        BY <3>0, <3>1, <3>2, <3>3, <4>1
      <4>2. CASE ~(j <= size - al)
        <5>1. j - (size - al) \in 1..al /\ size + (j - (size - al)) = al + j
          BY <3>0, <4>2
        <5>2. v[j] = y[j - (size - al)]
          <6>1. Len(x) + Len(y) = size /\ j \in 1..(Len(x) + Len(y)) /\ j > Len(x)
            BY <3>0, <3>1, <3>2, <4>2
          <6>2. v[j] = y[j - Len(x)]
            BY <3>1, <3>2, <3>3, <6>1
          <6>3. QED
            BY <3>1, <6>2
        <5>3. QED
          BY <3>2, <5>1, <5>2
      <4>3. QED
        BY <4>1, <4>2
    <3>6. QED
      BY <3>4, <3>5
  <2>8. ASSUME NEW j \in 1..size, a + (j - 1) \in RamAddrs PROVE v[j] = view[a + (j - 1)]
    <3>1. al + j \in 1..(size + size) /\ base + ((al + j) - 1) = a + (j - 1)
      <4>1. QED
        BY <1>1, <1>2
    <3>2. u[al + j] = view[base + ((al + j) - 1)]
      <4>1. base + ((al + j) - 1) \in RamAddrs
        BY <2>8, <3>1
      <4>2. QED
        BY <2>5, <3>1, <4>1
    <3>3. QED
      BY <2>7, <3>1, <3>2
  <2>9. StateRecord(t) /\ t.mem = mem /\ t.tlb.w = memtlb.w
    BY <2>4 DEF Loading
  <2>10. [t EXCEPT !.val = v] = [mem |-> t.mem, tlb |-> t.tlb, dirty |-> t.dirty, io |-> t.io, done |-> t.done,
                                 fault |-> t.fault, val |-> v]
    BY <2>9 DEF StateRecord
  <2> DEFINE r == [t EXCEPT !.val = v]
  <2> HIDE DEF r
  <2>11. StateRecord(r) /\ r.mem = mem /\ r.tlb.w = memtlb.w /\ r.val = v
    BY <2>9, <2>10 DEF r, StateRecord
  <2>12. Loading(r, a, size)
    BY <2>7, <2>8, <2>11 DEF Loading
  <2>13. QED
    BY <2>1, <2>12 DEF r
<1>6. QED
  BY <1>3, <1>4, <1>5

\* The inductive invariant: the TLB knows the pages of RAM it has entries for, the page it
\* may store to is dirty, and RAM holds what was stored last.
MemInv == /\ ViewRight /\ DOMAIN view = RamAddrs
          /\ PageEntries(memtlb)
          /\ memtlb.w.page # -1 => memtlb.w.page \in dirty
          /\ nstores \in Nat
          /\ Phys!LoadSeesStores /\ Phys!WrittenIsDirty

LEMMA MemInit == Phys!Init => MemInv
<1> SUFFICES ASSUME Phys!Init PROVE MemInv
  OBVIOUS
<1>1. \A x \in RamAddrs : Phys!RangeOf(x) \in Phys!Ram /\ x - Phys!RangeBase(Phys!RangeOf(x)) \in 0..(Phys!RangeSize(Phys!RangeOf(x)) - 1)
  BY RangeCovers DEF RamAddrs, Phys!IsRam
<1>2. MemShape(mem)
  BY DEF Phys!Init, MemShape, Phys!Zero, Cell
<1>3. view = [x \in RamAddrs |-> Phys!Zero]
  BY DEF Phys!Init, RamAddrs
<1>4. \A x \in RamAddrs : MemAt(mem, x) = view[x]
  BY <1>1, <1>3 DEF Phys!Init, MemAt
<1>5. PageEntries(memtlb) /\ memtlb.w.page = -1
  BY DEF Phys!Init, Phys!NoEntry, PageEntries, PageEntry
<1>6. nstores \in Nat /\ got = <<>> /\ written = {}
  BY DEF Phys!Init
<1>7. QED
  BY <1>2, <1>3, <1>4, <1>5, <1>6 DEF MemInv, ViewRight, Phys!LoadSeesStores, Phys!WrittenIsDirty

\* The state an instruction starts from.
LEMMA StartRight ==
  ASSUME MemInv
  PROVE  /\ \A x : Loading(Phys!Start, x, 0)
         /\ \A a, bytes : Storing(Phys!Start, a, bytes, 0)
<1> DEFINE s == Phys!Start
<1>1. s = [mem |-> mem, tlb |-> memtlb, dirty |-> dirty, io |-> <<>>, done |-> 0, fault |-> FALSE, val |-> <<>>]
  BY DEF Phys!Start
<1> HIDE DEF s
<1>2. StateRecord(s)
  BY <1>1 DEF MemInv, ViewRight, StateRecord
<1>3. s.val \in Seq(Cell) /\ Len(s.val) = 0 /\ s.mem = mem /\ s.tlb = memtlb /\ s.dirty = dirty /\ s.done = 0 /\ s.fault = FALSE
  BY <1>1
<1>4. \A x : Loading(s, x, 0)
  BY <1>2, <1>3 DEF Loading
<1>5. ASSUME NEW a, NEW bytes PROVE Storing(s, a, bytes, 0)
  <2>1. \A x \in RamAddrs : x - a + 1 \notin 1..s.done
    BY <1>3
  <2>2. \A x \in RamAddrs : MemAt(s.mem, x) = view[x]
    BY <1>3 DEF MemInv, ViewRight
  <2>3. s.done \in 0..0 /\ s.fault \in BOOLEAN /\ dirty \subseteq s.dirty
    <3>1. s.fault \in BOOLEAN
      BY <1>1
    <3>2. s.done \in 0..0 /\ dirty \subseteq s.dirty
      BY <1>3
    <3>3. QED
      BY <3>1, <3>2
  <2>4. s.tlb.w.page # -1 => s.tlb.w.page \in s.dirty
    BY <1>3 DEF MemInv
  <2>5. QED
    BY <1>2, <1>3, <2>1, <2>2, <2>3, <2>4 DEF Storing
<1>6. QED
  BY <1>4, <1>5 DEF s

LEMMA LoadStep ==
  ASSUME RangesOnPages, MemInv, NEW a \in Phys!Addrs, NEW size \in MemSize, Phys!Inside(a, size), Phys!Load(a, size)
  PROVE  MemInv'
<1> DEFINE s == Phys!Read(Phys!Start, a, size)
<1>1. Loading(s, a, size)
  BY StartRight, ReadRight DEF MemInv
<1>2. /\ memtlb' = s.tlb /\ got' = <<a, s.val>> /\ mem' = mem /\ dirty' = dirty
      /\ nstores' = nstores /\ view' = view /\ written' = written
  BY DEF Phys!Load
<1> HIDE DEF s
<1>3. PageEntries(memtlb') /\ memtlb'.w = memtlb.w
  BY <1>1, <1>2 DEF Loading, StateRecord
<1>4. (ViewRight /\ DOMAIN view = RamAddrs)'
  BY <1>2 DEF MemInv, ViewRight
<1>5. Phys!LoadSeesStores'
  <2>1. s.val \in Seq(Cell) /\ Len(s.val) = size /\ \A j \in 1..size : a + (j - 1) \in RamAddrs => s.val[j] = view[a + (j - 1)]
    BY <1>1 DEF Loading
  <2> DEFINE v == s.val
  <2> HIDE DEF v
  <2>2. got' = <<a, v>> /\ Len(v) = size /\ DOMAIN view' = RamAddrs /\ view' = view
    BY <1>2, <2>1 DEF v, MemInv
  <2>3. \A j \in 1..size : a + (j - 1) \in RamAddrs => v[j] = view[a + (j - 1)]
    BY <2>1 DEF v
  <2>4. QED
    BY <2>2, <2>3 DEF Phys!LoadSeesStores
<1>6. QED
  BY <1>2, <1>3, <1>4, <1>5 DEF MemInv, Phys!WrittenIsDirty

LEMMA StoreStep ==
  ASSUME RangesOnPages, MemInv, NEW a \in Phys!Addrs, NEW size \in MemSize, Phys!Inside(a, size), Phys!NewStore(a, size)
  PROVE  MemInv'
<1> DEFINE bytes == [k \in 1..size |-> <<nstores + 1, k>>]
           s == Phys!Write(Phys!Start, a, bytes)
<1>0. size \in {1, 2, 4, 8} /\ nstores \in Nat
  BY InsideRanges DEF MemInv
<1>1. bytes \in Seq(Cell) /\ Len(bytes) = size
  <2>1. bytes \in [1..size -> Cell] /\ size \in Nat /\ DOMAIN bytes = 1..size
    BY <1>0 DEF Cell
  <2> HIDE DEF bytes
  <2>2. QED
    BY <2>1
<1>2. Phys!Store(a, bytes) /\ nstores' = nstores + 1
  BY DEF Phys!NewStore
<1> HIDE DEF bytes
<1>3. Storing(s, a, bytes, size)
  BY <1>1, StartRight, WriteRight
<1>4. /\ mem' = s.mem /\ dirty' = s.dirty /\ memtlb' = s.tlb /\ got' = <<>>
      /\ view' = [x \in DOMAIN view |-> IF x - a + 1 \in 1..s.done THEN bytes[x - a + 1] ELSE view[x]]
      /\ written' = written \cup {Phys!PageOf(x) : x \in {y \in DOMAIN view : y - a + 1 \in 1..s.done}}
  BY <1>2 DEF Phys!Store
<1> HIDE DEF s
<1>5. /\ StateRecord(s)
      /\ s.tlb.w.page # -1 => s.tlb.w.page \in s.dirty
      /\ dirty \subseteq s.dirty
      /\ \A x \in RamAddrs :
           /\ MemAt(s.mem, x) = IF x - a + 1 \in 1..s.done THEN bytes[x - a + 1] ELSE view[x]
           /\ x - a + 1 \in 1..s.done => Phys!PageOf(x) \in s.dirty
  BY <1>3 DEF Storing
<1>6. DOMAIN view' = RamAddrs /\ \A x \in RamAddrs : MemAt(mem', x) = view'[x]
  BY <1>4, <1>5 DEF MemInv
<1>7. MemShape(mem') /\ PageEntries(memtlb') /\ (memtlb'.w.page # -1 => memtlb'.w.page \in dirty')
  BY <1>4, <1>5 DEF StateRecord
<1>8. written' \subseteq dirty'
  BY <1>4, <1>5 DEF MemInv, Phys!WrittenIsDirty
<1>9. nstores' \in Nat /\ Phys!LoadSeesStores'
  BY <1>0, <1>2, <1>4 DEF Phys!LoadSeesStores
<1>10. ViewRight'
  BY <1>6, <1>7 DEF ViewRight
<1>11. QED
  BY <1>6, <1>7, <1>8, <1>9, <1>10 DEF MemInv, Phys!WrittenIsDirty

LEMMA MemStep == ASSUME RangesOnPages PROVE MemInv /\ [Phys!Next]_(Phys!vars) => MemInv'
<1> SUFFICES ASSUME MemInv, [Phys!Next]_(Phys!vars) PROVE MemInv'
  OBVIOUS
<1>1. CASE UNCHANGED Phys!vars
  BY <1>1 DEF Phys!vars, MemInv, ViewRight, Phys!LoadSeesStores, Phys!WrittenIsDirty
<1>2. CASE Phys!OpenPages
  BY <1>2 DEF Phys!OpenPages, MemInv, ViewRight, Phys!LoadSeesStores, Phys!WrittenIsDirty
<1>3. CASE Phys!Collect
  <2>1. PageEntries(memtlb') /\ memtlb'.w.page = -1
    <3>1. CASE dirty # {}
      <4>1. memtlb' = [memtlb EXCEPT !.w = Phys!NoEntry] /\ memtlb = [r |-> memtlb.r, w |-> memtlb.w]
        BY <1>3, <3>1 DEF Phys!Collect, MemInv, PageEntries
      <4>2. memtlb' = [r |-> memtlb.r, w |-> Phys!NoEntry]
        BY <4>1
      <4>3. PageEntry(Phys!NoEntry)
        BY DEF PageEntry, Phys!NoEntry
      <4>4. QED
        BY <4>2, <4>3 DEF MemInv, PageEntries, Phys!NoEntry
    <3>2. CASE dirty = {}
      BY <1>3, <3>2 DEF Phys!Collect, MemInv
    <3>3. QED
      BY <3>1, <3>2
  <2>2. QED
    BY <1>3, <2>1 DEF Phys!Collect, MemInv, ViewRight, Phys!LoadSeesStores, Phys!WrittenIsDirty
<1>4. QED
  BY <1>1, <1>2, <1>3, LoadStep, StoreStep DEF Phys!Next

\* While no two ranges share a page, a load returns what was stored last, whatever its size
\* and alignment, through the TLB or not, and a page written since the dirty bits were collected is dirty
\* (riscv_cpu_read_memory, riscv_cpu_write_memory, default_get_dirty_bits).
THEOREM LoadsSeeStores ==
  ASSUME RangesOnPages PROVE Phys!Spec => [](Phys!LoadSeesStores /\ Phys!WrittenIsDirty)
<1>1. MemInv => Phys!LoadSeesStores /\ Phys!WrittenIsDirty
  BY DEF MemInv
<1>2. QED
  BY <1>1, MemInit, MemStep, PTL DEF Phys!Spec

-----------------------------------------------------------------------------
(* Atomic operations *)

\* A reservation that stands has not been used.
ReservationInv ==
  /\ load_res \in [Harts -> Cells \cup {Atomic!NoAddr}]
  /\ unused \in [Harts -> BOOLEAN]
  /\ DOMAIN trap = Harts
  /\ \A h \in Harts : load_res[h] # Atomic!NoAddr => unused[h]

LEMMA ReservationInit == Atomic!Init => ReservationInv
BY DEF Atomic!Init, ReservationInv

LEMMA ReservationStep == ReservationInv /\ [Atomic!Next]_(Atomic!vars) => ReservationInv'
<1> SUFFICES ASSUME ReservationInv, [Atomic!Next]_(Atomic!vars) PROVE ReservationInv'
  OBVIOUS
<1> USE DEF ReservationInv
<1>1. CASE UNCHANGED Atomic!vars
  BY <1>1 DEF Atomic!vars
<1>2. ASSUME NEW h \in Harts, NEW c, Atomic!Fault(h, c) PROVE ReservationInv'
  BY <1>2 DEF Atomic!Fault
<1>3. ASSUME NEW h \in Harts, Atomic!NoFault(h) PROVE DOMAIN trap' = Harts
  BY <1>3 DEF Atomic!NoFault
<1>4. ASSUME NEW h \in Harts, NEW x \in Cells, Atomic!Lr(h, x) PROVE ReservationInv'
  <2>1. CASE Atomic!Faulty(x)
    BY <1>2, <1>4, <2>1 DEF Atomic!Lr
  <2>2. CASE ~Atomic!Faulty(x)
    BY <1>3, <1>4, <2>2 DEF Atomic!Lr
  <2>3. QED
    BY <2>1, <2>2
<1>5. ASSUME NEW h \in Harts, NEW x \in Cells, NEW v, Atomic!Sc(h, x, v) PROVE ReservationInv'
  <2>1. CASE x \in Unaligned
    BY <1>2, <1>5, <2>1 DEF Atomic!Sc
  <2>2. CASE x \notin Unaligned /\ load_res[h] # x
    BY <1>3, <1>5, <2>2 DEF Atomic!Sc
  <2>3. CASE x \notin Unaligned /\ load_res[h] = x /\ Atomic!Faulty(x)
    BY <1>2, <1>5, <2>3 DEF Atomic!Sc
  <2>4. CASE x \notin Unaligned /\ load_res[h] = x /\ ~Atomic!Faulty(x)
    BY <1>3, <1>5, <2>4 DEF Atomic!Sc
  <2>5. QED
    BY <2>1, <2>2, <2>3, <2>4
<1>6. ASSUME NEW h \in Harts, NEW x \in Cells, NEW v, Atomic!Amo(h, x, v) \/ Atomic!Store(h, x, v) PROVE ReservationInv'
  <2>1. CASE Atomic!Faulty(x)
    BY <1>2, <1>6, <2>1 DEF Atomic!Amo, Atomic!Store
  <2>2. CASE ~Atomic!Faulty(x)
    BY <1>3, <1>6, <2>2 DEF Atomic!Amo, Atomic!Store
  <2>3. QED
    BY <2>1, <2>2
<1>7. QED
  BY <1>1, <1>4, <1>5, <1>6 DEF Atomic!Next

\* In every state an atomic operation that faults is reported as a store or a breakpoint.
LEMMA AmoCauses ==
  ASSUME ReservationInv, NEW h \in Harts, NEW x \in Cells, NEW v, Atomic!Amo(h, x, v)
  PROVE  trap'[h] \in {Atomic!NoAddr, "store", "breakpoint"}
<1>1. CASE Atomic!Faulty(x)
  <2>1. trap'[h] = Atomic!AmoCause(x)
    BY <1>1 DEF Atomic!Amo, Atomic!Fault, ReservationInv
  <2>2. QED
    BY <2>1 DEF Atomic!AmoCause, Atomic!Cause
<1>2. CASE ~Atomic!Faulty(x)
  BY <1>2 DEF Atomic!Amo, Atomic!NoFault, ReservationInv
<1>3. QED
  BY <1>1, <1>2

\* A store-conditional that changes memory uses the reservation of its hart.
LEMMA ScReserved ==
  ASSUME Atomic!LrScAssumption, ReservationInv, NEW h \in Harts, NEW x \in Cells, NEW v,
         word'[x] # word[x], Atomic!Sc(h, x, v)
  PROVE  unused[h] /\ load_res[h] = x
<1>1. load_res[h] = x
  BY DEF Atomic!Sc, Atomic!Fault
<1>2. QED
  BY <1>1 DEF ReservationInv, Atomic!LrScAssumption

\* No sequence of traps, failing store-conditionals and accesses of other harts lets a
\* store-conditional write what its hart has not reserved, or twice; the load of an atomic
\* operation never traps as one (OP_A of dromajo_template.h).
THEOREM ReservationsHold ==
  ASSUME Atomic!LrScAssumption
  PROVE  Atomic!Spec => [][Atomic!OncePerReservation /\ Atomic!FaultsAreStores]_(Atomic!vars)
<1>1. ReservationInv => Atomic!OncePerReservation /\ Atomic!FaultsAreStores
  <2> SUFFICES ASSUME ReservationInv PROVE Atomic!OncePerReservation /\ Atomic!FaultsAreStores
    OBVIOUS
  <2>1. Atomic!OncePerReservation
    BY ScReserved DEF Atomic!OncePerReservation
  <2>2. Atomic!FaultsAreStores
    BY AmoCauses DEF Atomic!FaultsAreStores
  <2>3. QED
    BY <2>1, <2>2
<1>2. QED
  BY <1>1, ReservationInit, ReservationStep, PTL DEF Atomic!Spec

-----------------------------------------------------------------------------
(* The hart *)

\* Only the part that runs moves.
LEMMA PartSteps ==
  /\ [Next]_vars => [Pmp!Next]_(Pmp!vars) /\ [Tlb!Next]_(Tlb!vars) /\ [Atomic!Next]_(Atomic!vars)
  /\ [Next]_vars => /\ part = "traps" => [Traps!Next]_(Traps!vars)
                    /\ part = "traps" <=> (part = "traps")'
                    /\ part = "debug" => [DebugTraps!Next]_(DebugTraps!vars)
                    /\ part = "debug" <=> (part = "debug")'
                    /\ part = "phys" => [Phys!Next]_(Phys!vars)
                    /\ part = "phys" <=> (part = "phys")'
BY DEF Next, vars, prot, xlate, traps, phys, atomic, Pmp!vars, Tlb!vars, Traps!vars, DebugTraps!vars,
  Phys!vars, Atomic!vars

\* In the composed hart accesses are judged by the lowest protection entry and answered
\* by the TLBs as a walk would answer, for accesses of a word or less, pages whose parts
\* have one protection, and a guest that takes no traps in machine mode under MPRV
\* (riscv_cpu_pmp_access_ok, target_read/write, tlb_flush_all).
THEOREM HartAccesses ==
  ASSUME Size \subseteq {1, 2, 4}, ~MprvTraps, \A o1, o2 \in Offset : o1 = o2
  PROVE  Spec => []AccessRight
<1>1. Pmp!Spec => []Pmp!LowestEntryDecides
  BY HartAssumption, LowestDecides
<1>2. Tlb!Spec => []Tlb!AccessIsTranslated /\ []Tlb!AccessIsPermitted
  BY HartAssumption, TlbTranslates, TlbPermits
<1>3. Init => Pmp!Init /\ Tlb!Init
  BY DEF Init
<1>4. [Next]_vars => [Pmp!Next]_(Pmp!vars) /\ [Tlb!Next]_(Tlb!vars)
  BY PartSteps
<1>5. Pmp!LowestEntryDecides /\ Tlb!AccessIsTranslated /\ Tlb!AccessIsPermitted => AccessRight
  BY DEF AccessRight
<1>6. QED
  BY <1>1, <1>2, <1>3, <1>4, <1>5, PTL DEF Spec, Pmp!Spec, Tlb!Spec

\* No trap, return or write of a register below machine mode, by any guest and with any
\* interrupts, breaks what machine mode relies on, in and out of debug mode, and locked
\* protection entries stay (raise_exception2, handle_sret, handle_mret, csr_write).
THEOREM HartPrivilege == Spec => PrivilegeKept
<1>1. Traps!Spec => /\ []Traps!ReturnRestores
                    /\ [][Traps!IsolatedStep]_(Traps!vars) /\ [][Traps!MachineFirstStep]_(Traps!vars)
  BY HartAssumption, Traps!TrapsReturn, Traps!TrapsIsolated, Traps!TrapsMachineFirst
<1>2. DebugTraps!Spec => []DebugTraps!ReturnRestores /\ [][DebugTraps!IsolatedStep]_(DebugTraps!vars)
  <2>1. DebugTraps!TrapsAssumption
    BY DEF DebugTraps!TrapsAssumption
  <2>2. QED
    BY <2>1, DebugTraps!TrapsReturn, DebugTraps!TrapsIsolated
<1>3. Pmp!Spec => [][Pmp!LockStep]_(Pmp!vars)
  BY HartAssumption, EntriesLocked
<1>4. Init => /\ Pmp!Init
              /\ part = "traps" => Traps!Init
              /\ part = "debug" => DebugTraps!Init
  BY DEF Init
<1>5. /\ [Next]_vars => [Pmp!Next]_(Pmp!vars)
      /\ [Next]_vars => /\ part = "traps" => [Traps!Next]_(Traps!vars)
                        /\ part = "traps" <=> (part = "traps")'
                        /\ part = "debug" => [DebugTraps!Next]_(DebugTraps!vars)
                        /\ part = "debug" <=> (part = "debug")'
  BY PartSteps
<1>6. [Next]_vars /\ part = "traps" /\ [Traps!IsolatedStep]_(Traps!vars) /\ [Traps!MachineFirstStep]_(Traps!vars)
        => [part = "traps" => Traps!IsolatedStep /\ Traps!MachineFirstStep]_vars
  BY DEF Next, vars, traps, Traps!vars
<1>7. [Next]_vars /\ part = "debug" /\ [DebugTraps!IsolatedStep]_(DebugTraps!vars)
        => [part = "debug" => DebugTraps!IsolatedStep]_vars
  BY DEF Next, vars, traps, DebugTraps!vars
<1>8. [Next]_vars /\ [Pmp!LockStep]_(Pmp!vars) => [part = "pmp" => Pmp!LockStep]_vars
  BY DEF Next, vars, prot, Pmp!vars
<1>9. /\ ~(part = "traps") => [part = "traps" => Traps!IsolatedStep /\ Traps!MachineFirstStep]_vars
      /\ ~(part = "debug") => [part = "debug" => DebugTraps!IsolatedStep]_vars
  OBVIOUS
<1>10. QED
  BY <1>1, <1>2, <1>3, <1>4, <1>5, <1>6, <1>7, <1>8, <1>9, PTL
     DEF Spec, Pmp!Spec, Traps!Spec, DebugTraps!Spec, PrivilegeKept

\* Where ranges lie at pages, no sequence of loads, stores, page faults and collections of the
\* dirty bits, of any sizes and alignments, makes a load return old bytes or a written page look clean, and
\* no sequence of atomic operations of any harts lets a store-conditional write without a
\* reservation of its own (riscv_cpu_read_memory, riscv_cpu_write_memory,
\* default_get_dirty_bits, OP_A).
THEOREM HartMemory ==
  ASSUME RangesOnPages PROVE Spec => MemoryRight
<1>1. Phys!Spec => [](Phys!LoadSeesStores /\ Phys!WrittenIsDirty)
  BY LoadsSeeStores
<1>2. Atomic!Spec => [][Atomic!OncePerReservation /\ Atomic!FaultsAreStores]_(Atomic!vars)
  BY MemoryAssumption, ReservationsHold
<1>3. Init => Atomic!Init /\ (part = "phys" => Phys!Init)
  BY DEF Init
<1>4. /\ [Next]_vars => [Atomic!Next]_(Atomic!vars)
      /\ [Next]_vars => /\ part = "phys" => [Phys!Next]_(Phys!vars)
                        /\ part = "phys" <=> (part = "phys")'
  BY PartSteps
<1>5. [Next]_vars /\ part = "atomic" /\ [Atomic!OncePerReservation /\ Atomic!FaultsAreStores]_(Atomic!vars)
        => [part = "atomic" => Atomic!OncePerReservation /\ Atomic!FaultsAreStores]_vars
  BY DEF Next, vars, atomic, Atomic!vars
<1>6. ~(part = "atomic") => [part = "atomic" => Atomic!OncePerReservation /\ Atomic!FaultsAreStores]_vars
  OBVIOUS
<1>7. QED
  BY <1>1, <1>2, <1>3, <1>4, <1>5, <1>6, PTL DEF Spec, Phys!Spec, Atomic!Spec, MemoryRight
=============================================================================
