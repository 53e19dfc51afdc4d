-------------------------------- MODULE Tlb --------------------------------
(***************************************************************************)
(* The three TLBs of riscv_cpu.cpp, for loads, stores and fetches.  An     *)
(* entry is made after translation and protection checks and used without  *)
(* them, so that everything a check depends on must flush it: privilege,   *)
(* mstatus, satp, the protection registers, and the tables, for which the  *)
(* guest has sfence.vma.                                                   *)
(***************************************************************************)
EXTENDS Integers, FiniteSets

CONSTANTS
  TlbSize,     \* TLB_SIZE
  NPages,      \* virtual and physical pages
  Offset,      \* parts of a page with their own protection
  Leaf,        \* entries the guest puts into its tables
  MprvTraps    \* whether the guest takes traps in machine mode with mprv set

Page == 0..(NPages - 1)

TlbAssumption == /\ TlbSize \in Nat \ {0} /\ NPages \in Nat \ {0} /\ MprvTraps \in BOOLEAN
                 /\ Leaf \subseteq [p : Page, u : BOOLEAN]

Kind == {"read", "write", "code"}
Prv == {0, 1, 3}
PrvM == 3
NoPte == [p |-> -1, u |-> FALSE]
Pte == {NoPte} \cup Leaf

\* What the protection registers say of a page: the offsets open to user and
\* supervisor mode, and an offset in the region that comes first of those that
\* reach into the page.
Protection == [open : SUBSET Offset, first : Offset]

VARIABLES
  cpu,      \* priv, and of mstatus: mprv, mpp, sum; satp: translation on or off
  pt,       \* what the tables map each virtual page to
  pmp,      \* the protection of each physical page
  tlb,      \* for each kind, index -> [v, p], v = -1: empty
  edited,   \* history: pages whose mapping changed since the last flush
  done      \* history: the last access, <<kind, v, offset, p>>

vars == <<cpu, pt, pmp, tlb, edited, done>>

Empty == [v |-> -1, p |-> -1]
None == <<>>

\* tlb_init, tlb_flush_all
Flushed == [k \in Kind |-> [i \in 0..(TlbSize - 1) |-> Empty]]

Init == /\ cpu = [priv |-> PrvM, mprv |-> FALSE, mpp |-> PrvM, sum |-> FALSE, satp |-> FALSE]
        /\ pt = [v \in Page |-> NoPte] /\ tlb = Flushed /\ edited = {} /\ done = None
        /\ pmp \in [Page -> {r \in Protection : r.open = {}}]

Flush == tlb' = Flushed /\ edited' = {}
Keep == UNCHANGED <<tlb, edited>>

-----------------------------------------------------------------------------
(* Translation and protection, in short (see Pmp).                          *)

EffPriv(c, kind) == IF c.mprv /\ kind # "code" THEN c.mpp ELSE c.priv

Translate(c, kind, v) ==
  LET priv == EffPriv(c, kind)
      e == pt[v]
  IN IF priv = PrvM \/ ~c.satp THEN v
     ELSE IF e = NoPte \/ (IF priv = 1 THEN e.u /\ ~c.sum ELSE ~e.u) THEN -1
     ELSE e.p

PmpOk(c, kind, p, o) == EffPriv(c, kind) = PrvM \/ o \in pmp[p].open

\* Only a fetch asks for the whole page before it fills the TLB, and the region
\* that comes first answers for the page, however little of it that region covers.
Fills(c, kind, p) == kind = "code" => PmpOk(c, kind, p, pmp[p].first)

Slot(v) == v % TlbSize

\* A mutant: the index alone decides.
HitFault(kind, v) == tlb[kind][Slot(v)] # Empty

Hit(kind, v) == tlb[kind][Slot(v)].v = v

\* target_read/write: a hit is used as it is; a miss goes through the checks.
DoAccess(kind, v, o) ==
  /\ UNCHANGED <<cpu, pt, pmp, edited>>
  /\ IF Hit(kind, v)
     THEN done' = <<kind, v, o, tlb[kind][Slot(v)].p>> /\ UNCHANGED tlb
     ELSE LET p == Translate(cpu, kind, v)
          IN IF p = -1 \/ (p # -1 /\ ~PmpOk(cpu, kind, p, o))
             THEN done' = None /\ UNCHANGED tlb
             ELSE /\ done' = <<kind, v, o, p>>
                  /\ tlb' = IF Fills(cpu, kind, p)
                            THEN [tlb EXCEPT ![kind][Slot(v)] = [v |-> v, p |-> p]] ELSE tlb

-----------------------------------------------------------------------------
(* What changes the outcome of the checks *)

\* A mutant: a change of mpp under mprv is not a change of the MMU.
MmuChangedFault(c, d) == c.mprv # d.mprv \/ c.sum # d.sum

\* set_mstatus
MmuChanged(c, d) == c.mprv # d.mprv \/ c.sum # d.sum \/ (c.mprv /\ c.mpp # d.mpp)

SetMstatus(mprv, mpp, sum) ==
  /\ cpu.priv = PrvM
  /\ cpu' = [cpu EXCEPT !.mprv = mprv, !.mpp = mpp, !.sum = sum]
  /\ IF MmuChanged(cpu, cpu') THEN Flush ELSE Keep
  /\ done' = None /\ UNCHANGED <<pt, pmp>>

\* csr_write of sstatus, from supervisor mode
SetSum(sum) ==
  /\ cpu.priv >= 1
  /\ cpu' = [cpu EXCEPT !.sum = sum]
  /\ IF MmuChanged(cpu, cpu') THEN Flush ELSE Keep
  /\ done' = None /\ UNCHANGED <<pt, pmp>>

WriteSatp(on) ==
  /\ cpu.priv >= 1
  /\ cpu' = [cpu EXCEPT !.satp = on]
  /\ Flush
  /\ done' = None /\ UNCHANGED <<pt, pmp>>

\* set_priv
SetPriv(c, priv) == /\ cpu' = [c EXCEPT !.priv = priv]
                    /\ IF cpu.priv # priv THEN Flush ELSE Keep

\* raise_exception2: to machine mode, or delegated
TrapM == /\ cpu.priv = PrvM /\ cpu.mprv => MprvTraps
         /\ SetPriv([cpu EXCEPT !.mpp = cpu.priv], PrvM)
         /\ done' = None /\ UNCHANGED <<pt, pmp>>

TrapS == /\ cpu.priv <= 1
         /\ SetPriv(cpu, 1)
         /\ done' = None /\ UNCHANGED <<pt, pmp>>

\* handle_mret; mprv stays
Mret == /\ cpu.priv = PrvM
        /\ cpu.mpp = PrvM /\ cpu.mprv => MprvTraps
        /\ SetPriv([cpu EXCEPT !.mpp = 0], cpu.mpp)
        /\ done' = None /\ UNCHANGED <<pt, pmp>>

Sret(spp) == /\ cpu.priv >= 1
             /\ SetPriv(cpu, spp)
             /\ done' = None /\ UNCHANGED <<pt, pmp>>

SfenceVma == /\ cpu.priv >= 1 /\ Flush
             /\ done' = None /\ UNCHANGED <<cpu, pt, pmp>>

\* A mutant: the registers change under a full TLB.
WritePmpFault(s) == /\ cpu.priv = PrvM
                    /\ pmp' = s /\ Keep
                    /\ done' = None /\ UNCHANGED <<cpu, pt>>

\* unpack_pmpaddrs
WritePmp(s) == /\ cpu.priv = PrvM
               /\ pmp' = s /\ Flush
               /\ done' = None /\ UNCHANGED <<cpu, pt>>

\* The guest edits its tables, with plain stores.
EditTable(v, e) == /\ pt' = [pt EXCEPT ![v] = e]
                   /\ edited' = IF tlb = Flushed THEN edited ELSE edited \cup {v}
                   /\ done' = None /\ UNCHANGED <<cpu, pmp, tlb>>

Next == \/ \E k \in Kind, v \in Page, o \in Offset : DoAccess(k, v, o)
        \/ \E b, s \in BOOLEAN, p \in Prv : SetMstatus(b, p, s)
        \/ \E b \in BOOLEAN : SetSum(b) \/ WriteSatp(b)
        \/ TrapM \/ TrapS \/ Mret \/ SfenceVma
        \/ \E spp \in {0, 1} : Sret(spp)
        \/ \E s \in [Page -> Protection] : WritePmp(s)
        \/ \E v \in Page, e \in Pte : EditTable(v, e)

Spec == Init /\ [][Next]_vars

-----------------------------------------------------------------------------
(* Properties *)

(* An access that succeeds reaches the page that a walk with the privilege, *)
(* mstatus and satp of this moment finds, unless the guest edited that      *)
(* mapping and has not fenced: riscv_cpu.cpp:863 "flush the TLBs if change  *)
(* of MMU config".                                                          *)
AccessIsTranslated ==
  done # None => \/ done[2] \in edited
                 \/ done[4] = Translate(cpu, done[1], done[2])

(* An access that succeeds is one the protection registers allow it, hit or *)
(* miss: riscv_cpu.cpp:184 "PMP checks are applied to all accesses when the *)
(* hart is running in S or U modes".                                        *)
AccessIsPermitted == done # None => PmpOk(cpu, done[1], done[4], done[3])

(* A fetch is translated right, hit or miss, and permitted in its own part  *)
(* of the page or in that of the region that comes first there.             *)
(* riscv_cpu.cpp:748 says more, "All of this page has full execute access   *)
(* so we can bypass the slow PMP checks", which is so where one region      *)
(* covers the page.                                                         *)
FetchIsRight ==
  done # None /\ done[1] = "code" =>
    /\ done[2] \in edited \/ done[4] = Translate(cpu, "code", done[2])
    /\ \E o \in {done[3], pmp[done[4]].first} : PmpOk(cpu, "code", done[4], o)

-----------------------------------------------------------------------------
(* The inductive invariant *)

Index == 0..(TlbSize - 1)
Cpu == [priv : Prv, mprv : BOOLEAN, mpp : Prv, sum : BOOLEAN, satp : BOOLEAN]

\* An answer for v, part o: the translation of this moment, unless the guest has
\* edited the table, and open to this moment's privilege, for a fetch in this part
\* or that of the page's first region, for a load or a store in the part that was
\* asked for when the entry was made.
AnswerRight(kind, v, p, o) ==
  /\ v \in edited \/ p = Translate(cpu, kind, v)
  /\ \E asked \in Offset : PmpOk(cpu, kind, p, asked)
  /\ kind = "code" => \E q \in {o, pmp[p].first} : PmpOk(cpu, kind, p, q)

\* An entry answers for every part of its page.
EntryRight(kind, v, p) == \A o \in Offset : AnswerRight(kind, v, p, o)

\* The kinds of access whose answers stay right: all, or without loads and stores
\* when the guest takes traps in machine mode under MPRV.
Sure == {kind \in Kind : kind = "code" \/ ~MprvTraps}

TlbInv ==
  /\ cpu \in Cpu /\ pt \in [Page -> Pte]
  /\ tlb \in [Kind -> [Index -> [v : Int, p : Int]]]
  /\ \A kind \in Sure, v \in Page : Hit(kind, v) => EntryRight(kind, v, tlb[kind][Slot(v)].p)
  /\ done # None => /\ done[1] \in Kind /\ done[2] \in Page /\ done[3] \in Offset
                    /\ done[1] \in Sure => AnswerRight(done[1], done[2], done[4], done[3])
=============================================================================
