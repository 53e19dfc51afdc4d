------------------------------ MODULE L1dWays ------------------------------
(***************************************************************************)
(* One set of an L1D bank: the tag RAM and line state table of its ways,   *)
(* the MSHRs that hold a miss of the set, the head of the line fill buffer *)
(* that peeks, checks, evicts and refills, the evict queue and the snoop   *)
(* controller (rvh_l1d_bank.sv, rvh_l1d_mlfb.sv, rvh_l1d_lst.sv,           *)
(* rvh_l1d_snp_ctrl.sv).  L1dBank follows one line and leaves the ways     *)
(* out; here the question is in which ways a line can be found.            *)
(*                                                                         *)
(* A snoop holds back core requests and the steps of the line fill buffer  *)
(* until it is done, so it is one step.  Tags keep their value when a way  *)
(* becomes INVALID.                                                        *)
(***************************************************************************)
EXTENDS Integers, FiniteSets, WellFoundedInduction, TLAPS

CONSTANTS
  NWays,    \* L1D_BANK_WAY_NUM
  Lines,    \* the lines that map to the set
  Mshrs,    \* MSHRs of the bank
  Ops       \* the kinds of requests: ld, st, lr, sc, amo, ptw

WaysAssumption ==
  /\ NWays \in Nat \ {0}
  /\ Lines # {} /\ Mshrs # {}
  /\ Ops \subseteq {"ld", "st", "lr", "sc", "amo", "ptw"}

Way == 0..(NWays - 1)
Mesi == {"I", "S", "E", "M"}
AnyLine == CHOOSE a \in Lines : TRUE

NoMiss == [op |-> "none", line |-> AnyLine, perm |-> {}]
Miss == [op : Ops, line : Lines, perm : SUBSET Way]

HeadPhase == {"none", "valid", "peeked", "checked", "evicted", "refilled"}
Head == [phase : HeadPhase, mshr : Mshrs, full : BOOLEAN, victim : Way, avail : Way]

VARIABLES
  tag,     \* tag RAM
  mesi,    \* line state table
  rsv,     \* ways whose lst_check_reserved_bit is set
  mshr,    \* the misses of the set; perm are the ways of a permission miss
  head,    \* head_buf of the line fill buffer
  ewrq     \* lines of the set in the evict queue

vars == <<tag, mesi, rsv, mshr, head, ewrq>>

TypeOK ==
  /\ tag \in [Way -> Lines]
  /\ mesi \in [Way -> Mesi]
  /\ rsv \in SUBSET Way
  /\ mshr \in [Mshrs -> Miss \cup {NoMiss}]
  /\ head \in Head
  /\ ewrq \in SUBSET Lines

\* The tag RAM starts with any content.
Init ==
  /\ tag \in [Way -> Lines]
  /\ mesi = [w \in Way |-> "I"]
  /\ rsv = {}
  /\ mshr = [m \in Mshrs |-> NoMiss]
  /\ head \in [phase : {"none"}, mshr : Mshrs, full : {FALSE}, victim : {0}, avail : {0}]
  /\ ewrq = {}

\* The last way of W a loop over the ways finds; 0 when there is none.
LastOf(W) == IF W = {} THEN 0 ELSE CHOOSE w \in W : \A v \in W : v <= w

-----------------------------------------------------------------------------
\* Core requests.

\* A mutant: only a miss of the same line holds a request back.
CoreReadyFault(op, a) ==
  /\ \A m \in Mshrs : mshr[m] = NoMiss \/ mshr[m].line # a
  /\ ewrq = {}

\* A request waits for the MSHRs and the evict queue entries of its set.  The
\* two terms count only when a load or store is at the port: a page table
\* walk alone at the port is let through.
CoreReady(op, a) ==
  \/ op = "ptw"
  \/ /\ \A m \in Mshrs : mshr[m] = NoMiss
     /\ ewrq = {}

HitWays(op, a) ==
  {w \in Way : /\ tag[w] = a
               /\ mesi[w] \in {"E", "M"} \/ (op \in {"ld", "ptw"} /\ mesi[w] = "S")}

\* LR and AMO are commented out of the condition.
PermissionMissWays(op, a) == {w \in Way : op = "st" /\ tag[w] = a /\ mesi[w] = "S"}

\* Of the hits only stores, AMOs and successful SCs change a state.
WriteHit(op, a) ==
  /\ op \in Ops \cap {"st", "amo", "sc"}
  /\ CoreReady(op, a)
  /\ HitWays(op, a) # {}
  /\ LET w == LastOf(HitWays(op, a))
     IN  /\ mesi' = [mesi EXCEPT ![w] = "M"]
         /\ rsv' = rsv \ {w}
  /\ UNCHANGED <<tag, mshr, head, ewrq>>

\* An SC that misses fails and takes no MSHR.
NewMshr(op, a, m) ==
  /\ op \in Ops \ {"sc"}
  /\ CoreReady(op, a)
  /\ HitWays(op, a) = {}
  /\ mshr[m] = NoMiss
  /\ mshr' = [mshr EXCEPT ![m] = [op |-> op, line |-> a, perm |-> PermissionMissWays(op, a)]]
  /\ UNCHANGED <<tag, mesi, rsv, head, ewrq>>

-----------------------------------------------------------------------------
\* The line fill buffer.

\* The response of an MSHR is complete and becomes the head.
HeadSet(m) ==
  /\ head.phase = "none"
  /\ mshr[m] # NoMiss
  /\ head' = [head EXCEPT !.phase = "valid", !.mshr = m]
  /\ UNCHANGED <<tag, mesi, rsv, mshr, ewrq>>

\* A mutant: the first INVALID way is taken.
AvailWayFault(W) == IF W = {} THEN 0 ELSE CHOOSE w \in W : \A v \in W : w <= v

\* The last INVALID way.
AvailWay(W) == LastOf(W)

\* The replacement tree may name any way as the victim.
Peek ==
  /\ head.phase = "valid"
  /\ LET free == {w \in Way : mesi[w] = "I"}
     IN  \E v \in Way :
           head' = [head EXCEPT !.phase = "peeked", !.full = (free = {}), !.victim = v,
                                !.avail = AvailWay(free)]
  /\ UNCHANGED <<tag, mesi, rsv, mshr, ewrq>>

RefillWay ==
  LET perm == mshr[head.mshr].perm
  IN  IF perm # {} THEN LastOf(perm) ELSE IF head.full THEN head.victim ELSE head.avail

Check ==
  /\ head.phase = "peeked"
  /\ RefillWay \notin rsv
  /\ rsv' = rsv \cup {RefillWay}
  /\ head' = [head EXCEPT !.phase = "checked"]
  /\ UNCHANGED <<tag, mesi, mshr, ewrq>>

Evicts == head.full /\ mshr[head.mshr].perm = {}

\* The victim becomes INVALID and goes to the evict queue, unless a snoop has
\* made it INVALID since the peek.
Evict ==
  /\ head.phase = "checked"
  /\ Evicts
  /\ mesi' = [mesi EXCEPT ![head.victim] = "I"]
  /\ ewrq' = IF mesi[head.victim] = "I" THEN ewrq ELSE ewrq \cup {tag[head.victim]}
  /\ head' = [head EXCEPT !.phase = "evicted"]
  /\ UNCHANGED <<tag, rsv, mshr>>

EvictBypass ==
  /\ head.phase = "checked"
  /\ ~Evicts
  /\ head' = [head EXCEPT !.phase = "evicted"]
  /\ UNCHANGED <<tag, mesi, rsv, mshr, ewrq>>

\* Loads and walks send ReadShared; LR and AMO send ReadUnique, whose
\* response is CompData_UD.
RefillStates(op) == IF op \in {"ld", "ptw"} THEN {"S", "E"} ELSE {"M"}

Refill ==
  /\ head.phase = "evicted"
  /\ tag' = [tag EXCEPT ![RefillWay] = mshr[head.mshr].line]
  /\ \E s \in RefillStates(mshr[head.mshr].op) : mesi' = [mesi EXCEPT ![RefillWay] = s]
  /\ rsv' = rsv \ {RefillWay}
  /\ head' = [head EXCEPT !.phase = "refilled"]
  /\ UNCHANGED <<mshr, ewrq>>

\* The head and its MSHR are released together.
Dealloc ==
  /\ head.phase = "refilled"
  /\ mshr' = [mshr EXCEPT ![head.mshr] = NoMiss]
  /\ head' = [head EXCEPT !.phase = "none"]
  /\ UNCHANGED <<tag, mesi, rsv, ewrq>>

EwrqDone(a) ==
  /\ a \in ewrq
  /\ ewrq' = ewrq \ {a}
  /\ UNCHANGED <<tag, mesi, rsv, mshr, head>>

-----------------------------------------------------------------------------
\* Snoops.

TagWays(a) == {w \in Way : tag[w] = a}

\* The last way whose tag matches, valid or not.
SnoopWay(a) == LastOf(TagWays(a))

\* A snoop waits while its line is in the evict queue.  No write when no tag
\* matches; SnpShared leaves a valid line SHARED.  The write clears the
\* reserved bit of its way when it leaves the line valid.
Snoop(a, kind) ==
  /\ a \notin ewrq
  /\ TagWays(a) # {}
  /\ LET w == SnoopWay(a)
         s == IF mesi[w] # "I" /\ kind = "SnpShared" THEN "S" ELSE "I"
     IN  /\ mesi' = [mesi EXCEPT ![w] = s]
         /\ rsv' = IF s = "I" THEN rsv ELSE rsv \ {w}
  /\ UNCHANGED <<tag, mshr, head, ewrq>>

Next ==
  \/ \E op \in Ops, a \in Lines : WriteHit(op, a)
  \/ \E op \in Ops, a \in Lines, m \in Mshrs : NewMshr(op, a, m)
  \/ \E m \in Mshrs : HeadSet(m)
  \/ Peek
  \/ Check
  \/ Evict
  \/ EvictBypass
  \/ Refill
  \/ Dealloc
  \/ \E a \in Lines : EwrqDone(a)
  \/ \E a \in Lines, kind \in {"SnpShared", "SnpUnique"} : Snoop(a, kind)

Spec == Init /\ [][Next]_vars

-----------------------------------------------------------------------------
\* Properties.

\* A valid line is in the way a snoop looks at: no higher way carries its tag,
\* neither a stale tag of an INVALID way nor a second copy.
SnoopFindsLine == \A w \in Way : mesi[w] # "I" => w = SnoopWay(tag[w])

\* A tag is overwritten only in a way that is INVALID: a refill never drops a
\* line that has not gone to the evict queue or been invalidated by a snoop.
LinesKept == \A w \in Way : tag'[w] # tag[w] => mesi[w] = "I"

\* After SnpUnique of a line no way of the set holds it valid.
SnpUniqueInvalidates ==
  [][\A a \in Lines : Snoop(a, "SnpUnique") => \A w \in TagWays(a) : mesi'[w] = "I"]_vars

\* At most one MSHR holds a miss of the set.
OneMissPerSet == \A m, n \in Mshrs : mshr[m] # NoMiss /\ mshr[n] # NoMiss => m = n

-----------------------------------------------------------------------------
\* Proofs.

\* The line fill buffer is between its check of the free ways and its refill.
Chosen == head.phase \in {"peeked", "checked", "evicted"}

\* A valid line has no way with its tag above it.
Uppermost == \A w \in Way : mesi[w] # "I" => \A v \in TagWays(tag[w]) : v <= w

\* The set has one miss at a time, and a head only with its miss.
OneMiss ==
  /\ \A m, n \in Mshrs : mshr[m] # NoMiss /\ mshr[n] # NoMiss => m = n
  /\ head.phase # "none" => mshr[head.mshr] # NoMiss

\* Until its refill, the line of a miss is valid at most in the way of a
\* permission miss, which is the uppermost way that carries its tag.
MissingLine ==
  \A m \in Mshrs :
    mshr[m] # NoMiss /\ (head.phase = "refilled" => head.mshr # m) =>
      /\ \A w \in TagWays(mshr[m].line) : mesi[w] # "I" => w \in mshr[m].perm
      /\ \A w \in mshr[m].perm :
           /\ tag[w] = mshr[m].line
           /\ \A v \in TagWays(mshr[m].line) : v <= w

\* The way chosen for a line that is in no way: when all ways were taken at the
\* peek no tag is that of the line, and the victim is INVALID at the refill;
\* otherwise the way stays INVALID, with the tags of the line all below it.
ChosenWay ==
  Chosen /\ mshr[head.mshr].perm = {} =>
    IF head.full
    THEN /\ TagWays(mshr[head.mshr].line) = {}
         /\ head.phase = "evicted" => mesi[head.victim] = "I"
    ELSE /\ mesi[head.avail] = "I"
         /\ \A v \in TagWays(mshr[head.mshr].line) : v <= head.avail

\* The inductive invariant.
WaysInv == TypeOK /\ Uppermost /\ OneMiss /\ MissingLine /\ ChosenWay

\* A set of naturals has a least element.
LEMMA Least ==
  ASSUME NEW W \in SUBSET Nat, W # {}
  PROVE  \E w \in W : \A v \in W : w <= v
<1>1. \A x, y \in Nat : x < y => <<x, y>> \in OpToRel(<, Nat)
  BY DEF OpToRel
<1>2. \E R : /\ IsWellFoundedOn(R, Nat)
             /\ \A x, y \in Nat : x < y => <<x, y>> \in R
  BY <1>1, NatLessThanWellFounded, Zenon
<1>3. PICK R : /\ IsWellFoundedOn(R, Nat)
               /\ \A x, y \in Nat : x < y => <<x, y>> \in R
  BY <1>2
<1>4. \E x \in W : \A y \in W : ~ (<<y, x>> \in R)
  <2>1. IsWellFoundedOn(R, Nat) /\ W \subseteq Nat /\ W # {}
    BY <1>3
  <2>2. QED
    BY ONLY <2>1, WFMin, Zenon
<1>5. \E x \in W : \A y \in W : ~ (y < x)
  BY <1>3, <1>4, Zenon
<1>6. QED
  BY <1>5

\* A loop over the ways finds one of those it looks for, and the last of them.
LEMMA LastOfIsLast ==
  ASSUME WaysAssumption, NEW W \in SUBSET Way
  PROVE  /\ LastOf(W) \in Way
         /\ W # {} => LastOf(W) \in W /\ \A v \in W : v <= LastOf(W)
<1>1. CASE W = {}
  BY <1>1 DEF LastOf, Way, WaysAssumption
<1>2. CASE W # {}
  <2> DEFINE V == {NWays - w : w \in W}
  <2>0. \A w \in W : w \in Int /\ NWays - w \in Nat
    BY DEF Way, WaysAssumption
  <2>1. V \in SUBSET Nat /\ V # {}
    BY <1>2, <2>0
  <2>2. PICK x \in V : \A v \in V : x <= v
    <3> HIDE DEF V
    <3> QED
      BY <2>1, Least
  <2>3. PICK w \in W : x = NWays - w
    OBVIOUS
  <2>4. \A v \in W : x <= NWays - v
    BY <2>2
  <2>5. \A v \in W : v <= w
    BY <2>0, <2>3, <2>4 DEF WaysAssumption
  <2>6. LastOf(W) \in W /\ \A v \in W : v <= LastOf(W)
    BY <1>2, <2>5 DEF LastOf
  <2>7. QED
    BY <2>6
<1>3. QED
  BY <1>1, <1>2

\* Nothing lies above the way found, so it is the way a snoop looks at.
LEMMA UppermostFound ==
  ASSUME TypeOK, Uppermost PROVE SnoopFindsLine
<1> SUFFICES ASSUME NEW w \in Way, mesi[w] # "I"
             PROVE  w = SnoopWay(tag[w])
  BY DEF SnoopFindsLine
<1>1. w \in TagWays(tag[w]) /\ TagWays(tag[w]) \in SUBSET Way
  BY DEF TagWays
<1>2. \A v \in TagWays(tag[w]) : v <= w
  BY DEF Uppermost
<1>3. \A x \in TagWays(tag[w]) : (\A v \in TagWays(tag[w]) : v <= x) => x = w
  BY <1>1, <1>2 DEF Way
<1>4. QED
  BY <1>1, <1>2, <1>3 DEF SnoopWay, LastOf

\* The way a refill writes is in the set; it carries the tag of the line or is
\* INVALID, and every tag of the line is at or below it.
LEMMA RefillWayFound ==
  ASSUME WaysAssumption, WaysInv, Chosen
  PROVE  /\ RefillWay \in Way
         /\ \A v \in TagWays(mshr[head.mshr].line) : v <= RefillWay
         /\ head.phase = "evicted" =>
              tag[RefillWay] = mshr[head.mshr].line \/ mesi[RefillWay] = "I"
<1> DEFINE miss == mshr[head.mshr]
<1>1. /\ head \in Head /\ head.mshr \in Mshrs /\ miss \in Miss
      /\ miss.perm \in SUBSET Way /\ TagWays(miss.line) \in SUBSET Way
  BY DEF WaysInv, TypeOK, OneMiss, Chosen, Head, Miss, TagWays
<1>2. CASE miss.perm # {}
  <2>1. RefillWay = LastOf(miss.perm) /\ RefillWay \in miss.perm
    BY <1>1, <1>2, LastOfIsLast DEF RefillWay
  <2>2. QED
    BY <1>1, <2>1 DEF WaysInv, OneMiss, MissingLine, Chosen
<1>3. CASE miss.perm = {}
  BY <1>1, <1>3 DEF RefillWay, WaysInv, ChosenWay, Head
<1>4. QED
  BY <1>2, <1>3

\* Initially no way is valid and there is no miss.
LEMMA WaysInit ==
  ASSUME WaysAssumption, Init PROVE WaysInv
<1>1. AnyLine \in Lines
  BY DEF WaysAssumption, AnyLine
<1>2. 0 \in Way
  BY DEF WaysAssumption, Way
<1>3. TypeOK
  BY <1>1, <1>2 DEF Init, TypeOK, Head, HeadPhase, Mesi
<1>4. Uppermost /\ OneMiss /\ MissingLine /\ ChosenWay
  BY DEF Init, Uppermost, OneMiss, MissingLine, ChosenWay, Chosen
<1>5. QED
  BY <1>3, <1>4 DEF WaysInv

\* A step that makes no INVALID way valid and leaves tags, misses and the head
\* alone keeps the invariant.
LEMMA FewerValid ==
  ASSUME WaysInv, UNCHANGED <<tag, mshr, head>>, mesi' \in [Way -> Mesi],
         \A w \in Way : mesi'[w] # "I" => mesi[w] # "I"
  PROVE  (Uppermost /\ OneMiss /\ MissingLine /\ ChosenWay)'
<1>1. /\ head \in Head
      /\ \A a : TagWays(a)' = TagWays(a) /\ TagWays(a) \in SUBSET Way
  BY DEF WaysInv, TypeOK, TagWays
<1>2. Uppermost'
  BY <1>1 DEF WaysInv, Uppermost
<1>3. OneMiss'
  BY DEF WaysInv, OneMiss
<1>4. MissingLine'
  BY <1>1 DEF WaysInv, MissingLine
<1>5. ChosenWay'
  BY <1>1 DEF WaysInv, ChosenWay, Chosen, Head
<1>6. QED
  BY <1>2, <1>3, <1>4, <1>5

\* A store hit makes a valid way MODIFIED.
LEMMA WriteHitStep ==
  ASSUME WaysAssumption, WaysInv, NEW op \in Ops, NEW a \in Lines, WriteHit(op, a)
  PROVE  WaysInv'
<1> DEFINE w == LastOf(HitWays(op, a))
<1>1. HitWays(op, a) \in SUBSET Way /\ HitWays(op, a) # {}
  BY DEF HitWays, WriteHit
<1>2. w \in HitWays(op, a)
  BY <1>1, LastOfIsLast
<1>3. w \in Way /\ mesi[w] # "I"
  BY <1>2 DEF HitWays
<1>4. /\ mesi' = [mesi EXCEPT ![w] = "M"] /\ rsv' = rsv \ {w}
      /\ UNCHANGED <<tag, mshr, head, ewrq>>
  BY DEF WriteHit
<1> HIDE DEF w
<1>5. mesi' \in [Way -> Mesi] /\ \A v \in Way : mesi'[v] # "I" => mesi[v] # "I"
  BY <1>3, <1>4 DEF WaysInv, TypeOK, Mesi
<1>6. TypeOK'
  BY <1>4, <1>5 DEF WaysInv, TypeOK
<1>7. QED
  BY <1>4, <1>5, <1>6, FewerValid DEF WaysInv

\* A snoop leaves a way it makes SHARED valid, and all others as they are.
LEMMA SnoopStep ==
  ASSUME WaysAssumption, WaysInv, NEW a \in Lines, NEW kind, Snoop(a, kind)
  PROVE  WaysInv'
<1>1. TagWays(a) \in SUBSET Way /\ TagWays(a) # {}
  BY DEF TagWays, Snoop
<1>2. SnoopWay(a) \in Way
  BY <1>1, LastOfIsLast DEF SnoopWay
<1>3. PICK s \in {"S", "I"} :
        /\ s = "S" => mesi[SnoopWay(a)] # "I"
        /\ mesi' = [mesi EXCEPT ![SnoopWay(a)] = s]
        /\ rsv' \in SUBSET rsv
        /\ UNCHANGED <<tag, mshr, head, ewrq>>
  BY DEF Snoop
<1>4. mesi' \in [Way -> Mesi] /\ \A v \in Way : mesi'[v] # "I" => mesi[v] # "I"
  BY <1>2, <1>3 DEF WaysInv, TypeOK, Mesi
<1>5. TypeOK'
  BY <1>3, <1>4 DEF WaysInv, TypeOK
<1>6. QED
  BY <1>3, <1>4, <1>5, FewerValid DEF WaysInv

\* An entry of the evict queue is done.
LEMMA EwrqDoneStep ==
  ASSUME WaysInv, NEW a \in Lines, EwrqDone(a) PROVE WaysInv'
<1>1. UNCHANGED <<tag, mesi, rsv, mshr, head>> /\ ewrq' = ewrq \ {a}
  BY DEF EwrqDone
<1>2. TypeOK'
  BY <1>1 DEF WaysInv, TypeOK
<1>3. QED
  BY <1>1, <1>2, FewerValid DEF WaysInv, TypeOK

\* A miss takes an MSHR only when there is no other miss of the set: its line
\* is in no way, or SHARED in the ways of a permission miss.
LEMMA NewMshrStep ==
  ASSUME WaysAssumption, Ops \subseteq {"ld", "st", "sc"}, WaysInv,
         NEW op \in Ops, NEW a \in Lines, NEW m \in Mshrs, NewMshr(op, a, m)
  PROVE  WaysInv'
<1> DEFINE perm == PermissionMissWays(op, a)
<1>1. /\ \A n \in Mshrs : mshr[n] = NoMiss
      /\ mshr' = [mshr EXCEPT ![m] = [op |-> op, line |-> a, perm |-> perm]]
      /\ UNCHANGED <<tag, mesi, rsv, head, ewrq>>
      /\ HitWays(op, a) = {} /\ op \in {"ld", "st"}
  BY DEF NewMshr, CoreReady
<1>2. head.phase = "none"
  BY <1>1 DEF WaysInv, OneMiss, TypeOK, Head
<1>3. perm \in SUBSET Way
  BY DEF PermissionMissWays
<1>4. \A w \in TagWays(a) : mesi[w] # "I" => w \in perm
  <2>1. \A w \in TagWays(a) : w \in Way /\ tag[w] = a /\ mesi[w] \in Mesi
    BY DEF TagWays, WaysInv, TypeOK
  <2>2. QED
    BY <1>1, <2>1 DEF HitWays, PermissionMissWays, Mesi
<1>5. \A w \in perm : tag[w] = a /\ \A v \in TagWays(a) : v <= w
  BY DEF PermissionMissWays, WaysInv, Uppermost
<1> HIDE DEF perm
<1>6. TypeOK'
  BY <1>1, <1>3 DEF WaysInv, TypeOK, Miss
<1>7. /\ mshr'[m] = [op |-> op, line |-> a, perm |-> perm]
      /\ \A n \in Mshrs \ {m} : mshr'[n] = NoMiss
  BY <1>1 DEF WaysInv, TypeOK
<1>8. Uppermost'
  BY <1>1 DEF WaysInv, Uppermost, TagWays
<1>9. OneMiss' /\ ChosenWay'
  BY <1>1, <1>2, <1>7 DEF OneMiss, ChosenWay, Chosen
<1>10. MissingLine'
  BY <1>1, <1>4, <1>5, <1>7 DEF MissingLine, TagWays
<1>11. QED
  BY <1>6, <1>8, <1>9, <1>10 DEF WaysInv

\* The head takes up a miss.
LEMMA HeadSetStep ==
  ASSUME WaysInv, NEW m \in Mshrs, HeadSet(m) PROVE WaysInv'
<1>1. /\ head' = [head EXCEPT !.phase = "valid", !.mshr = m]
      /\ head.phase = "none" /\ mshr[m] # NoMiss
      /\ UNCHANGED <<tag, mesi, rsv, mshr, ewrq>>
  BY DEF HeadSet
<1>2. TypeOK' /\ head' \in Head /\ head'.phase = "valid" /\ head'.mshr = m
  BY <1>1 DEF WaysInv, TypeOK, Head, HeadPhase
<1>3. Uppermost' /\ MissingLine'
  BY <1>1, <1>2 DEF WaysInv, Uppermost, MissingLine, TagWays
<1>4. OneMiss' /\ ChosenWay'
  BY <1>1, <1>2 DEF WaysInv, OneMiss, ChosenWay, Chosen
<1>5. QED
  BY <1>2, <1>3, <1>4 DEF WaysInv

\* The peek finds the last INVALID way, or none.
LEMMA PeekStep ==
  ASSUME WaysAssumption, WaysInv, Peek PROVE WaysInv'
<1> DEFINE free == {w \in Way : mesi[w] = "I"}
<1>1. PICK v \in Way :
        head' = [head EXCEPT !.phase = "peeked", !.full = (free = {}), !.victim = v,
                             !.avail = LastOf(free)]
  BY DEF Peek, AvailWay
<1>2. head.phase = "valid" /\ UNCHANGED <<tag, mesi, rsv, mshr, ewrq>>
  BY DEF Peek
<1>3. /\ LastOf(free) \in Way
      /\ free # {} => LastOf(free) \in free /\ \A x \in free : x <= LastOf(free)
  BY LastOfIsLast
<1>4. /\ head' \in Head /\ head'.phase = "peeked" /\ head'.mshr = head.mshr
      /\ head'.full <=> free = {}
      /\ head'.avail = LastOf(free)
  BY <1>1, <1>3 DEF WaysInv, TypeOK, Head, HeadPhase
<1>5. TypeOK'
  BY <1>2, <1>4 DEF WaysInv, TypeOK
<1>6. Uppermost' /\ MissingLine'
  BY <1>2, <1>4 DEF WaysInv, Uppermost, MissingLine, TagWays
<1>7. OneMiss'
  BY <1>2, <1>4 DEF WaysInv, OneMiss
<1>8. ChosenWay'
  <2> SUFFICES ASSUME mshr[head.mshr].perm = {}
               PROVE  IF free = {}
                      THEN TagWays(mshr[head.mshr].line) = {}
                      ELSE /\ mesi[LastOf(free)] = "I"
                           /\ \A x \in TagWays(mshr[head.mshr].line) : x <= LastOf(free)
    BY <1>2, <1>4 DEF ChosenWay, Chosen, TagWays
  <2>1. head.mshr \in Mshrs /\ mshr[head.mshr] # NoMiss
    BY <1>2 DEF WaysInv, TypeOK, Head, OneMiss
  <2>2. \A x \in TagWays(mshr[head.mshr].line) : mesi[x] = "I"
    BY <1>2, <2>1 DEF WaysInv, MissingLine
  <2>3. TagWays(mshr[head.mshr].line) \subseteq free
    BY <2>2 DEF TagWays
  <2>4. QED
    BY <1>3, <2>3
<1>9. QED
  BY <1>5, <1>6, <1>7, <1>8 DEF WaysInv

\* The check only reserves the way.
LEMMA CheckStep ==
  ASSUME WaysAssumption, WaysInv, Check PROVE WaysInv'
<1>1. /\ head' = [head EXCEPT !.phase = "checked"]
      /\ head.phase = "peeked" /\ rsv' = rsv \cup {RefillWay}
      /\ UNCHANGED <<tag, mesi, mshr, ewrq>>
  BY DEF Check
<1>2. RefillWay \in Way
  BY <1>1, RefillWayFound DEF Chosen
<1>3. /\ head' \in Head /\ head'.phase = "checked" /\ head'.mshr = head.mshr
      /\ head'.full = head.full /\ head'.avail = head.avail
  BY <1>1 DEF WaysInv, TypeOK, Head, HeadPhase
<1>4. TypeOK'
  BY <1>1, <1>2, <1>3 DEF WaysInv, TypeOK
<1>5. Uppermost' /\ MissingLine'
  BY <1>1, <1>3 DEF WaysInv, Uppermost, MissingLine, TagWays
<1>6. OneMiss' /\ ChosenWay'
  BY <1>1, <1>3 DEF WaysInv, OneMiss, ChosenWay, Chosen, TagWays
<1>7. QED
  BY <1>4, <1>5, <1>6 DEF WaysInv

\* The eviction leaves the victim INVALID.
LEMMA EvictStep ==
  ASSUME WaysAssumption, WaysInv, Evict PROVE WaysInv'
<1>1. /\ head' = [head EXCEPT !.phase = "evicted"]
      /\ head.phase = "checked" /\ head.full /\ mshr[head.mshr].perm = {}
      /\ mesi' = [mesi EXCEPT ![head.victim] = "I"]
      /\ UNCHANGED <<tag, rsv, mshr>>
  BY DEF Evict, Evicts
<1>2. /\ head' \in Head /\ head'.phase = "evicted" /\ head'.mshr = head.mshr
      /\ head'.full = head.full /\ head'.avail = head.avail
      /\ head'.victim = head.victim /\ head.victim \in Way /\ head.mshr \in Mshrs
  BY <1>1 DEF WaysInv, TypeOK, Head, HeadPhase
<1>3. /\ mesi' \in [Way -> Mesi] /\ mesi'[head.victim] = "I"
      /\ \A w \in Way : mesi'[w] # "I" => mesi[w] # "I"
  BY <1>1, <1>2 DEF WaysInv, TypeOK, Mesi
<1>4. ewrq' \in SUBSET Lines
  BY <1>2 DEF Evict, WaysInv, TypeOK
<1>5. TypeOK'
  BY <1>1, <1>2, <1>3, <1>4 DEF WaysInv, TypeOK
<1>6. \A a : TagWays(a)' = TagWays(a) /\ TagWays(a) \in SUBSET Way
  BY <1>1 DEF TagWays
<1>7. Uppermost' /\ MissingLine'
  BY <1>1, <1>2, <1>3, <1>6 DEF WaysInv, Uppermost, MissingLine
<1>8. OneMiss' /\ ChosenWay'
  BY <1>1, <1>2, <1>3, <1>6 DEF WaysInv, OneMiss, ChosenWay, Chosen
<1>9. QED
  BY <1>5, <1>7, <1>8 DEF WaysInv

\* There is nothing to evict when a way was free or the line keeps its way.
LEMMA EvictBypassStep ==
  ASSUME WaysInv, EvictBypass PROVE WaysInv'
<1>1. /\ head' = [head EXCEPT !.phase = "evicted"]
      /\ head.phase = "checked" /\ ~Evicts
      /\ UNCHANGED <<tag, mesi, rsv, mshr, ewrq>>
  BY DEF EvictBypass
<1>2. /\ head' \in Head /\ head'.phase = "evicted" /\ head'.mshr = head.mshr
      /\ head'.full = head.full /\ head'.avail = head.avail /\ head.mshr \in Mshrs
  BY <1>1 DEF WaysInv, TypeOK, Head, HeadPhase
<1>3. TypeOK'
  BY <1>1, <1>2 DEF WaysInv, TypeOK
<1>4. Uppermost' /\ MissingLine'
  BY <1>1, <1>2 DEF WaysInv, Uppermost, MissingLine, TagWays
<1>5. OneMiss' /\ ChosenWay'
  BY <1>1, <1>2 DEF WaysInv, OneMiss, ChosenWay, Chosen, Evicts, TagWays
<1>6. QED
  BY <1>3, <1>4, <1>5 DEF WaysInv

\* The refill makes its way valid; the way is the uppermost with its tag, and
\* no other way holds the line.
LEMMA RefillStep ==
  ASSUME WaysAssumption, Ops \subseteq {"ld", "st", "sc"}, WaysInv, Refill PROVE WaysInv'
<1> DEFINE miss == mshr[head.mshr]
           r == RefillWay
<1>1. /\ head.phase = "evicted" /\ head' = [head EXCEPT !.phase = "refilled"]
      /\ tag' = [tag EXCEPT ![r] = miss.line]
      /\ rsv' = rsv \ {r}
      /\ UNCHANGED <<mshr, ewrq>>
  BY DEF Refill
<1>2. PICK s \in {"S", "E", "M"} : mesi' = [mesi EXCEPT ![r] = s]
  BY DEF Refill, RefillStates
<1>3. /\ r \in Way
      /\ \A v \in TagWays(miss.line) : v <= r
      /\ tag[r] = miss.line \/ mesi[r] = "I"
  BY <1>1, RefillWayFound DEF Chosen
<1>4. /\ head.mshr \in Mshrs /\ miss # NoMiss /\ miss \in Miss
      /\ head' \in Head /\ head'.phase = "refilled" /\ head'.mshr = head.mshr
  BY <1>1 DEF WaysInv, TypeOK, OneMiss, Head, HeadPhase
<1>5. miss.line \in Lines /\ miss.perm \in SUBSET Way
  BY <1>4 DEF Miss
<1>6. \A w \in TagWays(miss.line) : mesi[w] # "I" => w = r
  <2> SUFFICES ASSUME NEW w \in TagWays(miss.line), mesi[w] # "I" PROVE w = r
    OBVIOUS
  <2>1. w \in miss.perm
    BY <1>1, <1>4 DEF WaysInv, MissingLine
  <2>2. r = LastOf(miss.perm) /\ LastOf(miss.perm) \in miss.perm
    BY <1>5, <2>1, LastOfIsLast DEF RefillWay
  <2>3. tag[r] = miss.line /\ \A v \in TagWays(miss.line) : v <= w
    BY <1>1, <1>4, <2>1, <2>2 DEF WaysInv, MissingLine
  <2>4. r \in TagWays(miss.line) /\ w \in Way
    BY <1>3, <2>3 DEF TagWays
  <2>5. QED
    BY <1>3, <2>3, <2>4 DEF Way
<1> HIDE DEF r, miss
<1>7. TypeOK'
  BY <1>1, <1>2, <1>3, <1>4, <1>5 DEF WaysInv, TypeOK, Mesi
<1>8. Uppermost'
  <2> SUFFICES ASSUME NEW w \in Way, mesi'[w] # "I", NEW v \in Way, tag'[v] = tag'[w]
               PROVE  v <= w
    BY DEF Uppermost, TagWays
  <2>1. /\ \A x \in Way \ {r} : tag'[x] = tag[x] /\ mesi'[x] = mesi[x]
        /\ tag'[r] = miss.line
    BY <1>1, <1>2, <1>3 DEF WaysInv, TypeOK
  <2>2. CASE w = r
    BY <1>3, <2>1, <2>2 DEF TagWays, Way
  <2>3. CASE w # r /\ v = r
    <3>1. tag[w] = miss.line /\ mesi[w] # "I"
      BY <2>1, <2>3
    <3>2. QED
      BY <1>6, <2>3, <3>1 DEF TagWays
  <2>4. CASE w # r /\ v # r
    BY <2>1, <2>4 DEF WaysInv, Uppermost, TagWays
  <2>5. QED
    BY <2>2, <2>3, <2>4
<1>9. OneMiss' /\ ChosenWay'
  BY <1>1, <1>4 DEF WaysInv, OneMiss, ChosenWay, Chosen
<1>10. MissingLine'
  BY <1>1, <1>4 DEF WaysInv, OneMiss, MissingLine, miss
<1>11. QED
  BY <1>7, <1>8, <1>9, <1>10 DEF WaysInv

\* Head and MSHR are released together.
LEMMA DeallocStep ==
  ASSUME WaysAssumption, WaysInv, Dealloc PROVE WaysInv'
<1>1. /\ mshr' = [mshr EXCEPT ![head.mshr] = NoMiss]
      /\ head.phase = "refilled" /\ head' = [head EXCEPT !.phase = "none"]
      /\ UNCHANGED <<tag, mesi, rsv, ewrq>>
  BY DEF Dealloc
<1>2. head.mshr \in Mshrs /\ head' \in Head /\ head'.phase = "none"
  BY <1>1 DEF WaysInv, TypeOK, Head, HeadPhase
<1>3. \A m \in Mshrs : mshr'[m] = NoMiss
  BY <1>1, <1>2 DEF WaysInv, TypeOK, OneMiss
<1>4. TypeOK'
  BY <1>1, <1>2 DEF WaysInv, TypeOK
<1>5. Uppermost' /\ OneMiss' /\ MissingLine' /\ ChosenWay'
  BY <1>1, <1>2, <1>3 DEF WaysInv, Uppermost, OneMiss, MissingLine, ChosenWay, Chosen, TagWays
<1>6. QED
  BY <1>4, <1>5 DEF WaysInv

\* Every step keeps the invariant.
LEMMA WaysStep ==
  ASSUME WaysAssumption, Ops \subseteq {"ld", "st", "sc"}, WaysInv, [Next]_vars
  PROVE  WaysInv'
<1>1. CASE \E op \in Ops, a \in Lines : WriteHit(op, a)
  BY <1>1, WriteHitStep
<1>2. CASE \E op \in Ops, a \in Lines, m \in Mshrs : NewMshr(op, a, m)
  BY <1>2, NewMshrStep
<1>3. CASE \E m \in Mshrs : HeadSet(m)
  BY <1>3, HeadSetStep
<1>4. CASE Peek \/ Check
  BY <1>4, PeekStep, CheckStep
<1>5. CASE Evict \/ EvictBypass
  BY <1>5, EvictStep, EvictBypassStep
<1>6. CASE Refill \/ Dealloc
  BY <1>6, RefillStep, DeallocStep
<1>7. CASE \E a \in Lines : EwrqDone(a)
  BY <1>7, EwrqDoneStep
<1>8. CASE \E a \in Lines, kind \in {"SnpShared", "SnpUnique"} : Snoop(a, kind)
  BY <1>8, SnoopStep
<1>9. CASE UNCHANGED vars
  <2>1. UNCHANGED <<tag, mesi, rsv, mshr, head, ewrq>>
    BY <1>9 DEF vars
  <2>2. TypeOK'
    BY <2>1 DEF WaysInv, TypeOK
  <2>3. QED
    BY <2>1, <2>2, FewerValid DEF WaysInv, TypeOK
<1>10. QED
  BY <1>1, <1>2, <1>3, <1>4, <1>5, <1>6, <1>7, <1>8, <1>9 DEF Next

\* When the core sends loads, stores and SCs only, a snoop finds every valid line of
\* the set although it looks only at the last way whose tag matches
\* (rvh_l1d_snp_ctrl.sv).  LR and AMO break it: on a SHARED line they are plain
\* misses and refill into another way.
THEOREM SnoopFinds ==
  ASSUME WaysAssumption, Ops \subseteq {"ld", "st", "sc"} PROVE Spec => []SnoopFindsLine
<1>1. Init => WaysInv
  BY WaysInit
<1>2. WaysInv /\ [Next]_vars => WaysInv'
  BY WaysStep
<1>3. WaysInv => SnoopFindsLine
  BY UppermostFound DEF WaysInv
<1>4. QED
  BY <1>1, <1>2, <1>3, PTL DEF Spec

\* A refill writes the tag of a way that is INVALID by then, or that carries the
\* tag already: no line is dropped, whatever snoops did since the peek
\* (rvh_l1d_mlfb.sv).
THEOREM LinesAreKept ==
  ASSUME WaysAssumption, Ops \subseteq {"ld", "st", "sc"} PROVE Spec => [][LinesKept]_vars
<1>1. Init => WaysInv
  BY WaysInit
<1>2. WaysInv /\ [Next]_vars => WaysInv'
  BY WaysStep
<1>3. WaysInv /\ [Next]_vars => [LinesKept]_vars
  <2> SUFFICES ASSUME WaysInv, Next, NEW w \in Way, tag'[w] # tag[w] PROVE mesi[w] = "I"
    BY DEF LinesKept
  <2>1. Refill
    BY DEF Next, WriteHit, NewMshr, HeadSet, Peek, Check, Evict, EvictBypass, Dealloc,
           EwrqDone, Snoop
  <2>2. /\ RefillWay \in Way
        /\ tag[RefillWay] = mshr[head.mshr].line \/ mesi[RefillWay] = "I"
    BY <2>1, RefillWayFound DEF Refill, Chosen
  <2>3. tag' = [tag EXCEPT ![RefillWay] = mshr[head.mshr].line] /\ tag \in [Way -> Lines]
    BY <2>1 DEF Refill, WaysInv, TypeOK
  <2>4. w = RefillWay /\ tag[RefillWay] # mshr[head.mshr].line
    BY <2>2, <2>3
  <2>5. QED
    BY <2>2, <2>4
<1>4. QED
  BY <1>1, <1>2, <1>3, PTL DEF Spec

\* A snoop finds the only valid copy of its line: after SnpUnique no way of the
\* set holds it valid, although it writes one way (rvh_l1d_snp_ctrl.sv:422).
THEOREM SnpUniqueClears ==
  ASSUME WaysAssumption, Ops \subseteq {"ld", "st", "sc"} PROVE Spec => SnpUniqueInvalidates
<1>1. Init => WaysInv
  BY WaysInit
<1>2. WaysInv /\ [Next]_vars => WaysInv'
  BY WaysStep
<1>3. WaysInv /\ [Next]_vars =>
        [\A a \in Lines : Snoop(a, "SnpUnique") => \A w \in TagWays(a) : mesi'[w] = "I"]_vars
  <2> SUFFICES ASSUME WaysInv, NEW a \in Lines, Snoop(a, "SnpUnique"), NEW w \in TagWays(a)
               PROVE  mesi'[w] = "I"
    OBVIOUS
  <2>1. mesi \in [Way -> Mesi] /\ w \in Way /\ tag[w] = a
    BY DEF WaysInv, TypeOK, TagWays
  <2>2. mesi' = [mesi EXCEPT ![SnoopWay(a)] = "I"]
    BY DEF Snoop
  <2>3. w = SnoopWay(a) \/ mesi[w] = "I"
    BY <2>1, UppermostFound DEF WaysInv, SnoopFindsLine
  <2>4. QED
    BY <2>1, <2>2, <2>3
<1>4. QED
  BY <1>1, <1>2, <1>3, PTL DEF Spec, SnpUniqueInvalidates
=============================================================================
