------------------------------ MODULE ScuAlloc ------------------------------
(***************************************************************************)
(* Admission to the SCU over several sets of the LLC: the two pipeline     *)
(* stages before an MSHR is configured, the MSHR file with the entries     *)
(* kept for evictions, the replacement MSHR file and the evict FIFO        *)
(* (rvh_scu.sv).  Scu follows one line through one entry of each file;     *)
(* here what an entry does is abstract and the question is whether an      *)
(* admitted request finds an entry and whether evictions are taken.        *)
(*                                                                         *)
(* A set of the LLC has one way.  loc says where a private cache has the   *)
(* resident line: cached, in its evict queue, or in the evict FIFO of the  *)
(* SCU.  The victim of a replacement keeps its own loc in the replacement  *)
(* MSHR.  The FIFO rotates when its head is refused, so any of its entries *)
(* may be offered.                                                         *)
(***************************************************************************)
EXTENDS Integers, FiniteSetTheorems, WellFoundedInduction, TLAPS

CONSTANTS
  Sets,      \* sets of the LLC
  NMshr,     \* SCU_MSHR_NUM
  NEscape,   \* EVICT_ESCAPE_MSHR_NUM
  NRepl      \* SCU_REPL_MSHR_NUM

AllocAssumption ==
  /\ {NMshr, NRepl} \subseteq Nat \ {0}
  /\ NEscape \in 0..(NMshr - 1)

VARIABLES
  s0, s1,    \* cur.s0, cur.s1 with their valid bits
  mshr,      \* mshr_q
  repl,      \* repl_mshr_q
  loc        \* the resident line of each set, seen from the private caches

vars == <<s0, s1, mshr, repl, loc>>

Mid == 0..(NMshr - 1)
Rid == 0..(NRepl - 1)

\* hit: of the resident line.  miss, dirty: of another line, where the
\* resident line is clean or dirty in the LLC.
ReqKind == {"hit", "miss", "dirty"}
Empty == [kind |-> "none", set |-> "none"]
Free == [phase |-> "free", kind |-> "none", set |-> "none"]
NoRepl == [valid |-> FALSE, set |-> "none", loc |-> "none"]

Init ==
  /\ s0 = Empty /\ s1 = Empty
  /\ mshr = [i \in Mid |-> Free]
  /\ repl = [r \in Rid |-> NoRepl]
  /\ loc = [g \in Sets |-> "none"]

-----------------------------------------------------------------------------
\* Free entries.

FreeMshrs == {i \in Mid : mshr[i] = Free}
FreeNoEscape == {i \in FreeMshrs : i < NMshr - NEscape}
FreeRepls == {r \in Rid : ~repl[r].valid}

\* A priority encoder: the first entry of W, 0 when there is none.
FirstOf(W) == IF W = {} THEN 0 ELSE CHOOSE i \in W : \A j \in W : i <= j

InPipe == Cardinality({i \in {0, 1} : (IF i = 0 THEN s0 ELSE s1) # Empty})

\* A mutant: the stages of the pipeline are not counted.
HasFreeMshrFault == FreeNoEscape # {}

\* No request is taken while an eviction is at the head of its FIFO, so the
\* thresholds for that case do not matter.
HasFreeMshr == Cardinality(FreeNoEscape) > InPipe

HasFreeMshrForEvict == Cardinality(FreeMshrs) > InPipe

SetInPipe(g) == \E s \in {s0, s1} : s # Empty /\ s.set = g

EvictWaits ==
  \/ \E g \in Sets : loc[g] = "fifo"
  \/ \E r \in Rid : repl[r].loc = "fifo"

-----------------------------------------------------------------------------
\* Stage 0.

TakeReq(g, kind) ==
  /\ s0 = Empty
  /\ ~EvictWaits
  /\ HasFreeMshr
  /\ ~SetInPipe(g)
  /\ \A i \in Mid : mshr[i] = Free \/ mshr[i].set # g
  /\ \A r \in Rid : ~repl[r].valid \/ repl[r].set # g
  /\ s0' = [kind |-> kind, set |-> g]
  /\ UNCHANGED <<s1, mshr, repl, loc>>

\* An eviction that no MSHR waits for takes one itself; it is refused while
\* an MSHR of its line has queued its update.
TakeEvict(g) ==
  /\ s0 = Empty
  /\ loc[g] = "fifo"
  /\ ~SetInPipe(g)
  /\ \A i \in Mid : mshr[i] = Free \/ mshr[i].set # g
  /\ HasFreeMshrForEvict
  /\ s0' = [kind |-> "evict", set |-> g]
  /\ loc' = [loc EXCEPT ![g] = "none"]
  /\ UNCHANGED <<s1, mshr, repl>>

\* A mutant: an eviction waits until the MSHR of its line is free.
WaitingMshrFault(i) == FALSE

\* evict_found_same_addr_not_updated_dir_mshr
WaitingMshr(i) == mshr[i].phase = "wait"

ForwardMshr(i) ==
  /\ s0 = Empty
  /\ WaitingMshr(i)
  /\ loc[mshr[i].set] = "fifo"
  /\ ~SetInPipe(mshr[i].set)
  /\ loc' = [loc EXCEPT ![mshr[i].set] = "none"]
  /\ UNCHANGED <<s0, s1, mshr, repl>>

\* pc_scu_evict_need_new_mshr does not look at the replacement MSHRs: the
\* eviction waits for a free MSHR although it will not take one.
ForwardRepl(r) ==
  /\ s0 = Empty
  /\ repl[r].loc = "fifo"
  /\ ~SetInPipe(repl[r].set)
  /\ HasFreeMshrForEvict
  /\ repl' = [repl EXCEPT ![r].loc = "none"]
  /\ UNCHANGED <<s0, s1, mshr, loc>>

-----------------------------------------------------------------------------
\* Stage 1 and the allocation.

Advance ==
  /\ s0 # Empty
  /\ s1 = Empty
  /\ s1' = s0
  /\ s0' = Empty
  /\ UNCHANGED <<mshr, repl, loc>>

\* A line that a private cache has, or that is dirty in the LLC, is displaced
\* with the help of a replacement MSHR.
NeedsRepl ==
  \/ s1.kind = "dirty"
  \/ s1.kind = "miss" /\ loc[s1.set] # "none"

\* new_mshr_stall
Stalled ==
  IF NeedsRepl THEN FreeRepls = {}
  ELSE (IF s1.kind = "evict" THEN FreeMshrs ELSE FreeNoEscape) = {}

Alloc ==
  /\ s1 # Empty
  /\ ~Stalled
  /\ mshr' = [mshr EXCEPT ![FirstOf(FreeMshrs)] =
                [phase |-> "wait", kind |-> s1.kind, set |-> s1.set]]
  /\ \/ /\ NeedsRepl
        /\ repl' = [repl EXCEPT ![FirstOf(FreeRepls)] =
                      [valid |-> TRUE, set |-> s1.set, loc |-> loc[s1.set]]]
        /\ loc' = [loc EXCEPT ![s1.set] = "none"]
     \/ /\ ~NeedsRepl
        /\ UNCHANGED <<repl, loc>>
  /\ s1' = Empty
  /\ UNCHANGED s0

-----------------------------------------------------------------------------
\* What the entries wait for, and the private caches.

\* A snoop is answered when its line is not in the evict queue.
SnoopMshr(i) ==
  /\ mshr[i].phase = "wait"
  /\ loc[mshr[i].set] = "cached"
  /\ loc' = [loc EXCEPT ![mshr[i].set] = "none"]
  /\ UNCHANGED <<s0, s1, mshr, repl>>

SnoopRepl(r) ==
  /\ repl[r].loc = "cached"
  /\ repl' = [repl EXCEPT ![r].loc = "none"]
  /\ UNCHANGED <<s0, s1, mshr, loc>>

\* The response is sent and the final update is queued.
MshrFinal(i) ==
  /\ mshr[i].phase = "wait"
  /\ loc[mshr[i].set] = "none"
  /\ mshr' = [mshr EXCEPT ![i].phase = "final"]
  /\ loc' = IF mshr[i].kind = "evict" THEN loc
            ELSE [loc EXCEPT ![mshr[i].set] = "cached"]
  /\ UNCHANGED <<s0, s1, repl>>

MshrFree(i) ==
  /\ mshr[i].phase = "final"
  /\ mshr' = [mshr EXCEPT ![i] = Free]
  /\ UNCHANGED <<s0, s1, repl, loc>>

ReplFree(r) ==
  /\ repl[r].valid
  /\ repl[r].loc = "none"
  /\ repl' = [repl EXCEPT ![r] = NoRepl]
  /\ UNCHANGED <<s0, s1, mshr, loc>>

\* A private cache displaces the line; its eviction reaches the FIFO later.
Moves == {<<"cached", "ewrq">>, <<"ewrq", "fifo">>}

Displace(g) ==
  /\ \E m \in Moves : loc[g] = m[1] /\ loc' = [loc EXCEPT ![g] = m[2]]
  /\ UNCHANGED <<s0, s1, mshr, repl>>

DisplaceVictim(r) ==
  /\ \E m \in Moves : repl[r].loc = m[1] /\ repl' = [repl EXCEPT ![r].loc = m[2]]
  /\ UNCHANGED <<s0, s1, mshr, loc>>

Next ==
  \/ \E g \in Sets, kind \in ReqKind : TakeReq(g, kind)
  \/ \E g \in Sets : TakeEvict(g)
  \/ \E i \in Mid : ForwardMshr(i) \/ SnoopMshr(i) \/ MshrFinal(i) \/ MshrFree(i)
  \/ \E r \in Rid : ForwardRepl(r) \/ SnoopRepl(r) \/ ReplFree(r)
  \/ Advance
  \/ Alloc
  \/ \E g \in Sets : Displace(g)
  \/ \E r \in Rid : DisplaceVictim(r)

Spec == Init /\ [][Next]_vars

-----------------------------------------------------------------------------
\* Properties.

\* What has been admitted finds an MSHR of its class at stage 1: the stall of
\* a request that needs a replacement MSHR as well does not look for one.
AdmittedFindsMshr ==
  s1 # Empty => (IF s1.kind = "evict" THEN FreeMshrs ELSE FreeNoEscape) # {}

\* An eviction in the FIFO is taken, by a new MSHR or by the one that waits
\* for it.
EvictionsTaken == \A g \in Sets : loc[g] = "fifo" ~> loc[g] # "fifo"

\* An eviction whose line a replacement MSHR is recalling is handed to it.
EvictReachesRepl == \A r \in Rid : repl[r].loc = "fifo" ~> repl[r].loc # "fifo"

-----------------------------------------------------------------------------
\* Proofs.

\* How many entries the two stages of the pipeline will take.
Taken(s) == IF s = Empty THEN 0 ELSE 1

\* Every stage has an entry left for it, and a request one that is not kept
\* for evictions.  A request in stage 0 leaves one to whatever is in stage 1,
\* since the allocation takes the first free entry.
EntriesLeft ==
  /\ Cardinality(FreeMshrs) >= Taken(s0) + Taken(s1)
  /\ s0 # Empty /\ s0.kind # "evict" =>
       Cardinality(FreeNoEscape) >= Taken(s0) + Taken(s1)
  /\ s1 # Empty /\ s1.kind # "evict" => Cardinality(FreeNoEscape) >= 1

\* What the variables hold.
Loc == {"none", "cached", "ewrq", "fifo"}
AnyKind == ReqKind \cup {"evict"}

\* A pipeline stage, an MSHR, a replacement MSHR.
Stage == [kind : AnyKind, set : Sets] \cup {Empty}
Mshr == [phase : {"wait", "final"}, kind : AnyKind, set : Sets] \cup {Free}
Repl == [valid : {TRUE}, set : Sets, loc : Loc] \cup {NoRepl}

\* The type invariant.
TypeOK ==
  /\ s0 \in Stage /\ s1 \in Stage
  /\ mshr \in [Mid -> Mshr]
  /\ repl \in [Rid -> Repl]
  /\ loc \in [Sets -> Loc]

\* The inductive invariant.
AllocInv == TypeOK /\ EntriesLeft

\* A set of naturals has a least element.
LEMMA Least ==
  ASSUME NEW W \in SUBSET Nat, W # {}
  PROVE  \E w \in W : \A v \in W : w <= v
<1>1. \A x, y \in Nat : x < y => <<x, y>> \in OpToRel(<, Nat)
  BY DEF OpToRel
<1>2. \E R : /\ IsWellFoundedOn(R, Nat)
             /\ \A x, y \in Nat : x < y => <<x, y>> \in R
  BY <1>1, NatLessThanWellFounded, Zenon
<1>3. PICK R : /\ IsWellFoundedOn(R, Nat)
               /\ \A x, y \in Nat : x < y => <<x, y>> \in R
  BY <1>2
<1>4. \E x \in W : \A y \in W : ~ (<<y, x>> \in R)
  <2>1. IsWellFoundedOn(R, Nat) /\ W \subseteq Nat /\ W # {}
    BY <1>3
  <2>2. QED
    BY ONLY <2>1, WFMin, Zenon
<1>5. \E x \in W : \A y \in W : ~ (y < x)
  BY <1>3, <1>4, Zenon
<1>6. QED
  BY <1>5

\* A priority encoder finds an entry when there is one.
LEMMA FirstOfFinds ==
  ASSUME AllocAssumption, NEW W \in SUBSET Mid, W # {} PROVE FirstOf(W) \in W
<1>1. W \in SUBSET Nat
  BY DEF Mid, AllocAssumption
<1>2. \E w \in W : \A v \in W : w <= v
  BY <1>1, Least
<1>3. QED
  BY <1>2 DEF FirstOf

\* The free entries are finitely many, and counted by naturals.
LEMMA FreeCounted ==
  ASSUME AllocAssumption
  PROVE  /\ IsFiniteSet(FreeMshrs) /\ IsFiniteSet(FreeNoEscape)
         /\ Cardinality(FreeMshrs) \in Nat /\ Cardinality(FreeNoEscape) \in Nat
         /\ Cardinality(FreeNoEscape) <= Cardinality(FreeMshrs)
<1>1. IsFiniteSet(Mid)
  BY FS_Interval DEF Mid, AllocAssumption
<1>2. FreeMshrs \subseteq Mid /\ FreeNoEscape \subseteq FreeMshrs
  BY DEF FreeMshrs, FreeNoEscape
<1>3. IsFiniteSet(FreeMshrs)
  BY <1>1, <1>2, FS_Subset
<1>4. IsFiniteSet(FreeNoEscape) /\ Cardinality(FreeNoEscape) <= Cardinality(FreeMshrs)
  BY <1>2, <1>3, FS_Subset
<1>5. QED
  BY <1>3, <1>4, FS_CardinalityType

\* InPipe counts the stages that are taken.
LEMMA InPipeCounts == InPipe = Taken(s0) + Taken(s1)
<1> DEFINE P == {i \in {0, 1} : (IF i = 0 THEN s0 ELSE s1) # Empty}
<1>1. InPipe = Cardinality(P)
  BY DEF InPipe
<1>2. P = (IF s0 = Empty THEN {} ELSE {0}) \cup (IF s1 = Empty THEN {} ELSE {1})
  OBVIOUS
<1> HIDE DEF P
<1>3. Cardinality({}) = 0 /\ Cardinality({0}) = 1 /\ Cardinality({1}) = 1
  BY FS_EmptySet, FS_Singleton
<1>4. Cardinality({0} \cup {1}) = 2
  <2>1. IsFiniteSet({0}) /\ ~(1 \in {0})
    BY FS_Singleton
  <2>2. Cardinality({0} \cup {1}) = Cardinality({0}) + 1
    BY <2>1, FS_AddElement
  <2>3. QED
    BY <1>3, <2>2
<1>5. CASE s0 = Empty /\ s1 = Empty
  BY <1>1, <1>2, <1>3, <1>5 DEF Taken
<1>6. CASE s0 = Empty /\ s1 # Empty
  <2>1. P = {1}
    BY <1>2, <1>6
  <2>2. QED
    BY <1>1, <1>3, <1>6, <2>1 DEF Taken
<1>7. CASE s0 # Empty /\ s1 = Empty
  <2>1. P = {0}
    BY <1>2, <1>7
  <2>2. QED
    BY <1>1, <1>3, <1>7, <2>1 DEF Taken
<1>8. CASE s0 # Empty /\ s1 # Empty
  BY <1>1, <1>2, <1>4, <1>8 DEF Taken
<1>9. QED
  BY <1>5, <1>6, <1>7, <1>8

\* What leaves the pipeline alone and takes no entry keeps the invariant.
LEMMA MoreFree ==
  ASSUME AllocAssumption, EntriesLeft, UNCHANGED <<s0, s1>>, FreeMshrs \subseteq FreeMshrs'
  PROVE  EntriesLeft'
<1>1. FreeNoEscape \subseteq FreeNoEscape'
  BY DEF FreeNoEscape
<1>2. /\ IsFiniteSet(FreeMshrs') /\ IsFiniteSet(FreeNoEscape')
      /\ Cardinality(FreeMshrs') \in Nat /\ Cardinality(FreeNoEscape') \in Nat
  <2>1. IsFiniteSet(Mid)
    BY FS_Interval DEF Mid, AllocAssumption
  <2>2. FreeMshrs' \subseteq Mid /\ FreeNoEscape' \subseteq Mid
    BY DEF FreeMshrs, FreeNoEscape
  <2>3. QED
    BY <2>1, <2>2, FS_Subset, FS_CardinalityType
<1>3. /\ Cardinality(FreeMshrs) <= Cardinality(FreeMshrs')
      /\ Cardinality(FreeNoEscape) <= Cardinality(FreeNoEscape')
  BY <1>1, <1>2, FS_Subset
<1>4. /\ Cardinality(FreeMshrs)' = Cardinality(FreeMshrs')
      /\ Cardinality(FreeNoEscape)' = Cardinality(FreeNoEscape')
      /\ Taken(s0)' = Taken(s0) /\ Taken(s1)' = Taken(s1)
      /\ Taken(s0) \in Nat /\ Taken(s1) \in Nat
  BY DEF Taken
<1>5. QED
  BY <1>2, <1>3, <1>4, FreeCounted DEF EntriesLeft

\* Admission to stage 0.
LEMMA TakeStep ==
  ASSUME AllocAssumption, EntriesLeft,
         \/ \E g \in Sets, kind \in ReqKind : TakeReq(g, kind)
         \/ \E g \in Sets : TakeEvict(g)
  PROVE  EntriesLeft'
<1>1. /\ s0 = Empty /\ UNCHANGED <<s1, mshr>>
      /\ s0'.kind \in ReqKind \cup {"evict"}
      /\ IF s0'.kind = "evict" THEN HasFreeMshrForEvict ELSE HasFreeMshr
  BY DEF TakeReq, TakeEvict, ReqKind
<1>2. s0' # Empty
  BY <1>1 DEF ReqKind, Empty
<1>3. FreeMshrs' = FreeMshrs /\ FreeNoEscape' = FreeNoEscape
  BY <1>1 DEF FreeMshrs, FreeNoEscape
<1>4. Taken(s0) = 0 /\ Taken(s0)' = 1 /\ Taken(s1)' = Taken(s1) /\ Taken(s1) \in Nat
  BY <1>1, <1>2 DEF Taken
<1>5. Cardinality(FreeMshrs) > Taken(s1)
  BY <1>1, <1>4, FreeCounted, InPipeCounts DEF HasFreeMshrForEvict, HasFreeMshr
<1>6. s0'.kind # "evict" => Cardinality(FreeNoEscape) > Taken(s1)
  BY <1>1, <1>4, InPipeCounts DEF HasFreeMshr
<1>7. QED
  BY <1>1, <1>3, <1>4, <1>5, <1>6, FreeCounted DEF EntriesLeft

\* Stage 0 moves to stage 1 when this is empty.
LEMMA AdvanceStep ==
  ASSUME AllocAssumption, EntriesLeft, Advance
  PROVE  EntriesLeft'
<1>1. s1 = Empty /\ s0 # Empty /\ s1' = s0 /\ s0' = Empty /\ mshr' = mshr
  BY DEF Advance
<1>2. FreeMshrs' = FreeMshrs /\ FreeNoEscape' = FreeNoEscape
  BY <1>1 DEF FreeMshrs, FreeNoEscape
<1>3. Taken(s0) = 1 /\ Taken(s1) = 0 /\ Taken(s0)' = 0 /\ Taken(s1)' = 1
  BY <1>1 DEF Taken
<1>4. QED
  BY <1>1, <1>2, <1>3, FreeCounted DEF EntriesLeft

\* The allocation takes one entry and empties stage 1.
LEMMA AllocStep ==
  ASSUME AllocAssumption, AllocInv, Alloc
  PROVE  EntriesLeft'
<1> DEFINE x == FirstOf(FreeMshrs)
           new == [phase |-> "wait", kind |-> s1.kind, set |-> s1.set]
<1>1. s1 # Empty /\ s1' = Empty /\ s0' = s0 /\ mshr' = [mshr EXCEPT ![x] = new]
  BY DEF Alloc
<1>2. Taken(s1) = 1 /\ Taken(s1)' = 0 /\ Taken(s0)' = Taken(s0) /\ Taken(s0) \in Nat
  BY <1>1 DEF Taken
<1>3. FreeMshrs # {}
  BY <1>2, FreeCounted, FS_EmptySet DEF AllocInv, EntriesLeft
<1>4. x \in FreeMshrs /\ x \in Mid
  BY <1>3, FirstOfFinds DEF FreeMshrs
<1>5. new # Free
  <2>1. new.phase = "wait" /\ Free.phase = "free"
    BY DEF Free
  <2>2. QED
    BY <2>1
<1> HIDE DEF x, new
<1>6. mshr'[x] = new /\ \A i \in Mid \ {x} : mshr'[i] = mshr[i]
  BY <1>1, <1>4 DEF AllocInv, TypeOK
<1>7. FreeMshrs' = FreeMshrs \ {x}
  BY <1>4, <1>5, <1>6 DEF FreeMshrs
<1>8. FreeNoEscape' = FreeNoEscape \ {x}
  BY <1>7 DEF FreeNoEscape
<1>9. /\ Cardinality(FreeMshrs') = Cardinality(FreeMshrs) - 1
      /\ Cardinality(FreeNoEscape') \in Int
      /\ Cardinality(FreeNoEscape') >= Cardinality(FreeNoEscape) - 1
  <2>1. Cardinality(FreeMshrs \ {x}) = Cardinality(FreeMshrs) - 1
    BY <1>4, FreeCounted, FS_RemoveElement
  <2>2. Cardinality(FreeNoEscape \ {x}) \in
          {Cardinality(FreeNoEscape), Cardinality(FreeNoEscape) - 1}
    BY FreeCounted, FS_RemoveElement
  <2>3. QED
    BY <1>7, <1>8, <2>1, <2>2, FreeCounted
<1>10. QED
  BY <1>1, <1>2, <1>9, FreeCounted DEF AllocInv, EntriesLeft

\* A free MSHR stays free in every step that does not allocate one.
LEMMA OtherSteps ==
  ASSUME AllocAssumption, AllocInv,
         \/ \E i \in Mid : ForwardMshr(i) \/ SnoopMshr(i) \/ MshrFinal(i) \/ MshrFree(i)
         \/ \E r \in Rid : ForwardRepl(r) \/ SnoopRepl(r) \/ ReplFree(r) \/ DisplaceVictim(r)
         \/ \E g \in Sets : Displace(g)
         \/ UNCHANGED vars
  PROVE  EntriesLeft'
<1>1. UNCHANGED <<s0, s1>>
  BY DEF ForwardMshr, SnoopMshr, MshrFinal, MshrFree, ForwardRepl, SnoopRepl, ReplFree,
         DisplaceVictim, Displace, vars
<1>2. FreeMshrs \subseteq FreeMshrs'
  <2>1. CASE mshr' = mshr
    BY <2>1 DEF FreeMshrs
  <2>2. CASE \E i \in Mid : MshrFinal(i)
    <3>1. PICK i \in Mid : mshr[i].phase = "wait" /\ mshr' = [mshr EXCEPT ![i].phase = "final"]
      BY <2>2 DEF MshrFinal
    <3>2. i \notin FreeMshrs
      BY <3>1 DEF FreeMshrs, Free
    <3>3. QED
      BY <3>1, <3>2 DEF FreeMshrs, AllocInv, TypeOK
  <2>3. CASE \E i \in Mid : MshrFree(i)
    BY <2>3 DEF MshrFree, FreeMshrs, AllocInv, TypeOK
  <2>4. QED
    BY <2>1, <2>2, <2>3 DEF ForwardMshr, SnoopMshr, ForwardRepl, SnoopRepl, ReplFree,
                            DisplaceVictim, Displace, vars
<1>3. QED
  BY <1>1, <1>2, MoreFree DEF AllocInv

\* The types.
LEMMA TypeStep ==
  ASSUME AllocAssumption, AllocInv, [Next]_vars
  PROVE  TypeOK'
<1>1. /\ s0 \in Stage /\ s1 \in Stage /\ mshr \in [Mid -> Mshr] /\ repl \in [Rid -> Repl]
      /\ loc \in [Sets -> Loc]
  BY DEF AllocInv, TypeOK
<1>2. Empty \in Stage /\ Free \in Mshr /\ NoRepl \in Repl
  BY DEF Stage, Mshr, Repl
<1>3. CASE \E g \in Sets, kind \in ReqKind : TakeReq(g, kind)
  BY <1>1, <1>3 DEF TakeReq, TypeOK, Stage, AnyKind
<1>4. CASE \E g \in Sets : TakeEvict(g)
  BY <1>1, <1>4 DEF TakeEvict, TypeOK, Stage, AnyKind, Loc
<1>5. CASE Advance
  BY <1>1, <1>2, <1>5 DEF Advance, TypeOK
<1>6. CASE Alloc
  <2>1. s1' = Empty /\ s0' = s0 /\ s1 # Empty
    BY <1>6 DEF Alloc
  <2>2. s1.kind \in AnyKind /\ s1.set \in Sets
    BY <1>1, <2>1 DEF Stage
  <2>3. mshr' \in [Mid -> Mshr]
    BY <1>1, <1>6, <2>2 DEF Alloc, Mshr
  <2>4. repl' \in [Rid -> Repl] /\ loc' \in [Sets -> Loc]
    <3>1. CASE NeedsRepl
      <4>1. loc[s1.set] \in Loc
        BY <1>1, <2>2
      <4>2. [valid |-> TRUE, set |-> s1.set, loc |-> loc[s1.set]] \in Repl
        BY <2>2, <4>1 DEF Repl
      <4>3. QED
        BY <1>1, <1>6, <3>1, <4>2 DEF Alloc, Loc
    <3>2. CASE ~NeedsRepl
      BY <1>1, <1>6, <3>2 DEF Alloc
    <3>3. QED
      BY <3>1, <3>2
  <2>5. QED
    BY <1>1, <1>2, <2>1, <2>3, <2>4 DEF TypeOK
<1>7. CASE \E i \in Mid : ForwardMshr(i) \/ SnoopMshr(i)
  BY <1>1, <1>7 DEF ForwardMshr, SnoopMshr, TypeOK, Loc
<1>8. CASE \E i \in Mid : MshrFinal(i)
  <2>1. PICK i \in Mid : MshrFinal(i)
    BY <1>8
  <2>2. mshr[i] \in Mshr /\ mshr[i] # Free
    BY <1>1, <2>1 DEF MshrFinal, Free
  <2>3. [mshr[i] EXCEPT !.phase = "final"] \in Mshr
    BY <2>2 DEF Mshr
  <2>4. mshr' \in [Mid -> Mshr]
    BY <1>1, <2>1, <2>3 DEF MshrFinal
  <2>5. QED
    BY <1>1, <2>1, <2>4 DEF MshrFinal, TypeOK, Loc
<1>9. CASE \E i \in Mid : MshrFree(i)
  BY <1>1, <1>2, <1>9 DEF MshrFree, TypeOK
<1>10. CASE \E r \in Rid : ForwardRepl(r) \/ SnoopRepl(r) \/ DisplaceVictim(r)
  <2>1. PICK r \in Rid, l \in Loc : /\ repl[r].loc # "none" /\ repl' = [repl EXCEPT ![r].loc = l]
                                    /\ UNCHANGED <<s0, s1, mshr, loc>>
    <3>1. CASE \E r \in Rid : ForwardRepl(r) \/ SnoopRepl(r)
      BY <3>1 DEF ForwardRepl, SnoopRepl, Loc
    <3>2. CASE \E r \in Rid : DisplaceVictim(r)
      <4>1. PICK r \in Rid, m \in Moves :
              repl[r].loc = m[1] /\ repl' = [repl EXCEPT ![r].loc = m[2]]
        BY <3>2 DEF DisplaceVictim
      <4>2. m[1] # "none" /\ m[2] \in Loc
        BY DEF Moves, Loc
      <4>3. UNCHANGED <<s0, s1, mshr, loc>>
        BY <3>2 DEF DisplaceVictim
      <4>4. QED
        BY <4>1, <4>2, <4>3
    <3>3. QED
      BY <1>10, <3>1, <3>2
  <2>2. repl[r] \in Repl /\ repl[r] # NoRepl
    BY <1>1, <2>1 DEF NoRepl
  <2>3. [repl[r] EXCEPT !.loc = l] \in Repl
    BY <2>2 DEF Repl
  <2>4. repl' \in [Rid -> Repl]
    BY <1>1, <2>1, <2>3
  <2>5. QED
    BY <1>1, <2>1, <2>4 DEF TypeOK
<1>11. CASE \E r \in Rid : ReplFree(r)
  BY <1>1, <1>2, <1>11 DEF ReplFree, TypeOK
<1>12. CASE \E g \in Sets : Displace(g)
  BY <1>1, <1>12 DEF Displace, Moves, TypeOK, Loc
<1>13. CASE UNCHANGED vars
  BY <1>1, <1>13 DEF vars, TypeOK
<1>14. QED
  BY <1>3, <1>4, <1>5, <1>6, <1>7, <1>8, <1>9, <1>10, <1>11, <1>12, <1>13 DEF Next

\* Every step keeps the invariant.
LEMMA AllocInvStep ==
  ASSUME AllocAssumption, AllocInv, [Next]_vars
  PROVE  AllocInv'
<1> SUFFICES EntriesLeft'
  BY TypeStep DEF AllocInv
<1>1. CASE \/ \E g \in Sets, kind \in ReqKind : TakeReq(g, kind)
           \/ \E g \in Sets : TakeEvict(g)
  BY <1>1, TakeStep DEF AllocInv
<1>2. CASE Advance \/ Alloc
  BY <1>2, AdvanceStep, AllocStep DEF AllocInv
<1>3. CASE \/ \E i \in Mid : ForwardMshr(i) \/ SnoopMshr(i) \/ MshrFinal(i) \/ MshrFree(i)
           \/ \E r \in Rid : ForwardRepl(r) \/ SnoopRepl(r) \/ ReplFree(r) \/ DisplaceVictim(r)
           \/ \E g \in Sets : Displace(g)
           \/ UNCHANGED vars
  BY <1>3, OtherSteps
<1>4. QED
  BY <1>1, <1>2, <1>3 DEF Next

\* Initially all entries are free.
LEMMA AllocInit ==
  ASSUME AllocAssumption, Init PROVE AllocInv
<1>1. TypeOK
  BY DEF Init, TypeOK, Stage, Mshr, Repl, Loc
<1>2. Taken(s0) = 0 /\ Taken(s1) = 0 /\ s0 = Empty /\ s1 = Empty
  BY DEF Init, Taken
<1>3. QED
  BY <1>1, <1>2, FreeCounted DEF AllocInv, EntriesLeft

\* Whatever reaches stage 1 finds an MSHR of its class, with any number of MSHRs
\* and any number kept for evictions, although the stall of a request that needs
\* a replacement MSHR does not look for one (new_mshr_stall, rvh_scu.sv): the
\* admission counts what is in the pipeline.
THEOREM AdmittedFinds ==
  ASSUME AllocAssumption PROVE Spec => []AdmittedFindsMshr
<1>1. Init => AllocInv
  BY AllocInit
<1>2. AllocInv /\ [Next]_vars => AllocInv'
  BY AllocInvStep
<1>3. AllocInv => AdmittedFindsMshr
  <2> SUFFICES ASSUME AllocInv, s1 # Empty
               PROVE  (IF s1.kind = "evict" THEN FreeMshrs ELSE FreeNoEscape) # {}
    BY DEF AdmittedFindsMshr
  <2>1. Taken(s1) = 1 /\ Taken(s0) \in Nat
    BY DEF Taken
  <2>2. Cardinality(FreeMshrs) >= 1
    BY <2>1, FreeCounted DEF AllocInv, EntriesLeft
  <2>3. s1.kind # "evict" => Cardinality(FreeNoEscape) >= 1
    BY DEF AllocInv, EntriesLeft
  <2>4. QED
    BY <2>2, <2>3, FS_EmptySet
<1>4. QED
  BY <1>1, <1>2, <1>3, PTL DEF Spec
=============================================================================
