------------------------------ MODULE GoldCore ------------------------------
(***************************************************************************)
(* The memory model checker goldmem for one core (gold/Gold_core.cpp): the *)
(* calls by which a design under test reports what its loads and stores do *)
(* and what the checker keeps and says.                                    *)
(*                                                                         *)
(* Data is a function from some of the addresses; every store writes its   *)
(* own instruction id, so a value names the store it comes from and 0 is   *)
(* the initial value.  rob is kept oldest first.  The design is one that   *)
(* commits in order and keeps stores to the same address in order; it may  *)
(* or may not execute a load again that the checker has flagged.           *)
(***************************************************************************)
EXTENDS Integers, Sequences, FiniteSets, FiniteSetsExt, SequencesExt

CONSTANTS
  Addr,      \* bytes of memory
  MaxInst,   \* bound on instruction ids
  Tso,       \* stores become global in program order
  Merging,   \* the design merges stores
  NukeSafe   \* the design may nuke what it declared safe

GoldAssumption ==
  /\ MaxInst \in Nat
  /\ {Tso, Merging, NukeSafe} \subseteq BOOLEAN

VARIABLES
  rob,       \* rob
  pnr,       \* pnr
  mem,       \* mem_byte
  instid,    \* global_instid
  report,    \* what the last call printed
  prog,      \* history: the addresses of each store that has its data
  bound,     \* history: the value each load got from its last ld_perform
  retired    \* history: the loads that the last call retired

vars == <<rob, pnr, mem, instid, report, prog, bound, retired>>

NoData == <<>>
HasData(d) == DOMAIN d # {}

Init ==
  /\ rob = <<>>
  /\ pnr = 0
  /\ mem = [a \in Addr |-> 0]
  /\ instid = 0
  /\ report = {}
  /\ prog = [i \in {} |-> {}]
  /\ bound = [i \in {} |-> NoData]
  /\ retired = {}

Ids == {rob[k].rid : k \in DOMAIN rob}
Overlap(d1, d2) == DOMAIN d1 \cap DOMAIN d2 # {}

-----------------------------------------------------------------------------
\* The checker.

\* A mutant: the oldest store is the last one forwarded.
LoadValueFault(r, m, k, a) ==
  LET W == {j \in 1..(k - 1) : a \in DOMAIN r[j].st} IN
  IF W = {} THEN m[a] ELSE r[Min(W)].st[a]

\* Memory, overwritten by the older stores of the ROB from the oldest on.
LoadValue(r, m, k, a) ==
  LET W == {j \in 1..(k - 1) : a \in DOMAIN r[j].st} IN
  IF W = {} THEN m[a] ELSE r[Max(W)].st[a]

LdPerformed(r, m, k) ==
  [r[k] EXCEPT !.ld = [a \in DOMAIN r[k].ld |-> LoadValue(r, m, k, a)],
               !.performed = TRUE,
               !.error = FALSE]

\* A mutant: the operator is the comparison that its name says.
DiffersFault(d1, d2) == d1 # d2

\* Gold_data::operator!= returns false where the two differ.
Differs(d1, d2) == d1 = d2

\* Every younger load that was performed is performed again; the copy that
\* ld_perform returns is then compared with the entry it was copied from.
StPerformed(r, m, k) ==
  LET s == [r EXCEPT ![k].performed = TRUE] IN
  [i \in DOMAIN s |->
     IF i > k /\ HasData(s[i].ld) /\ s[i].performed
     THEN LET e == LdPerformed(s, m, i) IN
          [e EXCEPT !.error = Differs(e.ld, e.ld)]
     ELSE s[i]]

Over(d1, d2) == [a \in DOMAIN d1 \cup DOMAIN d2 |-> IF a \in DOMAIN d2 THEN d2[a] ELSE d1[a]]

-----------------------------------------------------------------------------
\* The calls.

\* inorder, then set_type.
Inorder ==
  /\ instid < MaxInst
  /\ instid' = instid + 1
  /\ rob' = Append(rob, [rid |-> instid', ld |-> NoData, st |-> NoData,
                         performed |-> FALSE, error |-> FALSE])
  /\ report' = {} /\ retired' = {}
  /\ UNCHANGED <<pnr, mem, prog, bound>>

\* ld_data_ref and ld_perform.  An instruction has one address or two.
LdPerform(k, A) ==
  /\ rob[k].rid > pnr
  /\ ~HasData(rob[k].st)
  /\ HasData(rob[k].ld) => A = DOMAIN rob[k].ld
  /\ LET r == [rob EXCEPT ![k].ld = [a \in A |-> 0]] IN
     rob' = [rob EXCEPT ![k] = LdPerformed(r, mem, k)]
  /\ bound' = [i \in DOMAIN bound \cup {rob[k].rid} |->
                 IF i = rob[k].rid THEN rob'[k].ld ELSE bound[i]]
  /\ report' = {} /\ retired' = {}
  /\ UNCHANGED <<pnr, mem, instid, prog>>

\* st_data_ref and st_locally_perform.
StLocallyPerform(k, A) ==
  /\ rob[k].rid > pnr
  /\ ~HasData(rob[k].ld) /\ ~HasData(rob[k].st)
  /\ rob' = StPerformed([rob EXCEPT ![k].st = [a \in A |-> rob[k].rid]], mem, k)
  /\ prog' = [i \in DOMAIN prog \cup {rob[k].rid} |->
                IF i = rob[k].rid THEN A ELSE prog[i]]
  /\ report' = {} /\ retired' = {}
  /\ UNCHANGED <<pnr, mem, instid, bound>>

SetSafe(k) ==
  /\ rob[k].rid > pnr
  /\ \A j \in 1..k : rob[j].performed
  /\ pnr' = rob[k].rid
  /\ report' = {} /\ retired' = {}
  /\ UNCHANGED <<rob, mem, instid, prog, bound>>

\* A call for what is safe is refused, with a report.
Nuke(iid) ==
  /\ iid > pnr \/ NukeSafe
  /\ retired' = {}
  /\ \/ /\ iid < pnr
        /\ report' = {"nuke"}
        /\ UNCHANGED <<rob, prog, bound>>
     \/ /\ iid >= pnr
        /\ rob' = SelectSeq(rob, LAMBDA e : e.rid < iid)
        /\ prog' = [i \in {j \in DOMAIN prog : j < iid} |-> prog[i]]
        /\ bound' = [i \in {j \in DOMAIN bound : j < iid} |-> bound[i]]
        /\ report' = {}
  /\ UNCHANGED <<pnr, mem, instid>>

\* st_locally_merged: the younger store stays in the ROB.
StLocallyMerged(k1, k2) ==
  /\ Merging
  /\ k1 < k2 /\ rob[k2].rid <= pnr
  /\ HasData(rob[k1].st) /\ HasData(rob[k2].st)
  /\ \A j \in (k1 + 1)..(k2 - 1) : ~Overlap(rob[j].st, rob[k2].st)
  /\ rob' = [rob EXCEPT ![k1].st = Over(@, rob[k2].st)]
  /\ report' = {} /\ retired' = {}
  /\ UNCHANGED <<pnr, mem, instid, prog, bound>>

\* With no older store in the ROB, what is older is retired too.
StGloballyPerform(k) ==
  LET r == StPerformed(rob, mem, k)
      onlyReads == \A j \in 1..(k - 1) : ~HasData(rob[j].st)
  IN
  /\ rob[k].rid <= pnr
  /\ HasData(rob[k].st)
  /\ \A j \in 1..(k - 1) : ~Overlap(rob[j].st, rob[k].st) /\ (Tso => ~HasData(rob[j].st))
  /\ mem' = Over(mem, rob[k].st)
  /\ \/ /\ onlyReads
        /\ rob' = SubSeq(r, k + 1, Len(r))
        /\ retired' = {rob[j].rid : j \in 1..(k - 1)}
     \/ /\ ~onlyReads
        /\ rob' = RemoveAt(r, k)
        /\ retired' = {}
  /\ report' = (IF rob[k].rid < pnr THEN {"unsafe"} ELSE {})
               \cup (IF onlyReads /\ \E j \in 1..(k - 1) : r[j].error \/ ~r[j].performed
                     THEN {"load"} ELSE {})
  /\ UNCHANGED <<pnr, instid, prog, bound>>

Next ==
  \/ Inorder
  \/ \E k \in DOMAIN rob :
       \/ \E A \in SUBSET Addr \ {{}} : LdPerform(k, A) \/ StLocallyPerform(k, A)
       \/ SetSafe(k)
       \/ StGloballyPerform(k)
       \/ \E j \in DOMAIN rob : StLocallyMerged(j, k)
  \/ \E iid \in Ids : Nuke(iid)

Spec == Init /\ [][Next]_vars

-----------------------------------------------------------------------------
\* Properties.

Latest(a, i) == Max({0} \cup {j \in DOMAIN prog : j < i /\ a \in prog[j]})

\* What the checker takes a performed load to read is the youngest older
\* store that has its data, whether that store is still in the ROB or not.
LoadsSeeProgramOrder ==
  \A k \in DOMAIN rob : rob[k].performed =>
    \A a \in DOMAIN rob[k].ld : rob[k].ld[a] = Latest(a, rob[k].rid)

\* A load is not retired without a report if an older store came to have
\* data after the design last executed it.
NoMissedStale ==
  (\E i \in retired \cap DOMAIN bound : \E a \in DOMAIN bound[i] : bound[i][a] # Latest(a, i))
     => "load" \in report

\* st_locally_perform flags only loads that read something else by now.
ErrorMeansChanged ==
  [][\A k \in DOMAIN rob : \A j \in DOMAIN rob' :
       (rob[k].rid = rob'[j].rid /\ ~rob[k].error /\ rob'[j].error)
         => rob[k].ld # rob'[j].ld]_vars

\* A store that was declared safe may become global.
SafeStoreAccepted == "unsafe" \notin report

\* An instruction that was declared safe is not discarded without a report.
SafeSurvives == [][\A i \in Ids : (i <= pnr /\ UNCHANGED mem) => i \in {e.rid : e \in ToSet(rob')}]_vars
=============================================================================
