----------------------------- MODULE LiveCache -----------------------------
(***************************************************************************)
(* The cache model that turns a run into the warm-up of a checkpoint       *)
(* (src/LiveCache.cpp and CacheAssoc of include/LiveCacheCore.h).  Every   *)
(* access of the emulator goes through read or write; the boot ROM of a    *)
(* checkpoint replays what traverse returns.                               *)
(*                                                                         *)
(* An address is the tag of its line.  The accesses outside of memory,     *)
(* which read and write ignore, are left out.  target is the cache of the  *)
(* machine that the checkpoint is for: LRU, with the same sets and at most *)
(* as many ways, it meets the same accesses.                               *)
(***************************************************************************)
EXTENDS Integers, Sequences, FiniteSets, SequencesExt

CONSTANTS
  Tags,       \* the lines that the program uses
  Sets,       \* the number of sets
  Assoc,      \* the ways of the model
  Ways,       \* the ways of the target
  MaxOrder    \* bound on accesses

LiveAssumption ==
  /\ Tags \subseteq Nat \ {0}
  /\ {Sets, Assoc, Ways, MaxOrder} \subseteq Nat \ {0}
  /\ Ways <= Assoc

VARIABLES
  content,    \* content: the lines of each set, the most recently used first
  maxOrder,   \* maxOrder
  target      \* history: the sets of the target, in the same order

vars == <<content, maxOrder, target>>

SetOf(t) == t % Sets
NoTag == 0

\* The order of an unused line is not initialised.
Init ==
  /\ \E v \in {0, MaxOrder} :
       content = [s \in 0..(Sets - 1) |->
                    [i \in 1..Assoc |-> [tag |-> NoTag, st |-> FALSE, order |-> v]]]
  /\ maxOrder = 0
  /\ target = [s \in 0..(Sets - 1) |-> <<>>]

-----------------------------------------------------------------------------
\* Position of a tag in a set, 0 when it is not there.
FindLine(set, t) == SelectInSeq(set, LAMBDA l : l.tag = t)

\* A mutant: a hit stays where it is.
TouchFault(set, i, l) ==
  IF set[i].tag = l.tag THEN [set EXCEPT ![i] = l] ELSE <<l>> \o RemoveAt(set, i)

\* The line at i becomes l and moves to the front.
Touch(set, i, l) == <<l>> \o RemoveAt(set, i)

\* findLine2Replace with the policy "LRU": the last line of the set, whether
\* another one is free or not.
Victim(set) == Len(set)

\* A mutant: a write that hits does not mark the line.
IsStoreFault(set, i, st) == IF i = 0 THEN st ELSE set[i].st

\* The mark of a line that hits at i, or is filled when i is 0.
IsStore(set, i, st) == st \/ (i # 0 /\ set[i].st)

\* read and write of LiveCache.
Access(t, st) ==
  LET s == SetOf(t)
      i == FindLine(content[s], t)
      l == [tag |-> t, st |-> IsStore(content[s], i, st), order |-> maxOrder]
  IN content' = [content EXCEPT ![s] = Touch(@, IF i = 0 THEN Victim(@) ELSE i, l)]

\* The target: a set is a list of at most Ways lines.
LruAccess(set, t, st) ==
  LET dirty == st \/ \E i \in DOMAIN set : set[i].tag = t /\ set[i].st
      new == <<[tag |-> t, st |-> dirty]>> \o SelectSeq(set, LAMBDA l : l.tag # t)
  IN SubSeq(new, 1, IF Len(new) < Ways THEN Len(new) ELSE Ways)

Step(t, st) ==
  /\ maxOrder < MaxOrder
  /\ Access(t, st)
  /\ maxOrder' = maxOrder + 1
  /\ target' = [target EXCEPT ![SetOf(t)] = LruAccess(@, t, st)]

Read(t) == Step(t, FALSE)
Write(t) == Step(t, TRUE)

Next == \E t \in Tags : Read(t) \/ Write(t)

Spec == Init /\ [][Next]_vars

-----------------------------------------------------------------------------
\* mergeSort.
Merge(a, b) ==
  LET merged[m \in 0..Len(a), k \in 0..Len(b)] ==
        IF m = Len(a) /\ k = Len(b) THEN <<>>
        ELSE IF k = Len(b) \/ (m < Len(a) /\ a[m + 1].order <= b[k + 1].order)
        THEN <<a[m + 1]>> \o merged[m + 1, k]
        ELSE <<b[k + 1]>> \o merged[m, k + 1]
  IN merged[0, 0]

RECURSIVE MergeSort(_)
MergeSort(a) ==
  IF Len(a) < 2 THEN a
  ELSE LET mid == Len(a) \div 2 IN
       Merge(MergeSort(SubSeq(a, 1, mid)), MergeSort(SubSeq(a, mid + 1, Len(a))))

\* traverse: the lines that were used, in the order of their last access.
\* A line whose order is 0 is taken for one that was not used.
Lines == FlattenSeq([s \in 1..Sets |-> content[s - 1]])

Traverse ==
  SelectSeq(MergeSort(SelectSeq(Lines, LAMBDA l : l.order # 0)), LAMBDA l : l.tag # NoTag)

\* The loop in the boot ROM loads from every line of the list, and then
\* stores to it if it is marked.
Replay(trace) ==
  FoldLeft(LAMBDA c, l : [c EXCEPT ![SetOf(l.tag)] =
                            LET s == LruAccess(@, l.tag, FALSE) IN
                            IF l.st THEN LruAccess(s, l.tag, TRUE) ELSE s],
           [s \in 0..(Sets - 1) |-> <<>>], trace)

-----------------------------------------------------------------------------
\* Properties.

TagsOf(set) == [i \in DOMAIN set |-> set[i].tag]

\* The line of the first access of the run, when it was not accessed again.
FirstOnly == {l.tag : l \in {x \in ToSet(Lines) : x.order = 0 /\ x.tag # NoTag}}

\* After the warm-up the target holds the lines it held when the checkpoint
\* was taken, and each set will replace them in the same order.
WarmupRestores ==
  \A s \in 0..(Sets - 1) : TagsOf(Replay(Traverse)[s]) = TagsOf(target[s])

\* The same, but for the line of the first access.
WarmupRestoresRest ==
  \A s \in 0..(Sets - 1) :
     TagsOf(SelectSeq(target[s], LAMBDA l : l.tag \notin FirstOnly)) = TagsOf(Replay(Traverse)[s])

\* A line that was modified in the target is modified after the warm-up too.
WarmupDirty ==
  \A s \in 0..(Sets - 1) : \A i \in DOMAIN target[s] :
     (target[s][i].st /\ target[s][i].tag \notin FirstOnly)
       => \E j \in DOMAIN Replay(Traverse)[s] :
            Replay(Traverse)[s][j] = [tag |-> target[s][i].tag, st |-> TRUE]
=============================================================================
