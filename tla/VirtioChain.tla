---------------------------- MODULE VirtioChain ----------------------------
(***************************************************************************)
(* The descriptor chains of virtio.cpp: how the device measures a chain    *)
(* and copies to or from it.  A chain is the sequence of descriptors that  *)
(* VRING_DESC_F_NEXT links; a descriptor has a length and says whether the *)
(* device may write it.  The loops of the code are followed one descriptor *)
(* at a time and compared with what they are meant to compute.             *)
(***************************************************************************)
EXTENDS Integers, Sequences, SequencesExt, FiniteSetsExt

CONSTANTS
  MaxDesc,  \* longest chain a driver builds here
  MaxLen    \* longest descriptor

ChainBounds == MaxDesc \in Nat \ {0} /\ MaxLen \in Nat

Desc == [len : 0..MaxLen, write : BOOLEAN]

Chains == UNION {[1..n -> Desc] : n \in 1..MaxDesc}

\* A cell is one byte of guest memory: a descriptor of the chain and an offset.
Cells(i, from, count) == [k \in 1..count |-> <<i, from + k - 1>>]

-----------------------------------------------------------------------------
(* get_desc_rw_size: the readable descriptors come first, then the ones     *)
(* the device may write.                                                    *)

RwSizeError == [ok |-> FALSE, read |-> 0, write |-> 0]

\* Mutant: a readable descriptor after a writable one is counted, not refused.
RwStepFault(acc, d) ==
  IF d.write THEN [acc EXCEPT !.write = @ + d.len, !.writing = TRUE]
             ELSE [acc EXCEPT !.read = @ + d.len]

RwStep(acc, d) ==
  CASE ~acc.writing /\ ~d.write -> [acc EXCEPT !.read = @ + d.len]
    [] d.write -> [acc EXCEPT !.write = @ + d.len, !.writing = TRUE]
    [] OTHER -> [acc EXCEPT !.ok = FALSE]

GetDescRwSize(chain) ==
  LET r == FoldLeft(RwStep, [ok |-> TRUE, writing |-> FALSE, read |-> 0, write |-> 0], chain)
  IN IF r.ok THEN [ok |-> TRUE, read |-> r.read, write |-> r.write] ELSE RwSizeError

-----------------------------------------------------------------------------
(* memcpy_to_from_queue *)

CopyError(cells) == [ret |-> -1, cells |-> cells]

FirstWritable(chain) ==    \* 0 when there is none
  LET writable == {i \in 1..Len(chain) : chain[i].write}
  IN IF writable = {} THEN 0 ELSE Min(writable)

\* The descriptor, from start on, that holds the byte at offset; 0 when there is none.
DescAt(chain, start, offset, toQueue) ==
  LET at[i \in 1..Len(chain), o \in 0..offset] ==
        CASE chain[i].write # toQueue -> <<0, 0>>
          [] o < chain[i].len -> <<i, o>>
          [] i = Len(chain) -> <<0, 0>>
          [] OTHER -> at[i + 1, o - chain[i].len]
  IN at[start, offset]

\* The copy of count bytes from descriptor start on, the first at offset.
CopyFrom(chain, start, offset, count, toQueue) ==
  LET from[i \in 1..Len(chain), o \in 0..MaxLen, n \in 0..count] ==
        LET l == Min({n, chain[i].len - o})
            cells == Cells(i, o, l)
        IN CASE n = l -> [ret |-> 0, cells |-> cells]
             [] i = Len(chain) -> CopyError(cells)
             [] chain[i + 1].write # toQueue -> CopyError(cells)
             [] OTHER -> LET rest == from[i + 1, 0, n - l]
                         IN [rest EXCEPT !.cells = cells \o @]
  IN from[start, offset, count]

\* Mutant: the offset counts from the head of the chain, not from the first
\* descriptor that may be written.
MemcpyToFromQueueFault(chain, offset, count, toQueue) ==
  LET at == DescAt(chain, 1, offset, toQueue)
  IN CASE count = 0 -> [ret |-> 0, cells |-> <<>>]
       [] at[1] = 0 -> CopyError(<<>>)
       [] OTHER -> CopyFrom(chain, at[1], at[2], count, toQueue)

MemcpyToFromQueue(chain, offset, count, toQueue) ==
  LET start == IF toQueue THEN FirstWritable(chain) ELSE 1
      at == IF start = 0 THEN <<0, 0>> ELSE DescAt(chain, start, offset, toQueue)
  IN CASE count = 0 -> [ret |-> 0, cells |-> <<>>]
       [] at[1] = 0 -> CopyError(<<>>)
       [] OTHER -> CopyFrom(chain, at[1], at[2], count, toQueue)

-----------------------------------------------------------------------------
(* A driver that queues any chain, and a device that measures and copies.   *)

VARIABLES chain, copy

vars == <<chain, copy>>

MaxBytes == MaxDesc * MaxLen

Copies == [offset : 0..MaxBytes, count : 0..MaxBytes, toQueue : BOOLEAN]

NoCopy == [offset |-> -1, count |-> 0, toQueue |-> FALSE]

Init == chain \in Chains /\ copy = NoCopy

DeviceCopies(c) == /\ copy = NoCopy
                   /\ copy' = c
                   /\ UNCHANGED chain

DriverRequeues == /\ copy # NoCopy
                  /\ copy' = NoCopy
                  /\ UNCHANGED chain

Next == (\E c \in Copies : DeviceCopies(c)) \/ DriverRequeues

Spec == Init /\ [][Next]_vars

-----------------------------------------------------------------------------
(* What the two functions are for, said without their loops. *)

\* All the bytes of the descriptors of one kind, in chain order.
BytesOf(toQueue) ==
  FlattenSeq([i \in 1..Len(chain) |->
    IF chain[i].write = toQueue THEN Cells(i, 0, chain[i].len) ELSE <<>>])

WellFormed == \A i, j \in 1..Len(chain) : i < j /\ chain[i].write => chain[j].write

(* The sizes get_desc_rw_size returns are the numbers of bytes the device   *)
(* can read and write, and it refuses exactly the chains with a readable    *)
(* descriptor behind a writable one.                                        *)
SizesAreBytes ==
  LET s == GetDescRwSize(chain)
  IN /\ s.ok <=> WellFormed
     /\ s.ok => s.read = Len(BytesOf(FALSE)) /\ s.write = Len(BytesOf(TRUE))

(* In a chain get_desc_rw_size accepts, memcpy_to_from_queue touches the    *)
(* bytes offset..offset+count of the readable or the writable part, in      *)
(* order and nothing else, and it fails exactly when they run out: the      *)
(* sizes and the copies agree on every chain, empty descriptors included.   *)
CopyIsSlice ==
  copy # NoCopy /\ WellFormed =>
    LET r == MemcpyToFromQueue(chain, copy.offset, copy.count, copy.toQueue)
        b == BytesOf(copy.toQueue)
        last == Min({copy.offset + copy.count, Len(b)})
    IN /\ r.cells = SubSeq(b, copy.offset + 1, last)
       /\ (r.ret = 0) <=> (copy.count = 0 \/ copy.offset + copy.count <= Len(b))
=============================================================================
