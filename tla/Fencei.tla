------------------------------- MODULE Fencei -------------------------------
(***************************************************************************)
(* The fence.i flush of the L1D: the state machine of rvh_l1d.sv drains    *)
(* the store buffer and starts the one of each bank (rvh_l1d_bank.sv),     *)
(* which walks over the ways and sets of the bank, makes dirty lines clean *)
(* and offers them to the evict queue.  State and dirty mask of what it    *)
(* offers are those in the register of the last request (s1), and snoops   *)
(* go on beside it.                                                        *)
(***************************************************************************)
EXTENDS Integers, Sequences

CONSTANTS
  Banks,
  Sets, Ways,    \* L1D_BANK_SET_NUM, L1D_BANK_WAY_NUM: powers of two
  Depth,         \* N_EWRQ
  MaxStb         \* entries of the store buffer when the fence comes (a bound)

FenceiAssumption == {Sets, Ways, Depth} \subseteq Nat \ {0} /\ MaxStb \in Nat

Line == (0..(Sets - 1)) \X (0..(Ways - 1))
First == <<0, 0>>
Last == <<Sets - 1, Ways - 1>>

VARIABLES
  top,       \* l1d_fencei_state_q
  grant,     \* fencei_flush_grant_per_bank_q
  stb,       \* entries of the store buffer
  miss,      \* of each bank: lines a store is being refilled into
  st,        \* l1d_bank_fencei_flush_state_q
  ptr,       \* set and way pointers
  dirty,     \* of each bank: the lines in state MODIFIED
  s1,        \* of each bank: cur.s1.lst_dat[cur.s1.evict_way_idx]
  ewrq,      \* the evict queue: places of lines of the bank, Victim of others
  kept,      \* of each bank: lines whose stores nobody was offered yet (history)
  lost       \* whether a store has left the bank and reached nobody (history)

vars == <<top, grant, stb, miss, st, ptr, dirty, s1, ewrq, kept, lost>>

Victim == <<>>

\* What a copy of the line's state says to the evict queue
Entry == {"INVALID", "CLEAN", "MODIFIED"}

\* Before the first request the register holds anything.
Init ==
  /\ top = "IDLE" /\ grant = {} /\ stb \in 0..MaxStb
  /\ dirty \in [Banks -> SUBSET Line] /\ kept = dirty /\ s1 \in [Banks -> Entry] /\ lost = FALSE
  /\ miss = [b \in Banks |-> {}] /\ st = [b \in Banks |-> "IDLE"] /\ ptr = [b \in Banks |-> First]
  /\ ewrq = [b \in Banks |-> <<>>]

bank == <<dirty, s1, ewrq, kept, lost>>

-----------------------------------------------------------------------------
(* The L1D.  While a fence is under way the core sends nothing. *)

\* The handshake with the store buffer may be refused for some cycles.
FenceReq == top = "IDLE" /\ top' = "STB_DONE" /\ UNCHANGED <<grant, stb, miss, st, ptr, bank>>
FenceWait == top = "IDLE" /\ top' = "STB_HSK" /\ UNCHANGED <<grant, stb, miss, st, ptr, bank>>
StbHsk == top = "STB_HSK" /\ top' = "STB_DONE" /\ UNCHANGED <<grant, stb, miss, st, ptr, bank>>

\* A mutant: the store buffer is not waited for.
StbDoneFault == top = "STB_DONE" /\ top' = "REQ" /\ UNCHANGED <<grant, stb, miss, st, ptr, bank>>

StbDone == top = "STB_DONE" /\ stb = 0 /\ top' = "REQ" /\ UNCHANGED <<grant, stb, miss, st, ptr, bank>>

\* A bank can start when nothing is in its pipeline and MSHRs.
ReqToBank ==
  /\ top = "REQ" /\ top' = "GRANT"
  /\ st' = [b \in Banks |-> IF miss[b] = {} THEN "READ_LST" ELSE "PENDING"]
  /\ UNCHANGED <<grant, stb, miss, ptr, bank>>

Granted == top = "GRANT" /\ grant = Banks /\ top' = "FINISH" /\ UNCHANGED <<grant, stb, miss, st, ptr, bank>>

Finish == top = "FINISH" /\ top' = "IDLE" /\ grant' = {} /\ UNCHANGED <<stb, miss, st, ptr, bank>>

-----------------------------------------------------------------------------
(* What else happens in a bank *)

\* A request reads the states of its set.  The way in which the evict queue looks is
\* whatever the line fill buffer shows at that time.
Seen(b, set) == {IF <<set, w>> \in dirty[b] THEN "MODIFIED" ELSE e : w \in 0..(Ways - 1), e \in {"CLEAN", "INVALID"}}

\* A load or a page walk that hits.  The flush of the bank keeps requests out.
Request(b, set) ==
  /\ st[b] = "IDLE"
  /\ \E e \in Seen(b, set) : s1' = [s1 EXCEPT ![b] = e]
  /\ UNCHANGED <<top, grant, stb, miss, st, ptr, dirty, ewrq, kept, lost>>

\* A store leaves the store buffer and hits a line ...
StoreHit(b, l) ==
  /\ top \in {"IDLE", "STB_HSK", "STB_DONE"} /\ stb > 0 /\ st[b] = "IDLE" /\ miss[b] = {}
  /\ stb' = stb - 1
  /\ dirty' = [dirty EXCEPT ![b] = @ \cup {l}] /\ kept' = [kept EXCEPT ![b] = @ \cup {l}]
  /\ \E e \in Seen(b, l[1]) : s1' = [s1 EXCEPT ![b] = e]
  /\ UNCHANGED <<top, grant, miss, st, ptr, ewrq, lost>>
\* ... or misses, and has left the store buffer before the line is there.
StoreMiss(b, l) ==
  /\ top \in {"IDLE", "STB_HSK", "STB_DONE"} /\ stb > 0 /\ st[b] = "IDLE" /\ miss[b] = {}
  /\ stb' = stb - 1 /\ miss' = [miss EXCEPT ![b] = {l}]
  /\ \E e \in Seen(b, l[1]) : s1' = [s1 EXCEPT ![b] = e]
  /\ UNCHANGED <<top, grant, st, ptr, dirty, ewrq, kept, lost>>
\* The refill first evicts what is in the way; that is a request of its own, for
\* which the register is right.
Refill(b) == \E l \in miss[b], e \in Entry :
  /\ (e = "MODIFIED") = (l \in dirty[b])
  /\ e # "INVALID" => Len(ewrq[b]) < Depth
  /\ ewrq' = IF e # "INVALID" THEN [ewrq EXCEPT ![b] = Append(@, Victim)] ELSE ewrq
  /\ s1' = [s1 EXCEPT ![b] = e] /\ miss' = [miss EXCEPT ![b] = {}]
  /\ dirty' = [dirty EXCEPT ![b] = @ \cup {l}] /\ kept' = [kept EXCEPT ![b] = @ \cup {l}]
  /\ UNCHANGED <<top, grant, stb, st, ptr, lost>>

\* A snoop of a line that is not in the evict queue takes a dirty line and its data.
\* Of a line that is not MODIFIED it takes no data, also when the flush has just made
\* it so and has not offered the data yet.
Snoop(b, l) ==
  /\ \A i \in 1..Len(ewrq[b]) : ewrq[b][i] # l
  /\ l \in kept[b]
  /\ dirty' = [dirty EXCEPT ![b] = @ \ {l}] /\ kept' = [kept EXCEPT ![b] = IF l \in dirty[b] THEN @ \ {l} ELSE @]
  /\ lost' = (lost \/ l \notin dirty[b])
  /\ UNCHANGED <<top, grant, stb, miss, st, ptr, s1, ewrq>>

\* A snoop that peeks in the cycle of FLUSH_READ_DATA_RAM_WRITE_LST gets the set of the
\* flush and the tags of earlier reads.  If one matches, it takes that way of its own set,
\* another line; otherwise, as when its write falls into this cycle, nothing changes.
SnoopMisled(b, l) ==
  /\ st[b] = "ENQUEUE" /\ l \in dirty[b]
  /\ dirty' = [dirty EXCEPT ![b] = @ \ {l}] /\ kept' = [kept EXCEPT ![b] = @ \ {l}] /\ lost' = TRUE
  /\ UNCHANGED <<top, grant, stb, miss, st, ptr, s1, ewrq>>

Drain(b) == ewrq[b] # <<>> /\ ewrq' = [ewrq EXCEPT ![b] = Tail(@)]
            /\ UNCHANGED <<top, grant, stb, miss, st, ptr, dirty, s1, kept, lost>>

-----------------------------------------------------------------------------
(* The state machine of a bank.  In the branch after a write-back the set  *)
(* pointer moves when it is itself all ones, in the other when the way     *)
(* pointer is.                                                             *)

Moved(p, moveSet) == <<IF moveSet THEN (p[1] + 1) % Sets ELSE p[1], (p[2] + 1) % Ways>>
Goto(b, s) == st' = [st EXCEPT ![b] = s]

Start(b) == st[b] = "PENDING" /\ miss[b] = {} /\ Goto(b, "READ_LST")
            /\ UNCHANGED <<top, grant, stb, miss, ptr, bank>>

\* A mutant: the set pointer is compared here too.
CleanMovesFault(p) == p[1] = Sets - 1

CleanMoves(p) == p[2] = Ways - 1

ReadLst(b) ==
  /\ st[b] = "READ_LST"
  /\ IF ptr[b] \in dirty[b] THEN Goto(b, "WRITE_LST") /\ UNCHANGED ptr
     ELSE IF ptr[b] = Last THEN Goto(b, "WAIT_EWRQ") /\ UNCHANGED ptr
     ELSE ptr' = [ptr EXCEPT ![b] = Moved(@, CleanMoves(@))] /\ UNCHANGED st
  /\ UNCHANGED <<top, grant, stb, miss, bank>>

\* EXCLUSIVE, whatever a snoop has made of the line since it was read
WriteLst(b) ==
  /\ st[b] = "WRITE_LST" /\ Goto(b, "ENQUEUE")
  /\ dirty' = [dirty EXCEPT ![b] = @ \ {ptr[b]}]
  /\ UNCHANGED <<top, grant, stb, miss, ptr, s1, ewrq, kept, lost>>

DirtyMoves(p) == p[1] = Sets - 1

\* What the queue makes of an entry with the register's state and mask: an INVALID one
\* is dropped if its mask is empty, and the mask it has cuts the data, to nothing if it
\* is that of a clean line.
Fate(e) == CASE e = "INVALID" -> {"dropped", "cut", "whole"} [] e = "CLEAN" -> {"cut"} [] OTHER -> {"cut", "whole"}

Enqueue(b) ==
  /\ st[b] = "ENQUEUE"
  /\ IF Len(ewrq[b]) = Depth THEN Goto(b, "WRITE_LST") /\ UNCHANGED <<ptr, ewrq, kept, lost>>
     ELSE /\ \E fate \in Fate(s1[b]) :
               /\ ewrq' = IF fate = "dropped" THEN ewrq ELSE [ewrq EXCEPT ![b] = Append(@, ptr[b])]
               /\ lost' = (lost \/ (fate # "whole" /\ ptr[b] \in kept[b]))
          /\ kept' = [kept EXCEPT ![b] = @ \ {ptr[b]}]
          /\ IF ptr[b] = Last THEN Goto(b, "WAIT_EWRQ") /\ UNCHANGED ptr
             ELSE ptr' = [ptr EXCEPT ![b] = Moved(@, DirtyMoves(@))] /\ Goto(b, "READ_LST")
  /\ UNCHANGED <<top, grant, stb, miss, dirty, s1>>

WaitEwrq(b) == st[b] = "WAIT_EWRQ" /\ ewrq[b] = <<>> /\ Goto(b, "FINISH")
               /\ UNCHANGED <<top, grant, stb, miss, ptr, bank>>

\* The grant is up for one cycle.
BankFinish(b) ==
  /\ st[b] = "FINISH" /\ Goto(b, "IDLE") /\ ptr' = [ptr EXCEPT ![b] = First]
  /\ grant' = IF top = "GRANT" THEN grant \cup {b} ELSE grant
  /\ UNCHANGED <<top, stb, miss, bank>>

TopStep == StbHsk \/ StbDone \/ ReqToBank \/ Granted \/ Finish
BankStep(b) == Start(b) \/ ReadLst(b) \/ WriteLst(b) \/ Enqueue(b) \/ WaitEwrq(b) \/ BankFinish(b)

Next ==
  \/ FenceReq \/ FenceWait \/ TopStep
  \/ \E b \in Banks : \/ BankStep(b) \/ Refill(b) \/ Drain(b)
                      \/ \E set \in 0..(Sets - 1) : Request(b, set)
                      \/ \E l \in Line : StoreHit(b, l) \/ StoreMiss(b, l) \/ Snoop(b, l) \/ SnoopMisled(b, l)

Spec == Init /\ [][Next]_vars

-----------------------------------------------------------------------------
(* Properties *)

(* "make all dirty line into clean": when the fence is granted, nothing is *)
(* left in the store buffer, an MSHR or the evict queue, no line is        *)
(* MODIFIED, and every line with a store has been offered to the evict     *)
(* queue or taken by a snoop, whatever misses and snoops came in between,  *)
(* however the pointers wrapped and however often the queue was full.      *)
FlushCleans == top = "FINISH" =>
  stb = 0 /\ \A b \in Banks : dirty[b] = {} /\ kept[b] = {} /\ ewrq[b] = <<>> /\ miss[b] = {}

(* "write back dirty line": the data of every store have then reached the  *)
(* SCU.  The code does not keep this: rvh_l1d_bank.sv 1515 takes state and *)
(* mask from the register of the last request.                             *)
FlushSaves == top = "FINISH" => ~lost

(* A fence that was begun is granted: each lap over a set leaves fewer     *)
(* dirty lines, although the set pointer can stay behind or run ahead.     *)
FlushEnds == top = "STB_HSK" ~> top = "FINISH"
=============================================================================
