---------------------------- MODULE MCCacheUnits ----------------------------
(***************************************************************************)
(* Two units of the cache for model checking that CoherentCache has one    *)
(* line of only: a whole set of an L1D bank, with its tags, and the path   *)
(* from the replacement MSHRs of the SCU to memory (ReplMem).  One of them *)
(* runs at a time.  The proofs of ReplMem are here, for any size of it.    *)
(***************************************************************************)
EXTENDS ReplMem, TLAPS

VARIABLES
  part,                                    \* the unit that runs
  tag, mesi, rsv, mshr, head, ewrq         \* L1dWays

\* More lines than ways, and two misses at a time
Ways == INSTANCE L1dWays WITH NWays <- 3, Lines <- {"a", "b", "c", "d"}, Mshrs <- {1, 2}, Ops <- {"ld", "st"}

ASSUME WaysSize == Ways!WaysAssumption
ASSUME MemSize == ReplMemAssumption

ways == <<tag, mesi, rsv, mshr, head, ewrq>>
UnitVars == <<part, ways, vars>>

UnitInit ==
  /\ part \in {"ways", "repl"}
  /\ IF part = "ways" THEN Ways!Init
     ELSE tag = {} /\ mesi = {} /\ rsv = {} /\ mshr = {} /\ head = {} /\ ewrq = {}
  /\ Init

UnitNext ==
  /\ UNCHANGED part
  /\ \/ part = "ways" /\ Ways!Next /\ UNCHANGED vars
     \/ part = "repl" /\ Next /\ UNCHANGED ways

UnitSpec == UnitInit /\ [][UnitNext]_UnitVars

-----------------------------------------------------------------------------
(* Properties *)

(* A valid line is in the way a snoop looks at: no higher way carries its  *)
(* tag, neither the stale tag of an INVALID way nor a second copy, although *)
(* a snoop takes the last way whose tag matches (rvh_l1d_snp_ctrl.sv:422);  *)
(* and a refill overwrites only the tag of a way that is INVALID by then,   *)
(* although snoops go on between its peek, check and write                  *)
(* (rvh_l1d_mlfb.sv), so no line is dropped.                                *)
LinesFound ==
  /\ [](part = "ways" => Ways!SnoopFindsLine)
  /\ [][part = "ways" => Ways!LinesKept]_UnitVars

(* When a replacement MSHR is freed, memory has all beats of its line, and *)
(* no beat is at the address of another line, whatever stalls of the        *)
(* address and data channels came in between (rvh_scu_repl_mshr.sv:373).    *)
WriteBacksRight == part = "repl" => WrittenWhole /\ OwnAddress

-----------------------------------------------------------------------------
(* Proofs: the path to memory *)

Beat == 0..(Beats - 1)

(* What the variables hold. *)
EntryState == [vld : BOOLEAN, line : Line, content : {0, 1}, enqueued : BOOLEAN, done : BOOLEAN]
SlaveState == {"IDLE", "READ", "WAIT_WVALID", "WRITE", "SEND_B"}

TypeOK ==
  /\ ent \in [Entry -> EntryState]
  /\ awq \in Seq(Entry) /\ wq \in Seq(Entry)
  /\ ff \in [aw_re : BOOLEAN, w_re : BOOLEAN, wvalid : BOOLEAN, offset : Beat]
  /\ sl \in [state : SlaveState, addr : Int, cnt : Int]
  /\ mem \in [0..(Lines * Beats - 1) -> [line : Line, content : {0, 1}, beat : Beat]]

(* A word of memory came from its own line and beat. *)
OwnWords == \A l \in Line, k \in Beat :
  mem[l * Beats + k].line = l /\ mem[l * Beats + k].beat = k

(* Valid entries are for different lines, and done only when enqueued. *)
EntriesApart ==
  /\ \A e, f \in Entry : ent[e].vld /\ ent[f].vld /\ ent[e].line = ent[f].line => e = f
  /\ \A e \in Entry : (ent[e].enqueued => ent[e].vld) /\ (ent[e].done => ent[e].enqueued)

(* The data FIFO has each entry that is enqueued and not done, once. *)
QueueApart ==
  /\ \A i \in 1..Len(wq) : ent[wq[i]].enqueued /\ ~ent[wq[i]].done
  /\ \A i, j \in 1..Len(wq) : wq[i] = wq[j] => i = j

(* Between two bursts the FIFOs agree; during a burst the entry whose      *)
(* address was taken is at the head of the data FIFO, and the controller   *)
(* counts the beats as the entry does.  The register that follows the last *)
(* beat is set only while the response is sent.                            *)
BurstInStep ==
  /\ ff.w_re => sl.state = "SEND_B"
  /\ sl.state \in {"IDLE", "READ", "SEND_B"} => awq = wq /\ ff.offset = 0
  /\ sl.state \in {"WAIT_WVALID", "WRITE"} =>
       /\ wq # <<>> /\ awq = Tail(wq)
       /\ sl.addr = ent[Head(wq)].line * Beats
  /\ sl.state = "WAIT_WVALID" => ff.offset = 0
  /\ sl.state = "WRITE" => ff.wvalid /\ ff.offset = sl.cnt /\ sl.cnt > 0

(* The line of the burst has new beats up to the count; every other line   *)
(* has beats of one content, that of its entry when this is done.          *)
Written(l) == sl.state = "WRITE" /\ l = ent[Head(wq)].line
LinesWhole ==
  /\ \A l \in Line : ~Written(l) => \A k \in Beat : mem[l * Beats + k].content = mem[l * Beats].content
  /\ \A e \in Entry : ent[e].done => mem[ent[e].line * Beats].content = ent[e].content
  /\ sl.state = "WRITE" => \A k \in 0..(sl.cnt - 1) :
       mem[ent[Head(wq)].line * Beats + k].content = ent[Head(wq)].content

ReplInv == TypeOK /\ OwnWords /\ EntriesApart /\ QueueApart /\ BurstInStep /\ LinesWhole

(* Multiplication is monotone. *)
LEMMA TimesMonotone ==
  ASSUME NEW a \in Nat, NEW b \in Nat, NEW n \in Nat, a <= b PROVE a * n <= b * n
OBVIOUS

(* A beat of a line has an address in memory. *)
LEMMA AddressInMemory ==
  ASSUME ReplMemAssumption, NEW l \in Line, NEW k \in Beat
  PROVE  /\ l * Beats + k \in 0..(Lines * Beats - 1)
         /\ (l * Beats + k) % (Lines * Beats) = l * Beats + k
<1>1. (l + 1) * Beats <= Lines * Beats
  BY TimesMonotone DEF ReplMemAssumption, Line
<1>2. (l + 1) * Beats = l * Beats + Beats /\ l * Beats \in Nat /\ Lines * Beats \in Nat
  BY DEF ReplMemAssumption, Line
<1>3. l * Beats + k \in 0..(Lines * Beats - 1)
  BY <1>1, <1>2 DEF ReplMemAssumption, Beat
<1> DEFINE M == Lines * Beats
           a == l * Beats + k
<1>4. M \in Nat \ {0} /\ a \in 0..(M - 1)
  BY <1>2, <1>3
<1>5. a % M = a
  <2> HIDE DEF a, M
  <2> QED
    BY <1>4
<1>6. QED
  BY <1>3, <1>5

(* Addresses of different beats or lines differ. *)
LEMMA AddressesApart ==
  ASSUME ReplMemAssumption, NEW l \in Line, NEW m \in Line, NEW k \in Beat, NEW j \in Beat,
         l * Beats + k = m * Beats + j
  PROVE  l = m /\ k = j
<1>0. l \in Nat /\ m \in Nat /\ Beats \in Nat /\ k \in 0..(Beats - 1) /\ j \in 0..(Beats - 1)
  BY DEF ReplMemAssumption, Line, Beat
<1>1. CASE l < m
  <2>1. (l + 1) * Beats <= m * Beats
    BY <1>0, <1>1, TimesMonotone
  <2>2. (l + 1) * Beats = l * Beats + Beats /\ l * Beats \in Nat /\ m * Beats \in Nat
    BY <1>0
  <2>3. QED
    BY <1>0, <2>1, <2>2
<1>2. CASE m < l
  <2>1. (m + 1) * Beats <= l * Beats
    BY <1>0, <1>2, TimesMonotone
  <2>2. (m + 1) * Beats = m * Beats + Beats /\ l * Beats \in Nat /\ m * Beats \in Nat
    BY <1>0
  <2>3. QED
    BY <1>0, <2>1, <2>2
<1>3. QED
  BY <1>0, <1>1, <1>2

(* An address is that of a beat of a line. *)
LEMMA AddressOfBeat ==
  ASSUME ReplMemAssumption, NEW a \in 0..(Lines * Beats - 1)
  PROVE  a \div Beats \in Line /\ a % Beats \in Beat /\ a = (a \div Beats) * Beats + (a % Beats)
<1>0. Beats \in Nat \ {0} /\ Lines \in Nat /\ a \in Nat /\ Lines * Beats \in Nat
  BY DEF ReplMemAssumption
<1>1. /\ a \div Beats \in Nat /\ a % Beats \in 0..(Beats - 1)
      /\ a = (a \div Beats) * Beats + (a % Beats)
  BY <1>0
<1>2. a \div Beats < Lines
  <2> SUFFICES ASSUME Lines <= a \div Beats PROVE FALSE
    BY <1>0, <1>1
  <2>1. Lines * Beats <= (a \div Beats) * Beats
    BY <1>0, <1>1, TimesMonotone
  <2>2. QED
    BY <1>0, <1>1, <2>1
<1>3. QED
  BY <1>0, <1>1, <1>2 DEF Line, Beat

(* One beat written for entry e: it is the beat its line misses. *)
Beaten(l, c, k) ==
  mem' = [mem EXCEPT ![(l * Beats + k) % (Lines * Beats)] = Word(l, c, k)]

LEMMA BeatWritten ==
  ASSUME ReplMemAssumption, TypeOK, OwnWords,
         NEW l \in Line, NEW c \in {0, 1}, NEW k \in Beat, Beaten(l, c, k)
  PROVE  /\ mem' \in [0..(Lines * Beats - 1) -> [line : Line, content : {0, 1}, beat : Beat]]
         /\ OwnWords'
         /\ mem'[l * Beats + k].content = c
         /\ \A m \in Line, j \in Beat : m # l \/ j # k => mem'[m * Beats + j] = mem[m * Beats + j]
<1> DEFINE a == l * Beats + k
           A == 0..(Lines * Beats - 1)
<1>1. a \in A /\ mem' = [mem EXCEPT ![a] = Word(l, c, k)]
  BY AddressInMemory DEF Beaten
<1>2. \A m \in Line, j \in Beat : m * Beats + j \in A /\ (m * Beats + j = a => m = l /\ j = k)
  BY AddressInMemory, AddressesApart
<1> HIDE DEF a, A
<1>3. mem \in [A -> [line : Line, content : {0, 1}, beat : Beat]]
  BY DEF TypeOK, A
<1>4. Word(l, c, k) \in [line : Line, content : {0, 1}, beat : Beat]
  BY DEF Word
<1>5. mem' \in [A -> [line : Line, content : {0, 1}, beat : Beat]]
  BY <1>1, <1>3, <1>4
<1>6. mem'[a] = Word(l, c, k) /\ \A b \in A \ {a} : mem'[b] = mem[b]
  BY <1>1, <1>3
<1>7. \A m \in Line, j \in Beat : m # l \/ j # k => mem'[m * Beats + j] = mem[m * Beats + j]
  BY <1>2, <1>6
<1>8. OwnWords'
  <2> SUFFICES ASSUME NEW m \in Line, NEW j \in Beat
               PROVE  mem'[m * Beats + j].line = m /\ mem'[m * Beats + j].beat = j
    BY DEF OwnWords
  <2>1. CASE m = l /\ j = k
    BY <1>6, <2>1 DEF Word, a
  <2>2. CASE m # l \/ j # k
    BY <1>7, <2>2 DEF OwnWords
  <2>3. QED
    BY <2>1, <2>2
<1>9. QED
  BY <1>5, <1>6, <1>7, <1>8 DEF a, A, Word

(* Initially there is no entry and memory has its first content. *)
LEMMA ReplInit ==
  ASSUME ReplMemAssumption, Init PROVE ReplInv
<1>1. 0 \in Line /\ 0 \in Beat
  BY DEF ReplMemAssumption, Line, Beat
<1>2. \A a \in 0..(Lines * Beats - 1) : mem[a] = Word(a \div Beats, 0, a % Beats)
  BY DEF Init
<1>3. mem \in [0..(Lines * Beats - 1) -> [line : Line, content : {0, 1}, beat : Beat]]
  <2>1. \A a \in 0..(Lines * Beats - 1) :
          Word(a \div Beats, 0, a % Beats) \in [line : Line, content : {0, 1}, beat : Beat]
    BY AddressOfBeat DEF Word
  <2>2. QED
    BY <2>1 DEF Init
<1>4. \A l \in Line, k \in Beat :
        /\ mem[l * Beats + k].line = l /\ mem[l * Beats + k].beat = k
        /\ mem[l * Beats + k].content = 0
  <2> TAKE l \in Line, k \in Beat
  <2> DEFINE a == l * Beats + k
  <2>1. a \in 0..(Lines * Beats - 1)
    BY AddressInMemory
  <2>2. a \div Beats \in Line /\ a % Beats \in Beat /\ a = (a \div Beats) * Beats + (a % Beats)
    BY <2>1, AddressOfBeat
  <2>3. a \div Beats = l /\ a % Beats = k
    BY <2>2, AddressesApart
  <2>4. mem[a] = Word(l, 0, k)
    BY <1>2, <2>1, <2>3
  <2> HIDE DEF a
  <2>5. mem[a].line = l /\ mem[a].beat = k /\ mem[a].content = 0
    BY <2>4 DEF Word
  <2>6. QED
    BY <2>5 DEF a
<1>5. TypeOK
  BY <1>1, <1>3 DEF Init, TypeOK, NoEntry, EntryState, SlaveState
<1>6. OwnWords /\ EntriesApart /\ QueueApart /\ BurstInStep
  BY <1>4 DEF Init, OwnWords, EntriesApart, QueueApart, BurstInStep, NoEntry
<1>7. LinesWhole
  <2>1. \A l \in Line : l * Beats = l * Beats + 0
    BY DEF Line, ReplMemAssumption
  <2>2. \A l \in Line : mem[l * Beats].content = 0
    BY <1>1, <1>4, <2>1
  <2>3. QED
    BY <1>4, <2>2 DEF Init, LinesWhole, NoEntry
<1>8. QED
  BY <1>5, <1>6, <1>7 DEF ReplInv

(* The head of a FIFO that is not empty is one of its entries, and the     *)
(* others are in the rest.                                                 *)
LEMMA HeadAndTail ==
  ASSUME NEW q \in Seq(Entry), q # <<>>
  PROVE  /\ Head(q) \in Entry /\ Head(q) = q[1] /\ 1 \in 1..Len(q)
         /\ Tail(q) \in Seq(Entry) /\ Len(Tail(q)) = Len(q) - 1
         /\ \A i \in 1..Len(Tail(q)) : Tail(q)[i] = q[i + 1] /\ i + 1 \in 1..Len(q)
OBVIOUS

(* A new entry has the line of no other.                                   *)
LEMMA NewMshrStep ==
  ASSUME ReplMemAssumption, ReplInv, NEW e \in Entry, NEW l \in Line, NewMshr(e, l)
  PROVE  ReplInv'
<1> DEFINE c == 1 - mem[l * Beats].content
           new == [NoEntry EXCEPT !.vld = TRUE, !.line = l, !.content = c]
<1>1. /\ ent' = [ent EXCEPT ![e] = new] /\ UNCHANGED <<awq, wq, ff, sl, mem>>
      /\ ~ent[e].vld /\ \A f \in Entry : ent[f].vld => ent[f].line # l
  BY DEF NewMshr
<1>2. c \in {0, 1}
  <2>1. 0 \in Beat /\ l * Beats = l * Beats + 0
    BY DEF ReplMemAssumption, Line, Beat
  <2>2. l * Beats \in 0..(Lines * Beats - 1)
    BY <2>1, AddressInMemory
  <2>3. mem[l * Beats].content \in {0, 1}
    BY <2>2 DEF ReplInv, TypeOK
  <2>4. QED
    BY <2>3
<1> HIDE DEF c
<1>3. new \in EntryState /\ new.vld /\ new.line = l /\ ~new.enqueued /\ ~new.done
  BY <1>2 DEF NoEntry, EntryState
<1> HIDE DEF new
<1>4. ent' \in [Entry -> EntryState] /\ ent'[e] = new /\ \A f \in Entry \ {e} : ent'[f] = ent[f]
  BY <1>1, <1>3 DEF ReplInv, TypeOK
<1>5. \A i \in 1..Len(wq) : wq[i] \in Entry /\ wq[i] # e
  BY <1>1 DEF ReplInv, TypeOK, QueueApart, EntriesApart
<1>6. wq # <<>> => Head(wq) \in Entry \ {e}
  BY <1>5, HeadAndTail DEF ReplInv, TypeOK
<1>7. TypeOK' /\ OwnWords'
  BY <1>1, <1>4 DEF ReplInv, TypeOK, OwnWords
<1>8. EntriesApart'
  BY <1>1, <1>3, <1>4 DEF ReplInv, EntriesApart
<1>9. QueueApart'
  BY <1>1, <1>4, <1>5 DEF ReplInv, QueueApart
<1>10. BurstInStep'
  BY <1>1, <1>4, <1>6 DEF ReplInv, BurstInStep
<1>11. LinesWhole'
  <2>1. sl.state = "WRITE" => ent'[Head(wq)] = ent[Head(wq)]
    BY <1>4, <1>6 DEF ReplInv, BurstInStep
  <2>2. \A m : Written(m)' <=> Written(m)
    BY <1>1, <2>1 DEF Written
  <2>3. QED
    BY <1>1, <1>3, <1>4, <2>1, <2>2 DEF ReplInv, LinesWhole
<1>12. QED
  BY <1>7, <1>8, <1>9, <1>10, <1>11 DEF ReplInv

(* The entry goes to the end of both FIFOs.                                *)
LEMMA EnqueueStep ==
  ASSUME ReplMemAssumption, ReplInv, NEW e \in Entry, Enqueue(e)
  PROVE  ReplInv'
<1>1. /\ ent' = [ent EXCEPT ![e].enqueued = TRUE]
      /\ awq' = Append(awq, e) /\ wq' = Append(wq, e)
      /\ UNCHANGED <<ff, sl, mem>> /\ ent[e].vld /\ ~ent[e].enqueued
  BY DEF Enqueue
<1>2. ent' \in [Entry -> EntryState] /\ awq' \in Seq(Entry) /\ wq' \in Seq(Entry)
  <2>1. [ent[e] EXCEPT !.enqueued = TRUE] \in EntryState
    BY DEF ReplInv, TypeOK, EntryState
  <2>2. QED
    BY <1>1, <2>1 DEF ReplInv, TypeOK
<1>3. /\ ent'[e].enqueued /\ \A f \in Entry \ {e} : ent'[f].enqueued = ent[f].enqueued
      /\ \A f \in Entry : /\ ent'[f].vld = ent[f].vld /\ ent'[f].line = ent[f].line
                          /\ ent'[f].content = ent[f].content /\ ent'[f].done = ent[f].done
  BY <1>1 DEF ReplInv, TypeOK, EntryState
<1>4. /\ Len(wq') = Len(wq) + 1 /\ Len(wq) \in Nat /\ wq'[Len(wq) + 1] = e
      /\ \A i \in 1..Len(wq) : wq'[i] = wq[i] /\ wq[i] \in Entry /\ wq[i] # e
  BY <1>1 DEF ReplInv, TypeOK, QueueApart
<1>5. wq # <<>> => /\ Head(wq') = Head(wq) /\ wq' # <<>> /\ Head(wq) \in Entry
                   /\ Tail(wq') = Append(Tail(wq), e)
  BY <1>1 DEF ReplInv, TypeOK
<1>6. TypeOK' /\ OwnWords'
  BY <1>1, <1>2 DEF ReplInv, TypeOK, OwnWords
<1>7. ~ent[e].done
  BY <1>1 DEF ReplInv, EntriesApart
<1>8. EntriesApart'
  BY <1>1, <1>3 DEF ReplInv, EntriesApart
<1>9. QueueApart'
  <2>1. \A i \in 1..Len(wq') : i = Len(wq) + 1 \/ i \in 1..Len(wq)
    BY <1>4
  <2>2. \A i \in 1..Len(wq') : ent'[wq'[i]].enqueued /\ ~ent'[wq'[i]].done
    BY <1>3, <1>4, <1>7, <2>1 DEF ReplInv, QueueApart
  <2>3. \A i, j \in 1..Len(wq') : wq'[i] = wq'[j] => i = j
    BY <1>4, <2>1 DEF ReplInv, QueueApart
  <2>4. QED
    BY <2>2, <2>3 DEF QueueApart
<1>10. BurstInStep'
  <2>1. sl.state \in {"WAIT_WVALID", "WRITE"} =>
          wq' # <<>> /\ awq' = Tail(wq') /\ sl.addr = ent'[Head(wq')].line * Beats
    BY <1>1, <1>3, <1>5 DEF ReplInv, BurstInStep
  <2>2. QED
    BY <1>1, <2>1 DEF ReplInv, BurstInStep
<1>11. LinesWhole'
  <2>1. sl.state = "WRITE" => /\ ent'[Head(wq')].line = ent[Head(wq)].line
                              /\ ent'[Head(wq')].content = ent[Head(wq)].content
    BY <1>3, <1>5 DEF ReplInv, BurstInStep
  <2>2. \A m : Written(m)' <=> Written(m)
    BY <1>1, <2>1 DEF Written
  <2>3. QED
    BY <1>1, <1>3, <2>1, <2>2 DEF ReplInv, LinesWhole
<1>12. QED
  BY <1>6, <1>8, <1>9, <1>10, <1>11 DEF ReplInv

(* An entry of which nothing is dirty is done with what memory has.        *)
LEMMA NothingDirtyStep ==
  ASSUME ReplMemAssumption, ReplInv, NEW e \in Entry, NothingDirty(e)
  PROVE  ReplInv'
<1> DEFINE c == mem[ent[e].line * Beats].content
           n == [ent[e] EXCEPT !.enqueued = TRUE, !.done = TRUE, !.content = c]
<1>1. /\ UNCHANGED <<awq, wq, ff, sl, mem>> /\ ent[e].vld /\ ~ent[e].enqueued
      /\ ent[e].line \in Line
  BY DEF NothingDirty, ReplInv, TypeOK, EntryState
<1>2. c \in {0, 1}
  <2> DEFINE l == ent[e].line
  <2>1. l \in Line
    BY DEF ReplInv, TypeOK, EntryState
  <2>2. 0 \in Beat /\ l * Beats = l * Beats + 0
    BY <2>1 DEF ReplMemAssumption, Line, Beat
  <2>3. l * Beats \in 0..(Lines * Beats - 1)
    BY <2>1, <2>2, AddressInMemory
  <2>4. QED
    BY <2>3 DEF ReplInv, TypeOK
<1> HIDE DEF c
<1>3. /\ n \in EntryState /\ n.vld /\ n.enqueued /\ n.done
      /\ n.content = c /\ n.line = ent[e].line
  <2>1. ent[e] \in EntryState
    BY DEF ReplInv, TypeOK
  <2>2. QED
    BY <1>1, <1>2, <2>1 DEF EntryState
<1>4. /\ ent' \in [Entry -> EntryState] /\ ent'[e] = n
      /\ \A f \in Entry \ {e} : ent'[f] = ent[f]
  <2>1. ent' = [ent EXCEPT ![e] = n]
    BY DEF NothingDirty, ReplInv, TypeOK, c
  <2> HIDE DEF n
  <2>2. QED
    BY <1>3, <2>1 DEF ReplInv, TypeOK
<1> HIDE DEF n
<1>5. \A i \in 1..Len(wq) : wq[i] \in Entry /\ wq[i] # e
  BY <1>1 DEF ReplInv, TypeOK, QueueApart
<1>6. wq # <<>> => Head(wq) \in Entry \ {e}
  BY <1>5, HeadAndTail DEF ReplInv, TypeOK
<1>7. TypeOK' /\ OwnWords'
  BY <1>1, <1>4 DEF ReplInv, TypeOK, OwnWords
<1>8. EntriesApart'
  BY <1>1, <1>3, <1>4 DEF ReplInv, EntriesApart
<1>9. QueueApart'
  BY <1>1, <1>4, <1>5 DEF ReplInv, QueueApart
<1>10. BurstInStep'
  BY <1>1, <1>4, <1>6 DEF ReplInv, BurstInStep
<1>11. LinesWhole'
  <2>1. sl.state = "WRITE" => ent'[Head(wq)] = ent[Head(wq)]
    BY <1>4, <1>6 DEF ReplInv, BurstInStep
  <2>2. \A m : Written(m)' <=> Written(m)
    BY <1>1, <2>1 DEF Written
  <2>3. \A f \in Entry : ent'[f].done => mem[ent'[f].line * Beats].content = ent'[f].content
    BY <1>3, <1>4 DEF ReplInv, LinesWhole, c
  <2>4. QED
    BY <1>1, <1>3, <1>4, <2>1, <2>2, <2>3 DEF ReplInv, LinesWhole
<1>12. QED
  BY <1>7, <1>8, <1>9, <1>10, <1>11 DEF ReplInv

(* An entry is freed when it is done, and so in no FIFO any more.          *)
LEMMA FreeStep ==
  ASSUME ReplMemAssumption, ReplInv, NEW e \in Entry, Free(e)
  PROVE  ReplInv'
<1>1. /\ ent' = [ent EXCEPT ![e] = NoEntry]
      /\ UNCHANGED <<awq, wq, ff, sl, mem>> /\ ent[e].vld /\ ent[e].done
  BY DEF Free
<1>2. NoEntry \in EntryState
  BY DEF NoEntry, EntryState, ReplMemAssumption, Line
<1>3. ent' \in [Entry -> EntryState]
  BY <1>1, <1>2 DEF ReplInv, TypeOK
<1>4. /\ ~ent'[e].vld /\ ~ent'[e].enqueued /\ ~ent'[e].done
      /\ \A f \in Entry \ {e} : ent'[f] = ent[f]
  BY <1>1 DEF ReplInv, TypeOK, NoEntry
<1>5. \A i \in 1..Len(wq) : wq[i] \in Entry /\ wq[i] # e
  BY <1>1 DEF ReplInv, TypeOK, QueueApart
<1>6. wq # <<>> => Head(wq) \in Entry \ {e}
  BY <1>5, HeadAndTail DEF ReplInv, TypeOK
<1>7. TypeOK' /\ OwnWords'
  BY <1>1, <1>3 DEF ReplInv, TypeOK, OwnWords
<1>8. EntriesApart'
  BY <1>1, <1>4 DEF ReplInv, EntriesApart
<1>9. QueueApart'
  BY <1>1, <1>4, <1>5 DEF ReplInv, QueueApart
<1>10. BurstInStep'
  BY <1>1, <1>4, <1>6 DEF ReplInv, BurstInStep
<1>11. LinesWhole'
  <2>1. sl.state = "WRITE" => ent'[Head(wq)] = ent[Head(wq)]
    BY <1>4, <1>6 DEF ReplInv, BurstInStep
  <2>2. \A m : Written(m)' <=> Written(m)
    BY <1>1, <2>1 DEF Written
  <2>3. QED
    BY <1>1, <1>4, <2>1, <2>2 DEF ReplInv, LinesWhole
<1>12. QED
  BY <1>7, <1>8, <1>9, <1>10, <1>11 DEF ReplInv

(* What a clock does to a burst of the entry at the head of the data FIFO. *)
Quiet ==
  /\ UNCHANGED <<ent, awq, wq, mem>>
  /\ ~ff'.w_re /\ ff'.offset = ff.offset
  /\ \/ sl.state \in {"IDLE", "READ", "SEND_B"} /\ sl'.state \in {"IDLE", "READ"}
     \/ sl.state \in {"WAIT_WVALID", "WRITE"} /\ sl' = sl

AddressTaken ==
  /\ sl.state = "IDLE" /\ wq # <<>> /\ awq' = Tail(wq)
  /\ UNCHANGED <<ent, wq, mem>>
  /\ ~ff'.w_re /\ ff'.offset = 0
  /\ sl'.state = "WAIT_WVALID" /\ sl'.addr = ent[Head(wq)].line * Beats

FirstBeat ==
  /\ sl.state \in {"IDLE", "WAIT_WVALID"} /\ wq # <<>> /\ awq' = Tail(wq)
  /\ UNCHANGED <<ent, wq>>
  /\ ~ff'.w_re /\ ff'.offset = 1
  /\ sl'.state = "WRITE" /\ sl'.addr = ent[Head(wq)].line * Beats /\ sl'.cnt = 1
  /\ Beaten(ent[Head(wq)].line, ent[Head(wq)].content, 0)

NextBeat ==
  /\ sl.state = "WRITE" /\ ff.offset # Beats - 1
  /\ UNCHANGED <<ent, awq, wq>>
  /\ ~ff'.w_re /\ ff'.offset = ff.offset + 1
  /\ sl'.state = "WRITE" /\ sl'.addr = sl.addr /\ sl'.cnt = sl.cnt + 1
  /\ Beaten(ent[Head(wq)].line, ent[Head(wq)].content, sl.cnt)

LastBeat ==
  /\ sl.state = "WRITE" /\ ff.offset = Beats - 1
  /\ wq' = Tail(wq) /\ UNCHANGED awq
  /\ ff'.offset = 0
  /\ sl'.state = "SEND_B"
  /\ Beaten(ent[Head(wq)].line, ent[Head(wq)].content, sl.cnt)
  /\ ent' = [e \in Entry |-> IF e = Head(wq) THEN [ent[e] EXCEPT !.done = TRUE] ELSE ent[e]]

(* The controller with another state, and with another count. *)
LEMMA SlaveMoves ==
  ASSUME NEW s \in [state : SlaveState, addr : Int, cnt : Int],
         NEW t \in SlaveState, NEW x, x = [s EXCEPT !.state = t]
  PROVE  x \in [state : SlaveState, addr : Int, cnt : Int] /\ x.state = t
OBVIOUS

LEMMA SlaveCounts ==
  ASSUME NEW s \in [state : SlaveState, addr : Int, cnt : Int],
         NEW t \in SlaveState, NEW n \in Int, NEW x, x = [s EXCEPT !.state = t, !.cnt = n]
  PROVE  /\ x \in [state : SlaveState, addr : Int, cnt : Int]
         /\ x.state = t /\ x.addr = s.addr /\ x.cnt = n
OBVIOUS

(* A clock takes the address, or one beat, or both or neither. *)
LEMMA ClockSteps ==
  ASSUME ReplMemAssumption, ReplInv, NEW hold \in BOOLEAN, NEW ar \in BOOLEAN, Clock(hold, ar)
  PROVE  /\ ff' \in [aw_re : BOOLEAN, w_re : BOOLEAN, wvalid : BOOLEAN, offset : Beat]
         /\ sl' \in [state : SlaveState, addr : Int, cnt : Int]
         /\ ff'.wvalid <=> wq # <<>>
         /\ Quiet \/ AddressTaken \/ FirstBeat \/ NextBeat \/ LastBeat
<1> DEFINE aw == AwReady(hold, ar)
           ready == WReady(hold, ar)
           w == WValid /\ ready
           wre == w /\ WLast
           L == ent[Head(wq)].line
           c == ent[Head(wq)].content
<1>1. awq' = (IF aw THEN Tail(awq) ELSE awq) /\ wq' = (IF wre THEN Tail(wq) ELSE wq)
  BY DEF Clock
<1>2. ff' = [aw_re |-> aw, w_re |-> wre, wvalid |-> WValidNxt, offset |-> OffsetNxt(ready)]
  BY DEF Clock
<1>3. sl' = Slave(hold, ar, aw, w)
  BY DEF Clock
<1>4. mem' = IF ~w THEN mem
             ELSE [mem EXCEPT ![WriteAddr % (Lines * Beats)] = Word(L, c, ff.offset)]
  BY DEF Clock
<1>5. ent' = [e \in Entry |-> IF e \in Done(wre) THEN [ent[e] EXCEPT !.done = TRUE] ELSE ent[e]]
  BY DEF Clock
<1>6. ff.offset \in Beat /\ ff.offset \in Int /\ Beats \in Nat /\ Beats > 1
  BY DEF ReplInv, TypeOK, ReplMemAssumption, Beat
<1>7. sl \in [state : SlaveState, addr : Int, cnt : Int]
  BY DEF ReplInv, TypeOK
<1>8. ent \in [Entry -> EntryState] /\ wq \in Seq(Entry) /\ awq \in Seq(Entry)
  BY DEF ReplInv, TypeOK
<1>9. wq # <<>> => L \in Line /\ L * Beats \in Int /\ L * Beats + 0 = L * Beats
  BY <1>8, HeadAndTail DEF EntryState, Line, ReplMemAssumption
<1>10. /\ ff.w_re => sl.state = "SEND_B"
       /\ sl.state \in {"IDLE", "READ", "SEND_B"} => awq = wq /\ ff.offset = 0
       /\ sl.state \in {"WAIT_WVALID", "WRITE"} => wq # <<>> /\ awq = Tail(wq) /\ sl.addr = L * Beats
       /\ sl.state = "WAIT_WVALID" => ff.offset = 0
       /\ sl.state = "WRITE" => ff.wvalid /\ ff.offset = sl.cnt
  BY DEF ReplInv, BurstInStep
<1>11. ~wre => ent' = ent
  BY <1>5, <1>8 DEF Done
<1>12. WLast <=> ff.offset = Beats - 1
  BY DEF WLast
<1>13. WValid <=> ff.wvalid /\ wq # <<>> /\ ~ff.w_re
  BY DEF WValid, WValidNxt
<1>14. /\ aw <=> ~hold /\ sl.state = "IDLE" /\ ~ar /\ awq # <<>> /\ ~ff.aw_re
       /\ ready <=> ~hold /\ (aw \/ sl.state \in {"WAIT_WVALID", "WRITE"})
  BY DEF AwReady, AwValid, WReady
<1>15. /\ ff'.wvalid <=> wq # <<>>
       /\ ff'.w_re <=> wre
       /\ ff'.offset = OffsetNxt(ready)
  BY <1>2 DEF WValidNxt
<1>16. 0 \in Beat /\ 1 \in Beat /\ (ff.offset # Beats - 1 =>
         /\ ff.offset + 1 \in Beat /\ (ff.offset + 1) % Beats = ff.offset + 1)
  BY <1>6 DEF Beat
<1> HIDE DEF aw, ready, w, wre, L, c
<1>17. OffsetNxt(ready) = IF w THEN IF WLast THEN 0 ELSE ff.offset + 1 ELSE ff.offset
  <2>1. CASE ready /\ ff.wvalid
    <3>1. w /\ ~ff.w_re
      BY <1>10, <1>13, <1>14, <2>1 DEF w
    <3>2. QED
      BY <1>6, <1>12, <1>16, <2>1, <3>1 DEF OffsetNxt
  <2>2. CASE ready /\ ~ff.wvalid
    <3>1. ~w /\ ff.offset = 0
      BY <1>10, <1>13, <1>14, <2>2 DEF w
    <3>2. QED
      BY <2>2, <3>1 DEF OffsetNxt
  <2>3. CASE ~ready
    BY <2>3 DEF OffsetNxt, w
  <2>4. QED
    BY <2>1, <2>2, <2>3
<1>18. ff' \in [aw_re : BOOLEAN, w_re : BOOLEAN, wvalid : BOOLEAN, offset : Beat]
  <2>1. OffsetNxt(ready) \in Beat
    BY <1>6, <1>12, <1>16, <1>17
  <2>2. aw \in BOOLEAN /\ wre \in BOOLEAN /\ WValidNxt \in BOOLEAN
    BY <1>14 DEF wre, w, WValidNxt, aw, AwReady
  <2>3. QED
    BY <1>2, <2>1, <2>2
<1>19. CASE sl.state = "IDLE"
  <2>1. CASE ~aw
    <3>1. ~ready /\ ~w /\ ~wre
      BY <1>14, <1>19, <2>1 DEF w, wre
    <3>2. sl' \in [state : SlaveState, addr : Int, cnt : Int] /\ sl'.state \in {"IDLE", "READ"}
      <4>1. sl' = sl \/ sl' = [sl EXCEPT !.state = "READ", !.cnt = 1]
        BY <1>3, <1>19, <2>1 DEF Slave
      <4>2. "READ" \in SlaveState /\ 1 \in Int
        BY DEF SlaveState
      <4>3. CASE sl' = sl
        BY <1>7, <1>19, <4>3
      <4>4. CASE sl' = [sl EXCEPT !.state = "READ", !.cnt = 1]
        BY <1>7, <4>2, <4>4, SlaveCounts
      <4>5. QED
        BY <4>1, <4>3, <4>4
    <3>3. Quiet
      BY <1>1, <1>4, <1>11, <1>15, <1>17, <1>19, <2>1, <3>1, <3>2 DEF Quiet
    <3>4. QED
      BY <1>15, <1>18, <3>2, <3>3
  <2>2. CASE aw /\ ~w
    <3>1. ~wre /\ wq # <<>> /\ awq = wq /\ ~hold /\ ~ar
      BY <1>10, <1>14, <1>19, <2>2 DEF wre
    <3>2. sl' = [state |-> "WAIT_WVALID", addr |-> L * Beats, cnt |-> 1]
      BY <1>3, <1>19, <2>2, <3>1 DEF Slave, L
    <3>3. AddressTaken
      BY <1>1, <1>4, <1>10, <1>11, <1>15, <1>17, <1>19, <2>2, <3>1, <3>2 DEF AddressTaken, L
    <3>4. QED
      BY <1>9, <1>15, <1>18, <3>1, <3>2, <3>3 DEF SlaveState
  <2>3. CASE aw /\ w
    <3>1. ~wre /\ wq # <<>> /\ awq = wq /\ ff.offset = 0 /\ ~WLast /\ ~hold /\ ~ar
      BY <1>6, <1>10, <1>12, <1>14, <1>19, <2>3 DEF wre
    <3>2. sl' = [state |-> "WRITE", addr |-> L * Beats, cnt |-> 1]
      BY <1>3, <1>19, <2>3, <3>1 DEF Slave, L
    <3>3. Beaten(L, c, 0)
      BY <1>4, <1>9, <1>19, <2>3, <3>1 DEF Beaten, WriteAddr, L
    <3>4. FirstBeat
      BY <1>1, <1>11, <1>15, <1>17, <1>19, <2>3, <3>1, <3>2, <3>3 DEF FirstBeat, L, c
    <3>5. QED
      BY <1>9, <1>15, <1>18, <3>1, <3>2, <3>4 DEF SlaveState
  <2>4. QED
    BY <2>1, <2>2, <2>3
<1>20. CASE sl.state \in {"READ", "SEND_B"}
  <2>1. ~aw /\ ~ready /\ ~w /\ ~wre
    BY <1>14, <1>20 DEF w, wre
  <2>2. sl' \in [state : SlaveState, addr : Int, cnt : Int] /\ sl'.state \in {"IDLE", "READ"}
    <3>1. sl.state = "READ" => \E t \in {"IDLE", "READ"} : sl' = [sl EXCEPT !.state = t, !.cnt = sl.cnt + 1]
      BY <1>3, <2>1 DEF Slave
    <3>2. sl.state = "SEND_B" => sl' = [sl EXCEPT !.state = "IDLE"]
      BY <1>3, <2>1 DEF Slave
    <3>3. sl.cnt + 1 \in Int /\ "IDLE" \in SlaveState /\ "READ" \in SlaveState
      BY <1>7 DEF SlaveState
    <3>4. CASE sl.state = "READ"
      <4>1. PICK t \in {"IDLE", "READ"} : sl' = [sl EXCEPT !.state = t, !.cnt = sl.cnt + 1]
        BY <3>1, <3>4
      <4>2. t \in SlaveState /\ sl.cnt + 1 \in Int
        BY <3>3
      <4>3. QED
        BY <1>7, <4>1, <4>2, SlaveCounts
    <3>5. CASE sl.state = "SEND_B"
      BY <1>7, <3>2, <3>3, <3>5, SlaveMoves
    <3>6. QED
      BY <1>20, <3>4, <3>5
  <2>3. Quiet
    BY <1>1, <1>4, <1>11, <1>15, <1>17, <1>20, <2>1, <2>2 DEF Quiet
  <2>4. QED
    BY <1>15, <1>18, <2>2, <2>3
<1>21. CASE sl.state \in {"WAIT_WVALID", "WRITE"} /\ ~w
  <2>1. ~aw /\ ~wre
    BY <1>14, <1>21 DEF wre
  <2>2. sl' = sl
    BY <1>3, <1>21, <2>1 DEF Slave
  <2>3. Quiet
    BY <1>1, <1>4, <1>11, <1>15, <1>17, <1>21, <2>1, <2>2 DEF Quiet
  <2>4. QED
    BY <1>7, <1>15, <1>18, <2>2, <2>3
<1>22. CASE sl.state = "WAIT_WVALID" /\ w
  <2>1. ~aw /\ ~wre /\ wq # <<>> /\ awq = Tail(wq) /\ ff.offset = 0 /\ ~WLast /\ sl.addr = L * Beats
    BY <1>6, <1>10, <1>12, <1>14, <1>22 DEF wre
  <2>2. sl' = [sl EXCEPT !.state = "WRITE", !.cnt = 1]
    BY <1>3, <1>22, <2>1 DEF Slave
  <2>3. sl' \in [state : SlaveState, addr : Int, cnt : Int]
        /\ sl'.state = "WRITE" /\ sl'.addr = sl.addr /\ sl'.cnt = 1
    <3>1. 1 \in Int /\ sl.cnt + 1 \in Int /\ "WRITE" \in SlaveState /\ "SEND_B" \in SlaveState
      BY <1>7 DEF SlaveState
    <3>2. QED
      BY <1>7, <2>2, <3>1, SlaveCounts
  <2>4. Beaten(L, c, 0)
    BY <1>4, <1>9, <1>22, <2>1 DEF Beaten, WriteAddr
  <2>5. FirstBeat
    BY <1>1, <1>11, <1>15, <1>17, <1>22, <2>1, <2>3, <2>4 DEF FirstBeat, L, c
  <2>6. QED
    BY <1>15, <1>18, <2>3, <2>5
<1>23. CASE sl.state = "WRITE" /\ w /\ ~WLast
  <2>1. ~aw /\ ~wre /\ wq # <<>> /\ ff.offset = sl.cnt /\ sl.addr = L * Beats
    BY <1>10, <1>14, <1>23 DEF wre
  <2>2. sl' = [sl EXCEPT !.state = "WRITE", !.cnt = sl.cnt + 1]
    BY <1>3, <1>23, <2>1 DEF Slave
  <2>3. sl' \in [state : SlaveState, addr : Int, cnt : Int]
        /\ sl'.state = "WRITE" /\ sl'.addr = sl.addr /\ sl'.cnt = sl.cnt + 1
    <3>1. 1 \in Int /\ sl.cnt + 1 \in Int /\ "WRITE" \in SlaveState /\ "SEND_B" \in SlaveState
      BY <1>7 DEF SlaveState
    <3>2. QED
      BY <1>7, <2>2, <3>1, SlaveCounts
  <2>4. Beaten(L, c, sl.cnt)
    BY <1>4, <1>23, <2>1 DEF Beaten, WriteAddr
  <2>5. NextBeat
    BY <1>1, <1>11, <1>12, <1>15, <1>17, <1>23, <2>1, <2>3, <2>4 DEF NextBeat, L, c
  <2>6. QED
    BY <1>15, <1>18, <2>3, <2>5
<1>24. CASE sl.state = "WRITE" /\ w /\ WLast
  <2>1. ~aw /\ wre /\ wq # <<>> /\ ff.offset = sl.cnt /\ sl.addr = L * Beats
    BY <1>10, <1>14, <1>24 DEF wre
  <2>2. sl' = [sl EXCEPT !.state = "SEND_B", !.cnt = sl.cnt + 1]
    BY <1>3, <1>24, <2>1 DEF Slave
  <2>3. sl' \in [state : SlaveState, addr : Int, cnt : Int] /\ sl'.state = "SEND_B"
    <3>1. 1 \in Int /\ sl.cnt + 1 \in Int /\ "WRITE" \in SlaveState /\ "SEND_B" \in SlaveState
      BY <1>7 DEF SlaveState
    <3>2. QED
      BY <1>7, <2>2, <3>1, SlaveCounts
  <2>4. Beaten(L, c, sl.cnt)
    BY <1>4, <1>24, <2>1 DEF Beaten, WriteAddr
  <2>5. ent' = [e \in Entry |-> IF e = Head(wq) THEN [ent[e] EXCEPT !.done = TRUE] ELSE ent[e]]
    BY <1>5, <2>1 DEF Done
  <2>6. LastBeat
    BY <1>1, <1>12, <1>15, <1>17, <1>24, <2>1, <2>3, <2>4, <2>5 DEF LastBeat, L, c
  <2>7. QED
    BY <1>15, <1>18, <2>3, <2>6
<1>25. sl.state \in SlaveState
  BY <1>7
<1>26. QED
  BY <1>19, <1>20, <1>21, <1>22, <1>23, <1>24, <1>25 DEF SlaveState

(* Nothing of a burst changes. *)
LEMMA QuietStep ==
  ASSUME ReplMemAssumption, ReplInv, Quiet, ff'.wvalid <=> wq # <<>>
  PROVE  (OwnWords /\ EntriesApart /\ QueueApart /\ BurstInStep /\ LinesWhole)'
<1>1. UNCHANGED <<ent, awq, wq, mem>> /\ ~ff'.w_re /\ ff'.offset = ff.offset
  BY DEF Quiet
<1>2. OwnWords' /\ EntriesApart' /\ QueueApart'
  BY <1>1 DEF ReplInv, OwnWords, EntriesApart, QueueApart
<1>3. CASE sl.state \in {"IDLE", "READ", "SEND_B"} /\ sl'.state \in {"IDLE", "READ"}
  <2>1. \A l : ~Written(l) /\ ~Written(l)'
    BY <1>3 DEF Written
  <2>2. LinesWhole'
    BY <1>1, <1>3, <2>1 DEF ReplInv, LinesWhole
  <2>3. BurstInStep'
    BY <1>1, <1>3 DEF ReplInv, BurstInStep
  <2>4. QED
    BY <1>2, <2>2, <2>3
<1>4. CASE sl.state \in {"WAIT_WVALID", "WRITE"} /\ sl' = sl
  <2>1. \A l : Written(l)' <=> Written(l)
    BY <1>1, <1>4 DEF Written
  <2>2. LinesWhole'
    BY <1>1, <1>4, <2>1 DEF ReplInv, LinesWhole
  <2>3. BurstInStep'
    BY <1>1, <1>4 DEF ReplInv, BurstInStep
  <2>4. QED
    BY <1>2, <2>2, <2>3
<1>5. QED
  BY <1>3, <1>4 DEF Quiet

(* The address goes ahead of the data. *)
LEMMA AddressTakenStep ==
  ASSUME ReplMemAssumption, ReplInv, AddressTaken
  PROVE  (OwnWords /\ EntriesApart /\ QueueApart /\ BurstInStep /\ LinesWhole)'
<1>1. /\ UNCHANGED <<ent, wq, mem>> /\ ~ff'.w_re /\ ff'.offset = 0 /\ wq # <<>>
      /\ sl.state = "IDLE" /\ sl'.state = "WAIT_WVALID"
      /\ awq' = Tail(wq) /\ sl'.addr = ent[Head(wq)].line * Beats
  BY DEF AddressTaken
<1>2. OwnWords' /\ EntriesApart' /\ QueueApart'
  BY <1>1 DEF ReplInv, OwnWords, EntriesApart, QueueApart
<1>3. BurstInStep'
  BY <1>1 DEF BurstInStep
<1>4. \A l : ~Written(l) /\ ~Written(l)'
  BY <1>1 DEF Written
<1>5. LinesWhole'
  BY <1>1, <1>4 DEF ReplInv, LinesWhole
<1>6. QED
  BY <1>2, <1>3, <1>5

(* A beat of the entry at the head of the data FIFO. *)
LEMMA HeadBeat ==
  ASSUME ReplMemAssumption, ReplInv, wq # <<>>, NEW k \in Beat,
         Beaten(ent[Head(wq)].line, ent[Head(wq)].content, k)
  PROVE  /\ Head(wq) \in Entry /\ ent[Head(wq)].line \in Line
         /\ ent[Head(wq)].vld /\ ent[Head(wq)].enqueued /\ ~ent[Head(wq)].done
         /\ mem' \in [0..(Lines * Beats - 1) -> [line : Line, content : {0, 1}, beat : Beat]]
         /\ OwnWords'
         /\ mem'[ent[Head(wq)].line * Beats + k].content = ent[Head(wq)].content
         /\ \A m \in Line, j \in Beat : m # ent[Head(wq)].line \/ j # k =>
              mem'[m * Beats + j] = mem[m * Beats + j]
         /\ \A m \in Line : m # ent[Head(wq)].line \/ k # 0 => mem'[m * Beats] = mem[m * Beats]
<1>1. Head(wq) \in Entry /\ ent[Head(wq)].enqueued /\ ~ent[Head(wq)].done
  BY HeadAndTail DEF ReplInv, TypeOK, QueueApart
<1>2. ent[Head(wq)].line \in Line /\ ent[Head(wq)].content \in {0, 1}
  BY <1>1 DEF ReplInv, TypeOK, EntryState
<1>3. ent[Head(wq)].vld
  BY <1>1 DEF ReplInv, EntriesApart
<1>4. \A m \in Line : m * Beats = m * Beats + 0 /\ 0 \in Beat
  BY DEF Line, Beat, ReplMemAssumption
<1>5. /\ mem' \in [0..(Lines * Beats - 1) -> [line : Line, content : {0, 1}, beat : Beat]]
      /\ OwnWords'
      /\ mem'[ent[Head(wq)].line * Beats + k].content = ent[Head(wq)].content
      /\ \A m \in Line, j \in Beat : m # ent[Head(wq)].line \/ j # k =>
           mem'[m * Beats + j] = mem[m * Beats + j]
  BY <1>2, BeatWritten DEF ReplInv
<1>6. \A m \in Line : m # ent[Head(wq)].line \/ k # 0 => mem'[m * Beats] = mem[m * Beats]
  BY <1>4, <1>5
<1>7. QED
  BY <1>1, <1>2, <1>3, <1>5, <1>6

(* The first beat of a burst. *)
LEMMA FirstBeatStep ==
  ASSUME ReplMemAssumption, ReplInv, FirstBeat, ff'.wvalid <=> wq # <<>>
  PROVE  /\ (OwnWords /\ EntriesApart /\ QueueApart /\ BurstInStep /\ LinesWhole)'
         /\ mem' \in [0..(Lines * Beats - 1) -> [line : Line, content : {0, 1}, beat : Beat]]
<1> DEFINE h == Head(wq)
           L == ent[h].line
<1>1. /\ UNCHANGED <<ent, wq>> /\ ~ff'.w_re /\ ff'.offset = 1 /\ ff'.wvalid /\ wq # <<>>
      /\ sl.state \in {"IDLE", "WAIT_WVALID"} /\ sl'.state = "WRITE" /\ sl'.cnt = 1
      /\ awq' = Tail(wq) /\ sl'.addr = L * Beats
  BY DEF FirstBeat
<1>2. 0 \in Beat
  BY DEF Beat, ReplMemAssumption
<1>3. /\ h \in Entry /\ L \in Line /\ ent[h].vld /\ ~ent[h].done
      /\ mem' \in [0..(Lines * Beats - 1) -> [line : Line, content : {0, 1}, beat : Beat]]
      /\ OwnWords'
      /\ mem'[L * Beats + 0].content = ent[h].content
      /\ \A m \in Line, j \in Beat : m # L \/ j # 0 => mem'[m * Beats + j] = mem[m * Beats + j]
      /\ \A m \in Line : m # L => mem'[m * Beats] = mem[m * Beats]
  BY <1>1, <1>2, HeadBeat DEF FirstBeat
<1> HIDE DEF h, L
<1>4. EntriesApart' /\ QueueApart'
  BY <1>1 DEF ReplInv, EntriesApart, QueueApart
<1>5. BurstInStep'
  BY <1>1 DEF BurstInStep, h, L
<1>6. LinesWhole'
  <2>1. \A l \in Line : ~Written(l) /\ (Written(l)' <=> l = L)
    BY <1>1 DEF Written, h, L
  <2>2. \A l \in Line : ~Written(l)' =>
          \A k \in Beat : mem'[l * Beats + k].content = mem'[l * Beats].content
    BY <1>3, <2>1 DEF ReplInv, LinesWhole
  <2>3. \A e \in Entry : ent[e].done => ent[e].line # L /\ ent[e].line \in Line
    BY <1>3 DEF ReplInv, TypeOK, EntryState, EntriesApart, L
  <2>4. \A e \in Entry : ent'[e].done => mem'[ent'[e].line * Beats].content = ent'[e].content
    BY <1>1, <1>3, <2>3 DEF ReplInv, LinesWhole
  <2>5. \A k \in 0..(sl'.cnt - 1) : mem'[L * Beats + k].content = ent[h].content
    BY <1>1, <1>3
  <2>6. QED
    BY <1>1, <2>2, <2>4, <2>5 DEF LinesWhole, h, L
<1>7. QED
  BY <1>3, <1>4, <1>5, <1>6

(* A beat within a burst. *)
LEMMA NextBeatStep ==
  ASSUME ReplMemAssumption, ReplInv, NextBeat, ff'.wvalid <=> wq # <<>>
  PROVE  /\ (OwnWords /\ EntriesApart /\ QueueApart /\ BurstInStep /\ LinesWhole)'
         /\ mem' \in [0..(Lines * Beats - 1) -> [line : Line, content : {0, 1}, beat : Beat]]
<1> DEFINE h == Head(wq)
           L == ent[h].line
           k == sl.cnt
<1>1. /\ UNCHANGED <<ent, awq, wq>> /\ ~ff'.w_re /\ ff'.offset = ff.offset + 1
      /\ sl.state = "WRITE" /\ sl'.state = "WRITE" /\ sl'.cnt = k + 1
      /\ sl'.addr = sl.addr
  BY DEF NextBeat
<1>2. wq # <<>> /\ awq = Tail(wq) /\ sl.addr = L * Beats /\ ff.offset = k /\ k > 0 /\ k \in Int
  BY <1>1 DEF ReplInv, BurstInStep, TypeOK
<1>3. k \in Beat /\ k # 0 /\ ff'.wvalid
  BY <1>2 DEF ReplInv, TypeOK
<1>4. /\ h \in Entry /\ L \in Line /\ ent[h].vld /\ ~ent[h].done
      /\ mem' \in [0..(Lines * Beats - 1) -> [line : Line, content : {0, 1}, beat : Beat]]
      /\ OwnWords'
      /\ mem'[L * Beats + k].content = ent[h].content
      /\ \A m \in Line, j \in Beat : m # L \/ j # k => mem'[m * Beats + j] = mem[m * Beats + j]
      /\ \A m \in Line : mem'[m * Beats] = mem[m * Beats]
  BY <1>2, <1>3, HeadBeat DEF NextBeat
<1> HIDE DEF h, L, k
<1>5. EntriesApart' /\ QueueApart'
  BY <1>1 DEF ReplInv, EntriesApart, QueueApart
<1>6. BurstInStep'
  BY <1>1, <1>2, <1>3 DEF BurstInStep, h, L, k
<1>7. LinesWhole'
  <2>1. \A l \in Line : (Written(l) <=> l = L) /\ (Written(l)' <=> l = L)
    BY <1>1 DEF Written, h, L
  <2>2. \A l \in Line : ~Written(l)' =>
          \A j \in Beat : mem'[l * Beats + j].content = mem'[l * Beats].content
    BY <1>4, <2>1 DEF ReplInv, LinesWhole
  <2>3. \A e \in Entry : ent[e].line \in Line
    BY DEF ReplInv, TypeOK, EntryState
  <2>4. \A e \in Entry : ent'[e].done => mem'[ent'[e].line * Beats].content = ent'[e].content
    BY <1>1, <1>4, <2>3 DEF ReplInv, LinesWhole
  <2>5. \A j \in 0..(k - 1) : j \in Beat /\ j # k /\ mem[L * Beats + j].content = ent[h].content
    <3>1. \A j \in 0..(k - 1) : j \in Beat /\ j # k
      BY <1>2, <1>3 DEF Beat, ReplMemAssumption
    <3>2. \A j \in 0..(k - 1) : mem[L * Beats + j].content = ent[h].content
      BY <1>1 DEF ReplInv, LinesWhole, h, L, k
    <3>3. QED
      BY <3>1, <3>2
  <2>6. \A j \in 0..(sl'.cnt - 1) : mem'[L * Beats + j].content = ent[h].content
    <3>1. \A j \in 0..(sl'.cnt - 1) : j = k \/ j \in 0..(k - 1)
      BY <1>1, <1>2
    <3>2. QED
      BY <1>4, <2>5, <3>1
  <2>7. QED
    BY <1>1, <2>2, <2>4, <2>6 DEF LinesWhole, h, L
<1>8. QED
  BY <1>4, <1>5, <1>6, <1>7

(* With the last beat the line is whole, and its entry done. *)
LEMMA LastBeatStep ==
  ASSUME ReplMemAssumption, ReplInv, LastBeat
  PROVE  /\ (OwnWords /\ EntriesApart /\ QueueApart /\ BurstInStep /\ LinesWhole)'
         /\ mem' \in [0..(Lines * Beats - 1) -> [line : Line, content : {0, 1}, beat : Beat]]
         /\ ent' \in [Entry -> EntryState] /\ wq' \in Seq(Entry)
<1> DEFINE h == Head(wq)
           L == ent[h].line
           k == sl.cnt
<1>1. /\ awq' = awq /\ wq' = Tail(wq) /\ ff'.offset = 0 /\ ff.offset = Beats - 1
      /\ sl.state = "WRITE" /\ sl'.state = "SEND_B"
      /\ ent' = [e \in Entry |-> IF e = h THEN [ent[e] EXCEPT !.done = TRUE] ELSE ent[e]]
  BY DEF LastBeat
<1>2. wq # <<>> /\ awq = Tail(wq) /\ k = Beats - 1 /\ k > 0 /\ k \in Int
  BY <1>1 DEF ReplInv, BurstInStep, TypeOK
<1>3. k \in Beat /\ k # 0
  BY <1>2 DEF Beat, ReplMemAssumption
<1>4. /\ h \in Entry /\ L \in Line /\ ent[h].vld /\ ent[h].enqueued /\ ~ent[h].done
      /\ mem' \in [0..(Lines * Beats - 1) -> [line : Line, content : {0, 1}, beat : Beat]]
      /\ OwnWords'
      /\ mem'[L * Beats + k].content = ent[h].content
      /\ \A m \in Line, j \in Beat : m # L \/ j # k => mem'[m * Beats + j] = mem[m * Beats + j]
      /\ \A m \in Line : mem'[m * Beats] = mem[m * Beats]
  BY <1>2, <1>3, HeadBeat DEF LastBeat
<1>5. /\ wq \in Seq(Entry) /\ h = wq[1] /\ 1 \in 1..Len(wq)
      /\ wq' \in Seq(Entry) /\ Len(wq') = Len(wq) - 1
      /\ \A i \in 1..Len(wq') : wq'[i] = wq[i + 1] /\ i + 1 \in 1..Len(wq)
  BY <1>1, <1>2, HeadAndTail DEF ReplInv, TypeOK
<1> HIDE DEF h, L, k
<1>6. ent \in [Entry -> EntryState]
  BY DEF ReplInv, TypeOK
<1>7. [ent[h] EXCEPT !.done = TRUE] \in EntryState
  BY <1>4, <1>6 DEF EntryState
<1>8. ent' \in [Entry -> EntryState]
  BY <1>1, <1>6, <1>7
<1>9. /\ ent'[h].done /\ \A e \in Entry \ {h} : ent'[e].done = ent[e].done
      /\ \A e \in Entry : /\ ent'[e].vld = ent[e].vld /\ ent'[e].line = ent[e].line
                          /\ ent'[e].content = ent[e].content /\ ent'[e].enqueued = ent[e].enqueued
  BY <1>1, <1>4, <1>6 DEF EntryState
<1>10. EntriesApart'
  BY <1>4, <1>9 DEF ReplInv, EntriesApart
<1>11. QueueApart'
  <2>1. \A i \in 1..Len(wq') : wq'[i] \in Entry /\ wq'[i] # h
    BY <1>5 DEF ReplInv, QueueApart
  <2>2. \A i \in 1..Len(wq') : ent'[wq'[i]].enqueued /\ ~ent'[wq'[i]].done
    BY <1>5, <1>9, <2>1 DEF ReplInv, QueueApart
  <2>3. \A i, j \in 1..Len(wq') : wq'[i] = wq'[j] => i = j
    BY <1>5 DEF ReplInv, QueueApart
  <2>4. QED
    BY <2>2, <2>3 DEF QueueApart
<1>12. BurstInStep'
  BY <1>1, <1>2 DEF BurstInStep
<1>13. LinesWhole'
  <2>1. \A l \in Line : (Written(l) <=> l = L) /\ ~Written(l)'
    BY <1>1 DEF Written, h, L
  <2>2. \A j \in Beat : mem'[L * Beats + j].content = ent[h].content
    <3>1. \A j \in Beat : j = k \/ (j \in 0..(k - 1) /\ j # k)
      BY <1>2 DEF Beat, ReplMemAssumption
    <3>2. \A j \in 0..(k - 1) : mem[L * Beats + j].content = ent[h].content
      BY <1>1 DEF ReplInv, LinesWhole, h, L, k
    <3>3. QED
      BY <1>4, <3>1, <3>2
  <2>3. mem'[L * Beats].content = ent[h].content
    <3>1. 0 \in Beat /\ L * Beats + 0 = L * Beats
      BY <1>4 DEF Beat, Line, ReplMemAssumption
    <3>2. QED
      BY <2>2, <3>1
  <2>4. \A l \in Line : \A j \in Beat : mem'[l * Beats + j].content = mem'[l * Beats].content
    <3>1. \A l \in Line : l # L => \A j \in Beat : mem'[l * Beats + j].content = mem'[l * Beats].content
      BY <1>4, <2>1 DEF ReplInv, LinesWhole
    <3>2. QED
      BY <2>2, <2>3, <3>1
  <2>5. \A e \in Entry : ent[e].line \in Line
    BY <1>6 DEF EntryState
  <2>6. \A e \in Entry : ent'[e].done => mem'[ent'[e].line * Beats].content = ent'[e].content
    BY <1>4, <1>9, <2>3, <2>5 DEF ReplInv, LinesWhole, L
  <2>7. QED
    BY <1>1, <2>4, <2>6 DEF LinesWhole
<1>14. QED
  BY <1>4, <1>5, <1>8, <1>10, <1>11, <1>12, <1>13

(* A clock of both sides. *)
LEMMA ClockStep ==
  ASSUME ReplMemAssumption, ReplInv, NEW hold \in BOOLEAN, NEW ar \in BOOLEAN, Clock(hold, ar)
  PROVE  ReplInv'
<1>1. /\ ff' \in [aw_re : BOOLEAN, w_re : BOOLEAN, wvalid : BOOLEAN, offset : Beat]
      /\ sl' \in [state : SlaveState, addr : Int, cnt : Int]
      /\ ff'.wvalid <=> wq # <<>>
  BY ClockSteps
<1>2. awq' \in Seq(Entry)
  <2>1. awq # <<>> => Tail(awq) \in Seq(Entry)
    BY HeadAndTail DEF ReplInv, TypeOK
  <2>2. awq' = awq \/ (awq # <<>> /\ awq' = Tail(awq))
    BY DEF Clock, AwReady, AwValid
  <2>3. QED
    BY <2>1, <2>2 DEF ReplInv, TypeOK
<1>3. CASE Quiet \/ AddressTaken
  <2>1. (OwnWords /\ EntriesApart /\ QueueApart /\ BurstInStep /\ LinesWhole)'
    BY <1>1, <1>3, QuietStep, AddressTakenStep
  <2>2. UNCHANGED <<ent, wq, mem>>
    BY <1>3 DEF Quiet, AddressTaken
  <2>3. TypeOK'
    BY <1>1, <1>2, <2>2 DEF ReplInv, TypeOK
  <2>4. QED
    BY <2>1, <2>3 DEF ReplInv
<1>4. CASE FirstBeat \/ NextBeat
  <2>1. /\ (OwnWords /\ EntriesApart /\ QueueApart /\ BurstInStep /\ LinesWhole)'
        /\ mem' \in [0..(Lines * Beats - 1) -> [line : Line, content : {0, 1}, beat : Beat]]
    BY <1>1, <1>4, FirstBeatStep, NextBeatStep
  <2>2. UNCHANGED <<ent, wq>>
    BY <1>4 DEF FirstBeat, NextBeat
  <2>3. TypeOK'
    BY <1>1, <1>2, <2>1, <2>2 DEF ReplInv, TypeOK
  <2>4. QED
    BY <2>1, <2>3 DEF ReplInv
<1>5. CASE LastBeat
  <2>1. /\ (OwnWords /\ EntriesApart /\ QueueApart /\ BurstInStep /\ LinesWhole)'
        /\ mem' \in [0..(Lines * Beats - 1) -> [line : Line, content : {0, 1}, beat : Beat]]
        /\ ent' \in [Entry -> EntryState] /\ wq' \in Seq(Entry)
    BY <1>5, LastBeatStep
  <2>2. TypeOK'
    BY <1>1, <1>2, <2>1 DEF TypeOK
  <2>3. QED
    BY <2>1, <2>2 DEF ReplInv
<1>6. QED
  BY <1>3, <1>4, <1>5, ClockSteps

(* Every step keeps the invariant. *)
LEMMA ReplStep ==
  ASSUME ReplMemAssumption, ReplInv, [Next]_vars PROVE ReplInv'
<1>1. CASE \E e \in Entry : (\E l \in Line : NewMshr(e, l)) \/ Enqueue(e) \/ NothingDirty(e) \/ Free(e)
  BY <1>1, NewMshrStep, EnqueueStep, NothingDirtyStep, FreeStep
<1>2. CASE \E hold, ar \in BOOLEAN : Clock(hold, ar)
  BY <1>2, ClockStep
<1>3. CASE UNCHANGED vars
  <2>1. UNCHANGED <<ent, awq, wq, ff, sl, mem>>
    BY <1>3 DEF vars
  <2>2. (\A l : Written(l)' <=> Written(l)) /\ TypeOK' /\ OwnWords' /\ EntriesApart' /\ QueueApart' /\ BurstInStep'
    BY <2>1 DEF ReplInv, TypeOK, OwnWords, EntriesApart, QueueApart, BurstInStep, Written
  <2>3. LinesWhole'
    BY <2>1, <2>2 DEF ReplInv, LinesWhole
  <2>4. QED
    BY <2>2, <2>3 DEF ReplInv
<1>4. QED
  BY <1>1, <1>2, <1>3 DEF Next

(* When a replacement MSHR is done, memory has every beat of its line, for *)
(* any number of entries, lines and beats and whatever stalls the          *)
(* controller makes (rvh_scu_repl_mshr.sv, axi2mem.sv).                    *)
THEOREM LineIsWritten ==
  ASSUME ReplMemAssumption PROVE Spec => []WrittenWhole
<1>1. Init => ReplInv
  BY ReplInit
<1>2. ReplInv /\ [Next]_vars => ReplInv'
  BY ReplStep
<1>3. ReplInv => WrittenWhole
  <2> SUFFICES ASSUME ReplInv, NEW e \in Entry, ent[e].vld, ent[e].done, NEW k \in 0..(Beats - 1)
               PROVE  mem[ent[e].line * Beats + k] = Word(ent[e].line, ent[e].content, k)
    BY DEF WrittenWhole
  <2> DEFINE l == ent[e].line
             a == l * Beats + k
  <2>1. l \in Line /\ k \in Beat
    BY DEF ReplInv, TypeOK, EntryState, Beat
  <2>2. ~Written(l)
    <3> SUFFICES ASSUME Written(l) PROVE FALSE
      OBVIOUS
    <3>1. Head(wq) \in Entry /\ wq # <<>> /\ l = ent[Head(wq)].line
      BY HeadAndTail DEF Written, ReplInv, BurstInStep, TypeOK
    <3>2. ent[Head(wq)].enqueued /\ ~ent[Head(wq)].done
      BY <3>1, HeadAndTail DEF ReplInv, QueueApart, TypeOK
    <3>3. QED
      BY <3>1, <3>2 DEF ReplInv, EntriesApart
  <2>3. mem[a].content = ent[e].content /\ mem[a].line = l /\ mem[a].beat = k
    BY <2>1, <2>2 DEF ReplInv, LinesWhole, OwnWords
  <2>4. a \in 0..(Lines * Beats - 1)
    BY <2>1, AddressInMemory
  <2>5. mem[a] \in [line : Line, content : {0, 1}, beat : Beat]
    BY <2>4 DEF ReplInv, TypeOK
  <2> HIDE DEF a, l
  <2>6. mem[a] = Word(l, ent[e].content, k)
    BY <2>3, <2>5 DEF Word
  <2>7. QED
    BY <2>6 DEF a, l
<1>4. QED
  BY <1>1, <1>2, <1>3, PTL DEF Spec

(* Every word of memory came from its own line and beat: the data that     *)
(* follows an address is that of the entry whose address it is.            *)
THEOREM BeatsAtHome ==
  ASSUME ReplMemAssumption PROVE Spec => []OwnAddress
<1>1. Init => ReplInv
  BY ReplInit
<1>2. ReplInv /\ [Next]_vars => ReplInv'
  BY ReplStep
<1>3. ReplInv => OwnAddress
  <2> SUFFICES ASSUME ReplInv, NEW a \in 0..(Lines * Beats - 1)
               PROVE  mem[a].line = a \div Beats /\ mem[a].beat = a % Beats
    BY DEF OwnAddress, ReplInv, TypeOK
  <2> DEFINE l == a \div Beats
             k == a % Beats
  <2>1. l \in Line /\ k \in Beat /\ a = l * Beats + k
    BY AddressOfBeat
  <2> HIDE DEF l, k
  <2>2. mem[a].line = l /\ mem[a].beat = k
    BY <2>1 DEF ReplInv, OwnWords
  <2>3. QED
    BY <2>2 DEF l, k
<1>4. QED
  BY <1>1, <1>2, <1>3, PTL DEF Spec

-----------------------------------------------------------------------------
(* Proofs: the two units side by side *)

(* The set of ways of the run finds and keeps its lines, since a set of any *)
(* size does.                                                               *)
THEOREM WaysFound == UnitSpec => LinesFound
<1>1. Ways!WaysAssumption /\ {"ld", "st"} \subseteq {"ld", "st", "sc"}
  BY WaysSize
<1>2. Ways!Spec => []Ways!SnoopFindsLine /\ [][Ways!LinesKept]_Ways!vars
  BY <1>1, Ways!SnoopFinds, Ways!LinesAreKept
<1>3. UnitInit => (part = "ways" => Ways!Init)
  BY DEF UnitInit
<1>4. [UnitNext]_UnitVars => /\ part = "ways" => [Ways!Next]_Ways!vars
                             /\ part = "ways" <=> (part = "ways")'
  BY DEF UnitNext, UnitVars, ways, Ways!vars
<1>5. [UnitNext]_UnitVars /\ [Ways!LinesKept]_Ways!vars => [part = "ways" => Ways!LinesKept]_UnitVars
  BY DEF UnitVars, ways, Ways!vars, Ways!LinesKept
<1>6. [UnitNext]_UnitVars /\ ~(part = "ways") => [part = "ways" => Ways!LinesKept]_UnitVars
  BY DEF UnitVars, ways, Ways!vars, Ways!LinesKept
<1>7. QED
  BY <1>2, <1>3, <1>4, <1>5, <1>6, PTL DEF UnitSpec, Ways!Spec, LinesFound

(* Also beside the other unit memory is written whole and at its own        *)
(* addresses, for any number of entries, lines and beats.                   *)
THEOREM UnitWriteBacks == UnitSpec => []WriteBacksRight
<1>1. Spec => []WrittenWhole /\ []OwnAddress
  BY MemSize, LineIsWritten, BeatsAtHome
<1>2. UnitInit => Init
  BY DEF UnitInit
<1>3. [UnitNext]_UnitVars => [Next]_vars
  BY DEF UnitNext, UnitVars
<1>4. WrittenWhole /\ OwnAddress => WriteBacksRight
  BY DEF WriteBacksRight
<1>5. QED
  BY <1>1, <1>2, <1>3, <1>4, PTL DEF Spec, UnitSpec
=============================================================================
