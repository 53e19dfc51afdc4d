------------------------------ MODULE ReplMem -------------------------------
(***************************************************************************)
(* How a replacement MSHR of the SCU writes its line to memory, clock by   *)
(* clock: the address and data FIFOs and the beat counter of               *)
(* rvh_scu_repl_mshr.sv on one side, the memory controller axi2mem.sv on   *)
(* the other.  An entry is freed when its last beat has been taken, its    *)
(* address is read from the entry when the address channel is ready.       *)
(***************************************************************************)
EXTENDS Integers, Sequences

CONSTANTS
  Entry,     \* replacement MSHRs, MSHR_NUM
  Lines,     \* lines of memory
  Beats      \* beats of a line, BURST_SIZE

ReplMemAssumption == Lines \in Nat \ {0} /\ Beats \in Nat \ {0, 1}

Line == 0..(Lines - 1)

VARIABLES
  ent,       \* the entries: valid, line, which of two contents, enqueued, dirty_writeback_mem_done
  awq, wq,   \* req_to_write_mem_fifo_aw, req_to_write_mem_fifo_w
  ff,        \* registers of the channels: aw_re_ff, w_re_ff, wvalid, wdata_offset
  sl,        \* axi2mem: state_q, ax_req_q.addr, cnt_q
  mem        \* what is at each address: line, content and beat it came from

vars == <<ent, awq, wq, ff, sl, mem>>

NoEntry == [vld |-> FALSE, line |-> 0, content |-> 0, enqueued |-> FALSE, done |-> FALSE]
Word(l, content, beat) == [line |-> l, content |-> content, beat |-> beat]

Init ==
  /\ ent = [e \in Entry |-> NoEntry] /\ awq = <<>> /\ wq = <<>>
  /\ ff = [aw_re |-> FALSE, w_re |-> FALSE, wvalid |-> FALSE, offset |-> 0]
  /\ sl = [state |-> "IDLE", addr |-> 0, cnt |-> 0]
  /\ mem = [a \in 0..(Lines * Beats - 1) |-> Word(a \div Beats, 0, a % Beats)]

-----------------------------------------------------------------------------
(* Entries.  Lines of entries differ: the SCU holds the set. *)

NewMshr(e, l) ==
  /\ ~ent[e].vld /\ \A f \in Entry : ent[f].vld => ent[f].line # l
  /\ ent' = [ent EXCEPT ![e] = [NoEntry EXCEPT !.vld = TRUE, !.line = l, !.content = 1 - mem[l * Beats].content]]
  /\ UNCHANGED <<awq, wq, ff, sl, mem>>

\* All answers are there: the line is queued for both channels ...
Enqueue(e) ==
  /\ ent[e].vld /\ ~ent[e].enqueued
  /\ ent' = [ent EXCEPT ![e].enqueued = TRUE] /\ awq' = Append(awq, e) /\ wq' = Append(wq, e)
  /\ UNCHANGED <<ff, sl, mem>>
\* ... or nothing of it is dirty.
NothingDirty(e) ==
  /\ ent[e].vld /\ ~ent[e].enqueued
  /\ ent' = [ent EXCEPT ![e].enqueued = TRUE, ![e].done = TRUE, ![e].content = mem[ent[e].line * Beats].content]
  /\ UNCHANGED <<awq, wq, ff, sl, mem>>

\* Tag and directory are written after dirty_writeback_mem_done.
Free(e) == /\ ent[e].vld /\ ent[e].done /\ ent' = [ent EXCEPT ![e] = NoEntry]
           /\ UNCHANGED <<awq, wq, ff, sl, mem>>

-----------------------------------------------------------------------------
(* The channels *)

AwValid == awq # <<>> /\ ~ff.aw_re
WValidNxt == wq # <<>>     \* the three cases of mem_req_nxt.wvalid
WValid == ff.wvalid /\ WValidNxt /\ ~ff.w_re

\* A mutant: the last beat is the one before.
WLastFault == ff.offset = Beats - 2

WLast == ff.offset = Beats - 1

\* The controller: it takes data with the address or after it, and reads come first.
\* hold is the pause of axi_mem.v in which it takes nothing.
AwReady(hold, ar) == ~hold /\ sl.state = "IDLE" /\ ~ar /\ AwValid
WReady(hold, ar) == ~hold /\ (AwReady(hold, ar) \/ sl.state \in {"WAIT_WVALID", "WRITE"})

\* A mutant: the beat counter does not wait for the controller.
OffsetNxtFault(wready) ==
  IF (~ff.wvalid \/ WLast) /\ wready THEN 0
  ELSE IF ff.wvalid /\ ~ff.w_re THEN (ff.offset + 1) % Beats
  ELSE ff.offset

OffsetNxt(wready) ==
  IF (~ff.wvalid \/ WLast) /\ wready THEN 0
  ELSE IF wready /\ ff.wvalid /\ ~ff.w_re THEN (ff.offset + 1) % Beats
  ELSE ff.offset

Done(wre) == IF wre THEN {Head(wq)} ELSE {}

Slave(hold, ar, aw, w) ==
  LET next(last) == IF last THEN "SEND_B" ELSE "WRITE" IN
  CASE sl.state = "IDLE" /\ ar /\ ~hold -> [sl EXCEPT !.state = "READ", !.cnt = 1]
    [] sl.state = "IDLE" /\ aw -> [state |-> IF w THEN next(WLast) ELSE "WAIT_WVALID",
                                   addr |-> ent[Head(awq)].line * Beats, cnt |-> 1]
    [] sl.state = "WAIT_WVALID" /\ w -> [sl EXCEPT !.state = next(WLast), !.cnt = 1]
    [] sl.state = "WRITE" /\ w -> [sl EXCEPT !.state = next(WLast), !.cnt = @ + 1]
    [] sl.state = "READ" -> [sl EXCEPT !.state = IF sl.cnt = Beats THEN "IDLE" ELSE "READ", !.cnt = @ + 1]
    [] sl.state = "SEND_B" -> [sl EXCEPT !.state = "IDLE"]
    [] OTHER -> sl

WriteAddr == CASE sl.state = "IDLE" -> ent[Head(awq)].line * Beats
               [] sl.state = "WAIT_WVALID" -> sl.addr
               [] OTHER -> sl.addr + sl.cnt

Clock(hold, ar) ==
  LET aw == AwReady(hold, ar)
      w == WValid /\ WReady(hold, ar)
      wre == w /\ WLast
  IN /\ awq' = IF aw THEN Tail(awq) ELSE awq
     /\ wq' = IF wre THEN Tail(wq) ELSE wq
     /\ ff' = [aw_re |-> aw, w_re |-> wre, wvalid |-> WValidNxt, offset |-> OffsetNxt(WReady(hold, ar))]
     /\ sl' = Slave(hold, ar, aw, w)
     /\ mem' = IF ~w THEN mem
               ELSE LET e == ent[Head(wq)] IN
                    [mem EXCEPT ![WriteAddr % (Lines * Beats)] = Word(e.line, e.content, ff.offset)]
     /\ ent' = [e \in Entry |-> IF e \in Done(wre) THEN [ent[e] EXCEPT !.done = TRUE] ELSE ent[e]]

Next ==
  \/ \E e \in Entry : (\E l \in Line : NewMshr(e, l)) \/ Enqueue(e) \/ NothingDirty(e) \/ Free(e)
  \/ \E hold, ar \in BOOLEAN : Clock(hold, ar)

Spec == Init /\ [][Next]_vars

-----------------------------------------------------------------------------
(* Properties *)

(* When an entry is done, and so before it is freed and a read of the line *)
(* can be sent, memory holds all beats of its line, whatever stalls of     *)
(* either channel came in between.                                         *)
WrittenWhole == \A e \in Entry : ent[e].vld /\ ent[e].done =>
  \A k \in 0..(Beats - 1) : mem[ent[e].line * Beats + k] = Word(ent[e].line, ent[e].content, k)

(* No beat goes to a line other than its own: the entry whose address is   *)
(* taken is the one whose data follows, and neither is read from an entry  *)
(* that has been freed and given to another line.                          *)
OwnAddress == \A a \in DOMAIN mem : mem[a].line = a \div Beats /\ mem[a].beat = a % Beats
=============================================================================
