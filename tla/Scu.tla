-------------------------------- MODULE Scu --------------------------------
(***************************************************************************)
(* The snoop control unit, seen from one line: the LLC way that holds it    *)
(* (data, dirty bit, directory entry), the MSHR that serves a transaction   *)
(* on it, the replacement MSHR that serves its displacement from the LLC,   *)
(* and memory (rvh_scu.sv, rvh_scu_mshr.sv, rvh_scu_repl_mshr.sv).          *)
(*                                                                          *)
(* A request whose LLC set is held by the pipeline, an MSHR or a            *)
(* replacement MSHR stalls at s0, and so does an eviction whose set is in   *)
(* the pipeline; so the walk through s0, s1 and s2 is one step here, and a  *)
(* line has at most one MSHR.  The FIFOs of the MSHR file are kept as the   *)
(* entries they hold for this line.                                         *)
(***************************************************************************)
EXTENDS CcPkg

CONSTANTS
    Replace,     \* BOOLEAN: other lines displace this one from the LLC
    Overtake     \* BOOLEAN: an eviction may reach the SCU before the MSHR of
                 \* the same cache's transaction has queued its update

ASSUME ScuAssumption == Replace \in BOOLEAN /\ Overtake \in BOOLEAN

VARIABLES
    mshr,        \* the MSHR of the line
    respq,       \* its entries in resp_to_requestor_fifo
    dataq,       \* its entry in data_to_requestor_fifo
    tagq,        \* its entry in req_to_write_tag_ram_fifo
    ramq,        \* its entry in req_to_write_data_ram_fifo
    repl,        \* the replacement MSHR of the line
    replResp,    \* its entry in its resp_to_requestor_fifo
    llc,         \* the LLC way
    mem          \* the line in memory

scuVars == <<mshr, respq, dataq, tagq, ramq, repl, replResp, llc, mem>>

\* wait: wait_for_{wb_data,mem_read_data,llc_read_data,resp_ack};
\* upd: need_to_update_{data,dir}.  The tag is written with the directory.
Mshr ==
    [valid : BOOLEAN, rtype : ReqType \cup EvictType,
     cid : Cache \cup {NoCache}, wb_cid : Cache \cup {NoCache},
     full : SUBSET Burst,
     owner : BOOLEAN, sharers : SUBSET Cache, dirty : BOOLEAN,
     data : Line, data_valid : SUBSET Burst, data_dirty : SUBSET Burst,
     snp_need : SUBSET Cache, snp_sent : SUBSET Cache,
     snp_resp : SUBSET Cache, snp_data : SUBSET Cache,
     snp_inv : SUBSET Cache, evict : SUBSET Cache, wb_rcvd : BOOLEAN,
     inv_snp : BOOLEAN, wait : SUBSET {"wb", "mem", "llc", "ack"},
     upd : SUBSET {"data", "dir"}, resp_enq : BOOLEAN, upd_enq : BOOLEAN]

NoMshr ==
    [valid |-> FALSE, rtype |-> "None", cid |-> NoCache, wb_cid |-> NoCache,
     full |-> {}, owner |-> FALSE, sharers |-> {}, dirty |-> FALSE,
     data |-> AnyLine, data_valid |-> {}, data_dirty |-> {},
     snp_need |-> {}, snp_sent |-> {}, snp_resp |-> {}, snp_data |-> {},
     snp_inv |-> {}, evict |-> {}, wb_rcvd |-> FALSE, inv_snp |-> FALSE,
     wait |-> {}, upd |-> {}, resp_enq |-> FALSE, upd_enq |-> FALSE]

\* mem: dirty_writeback_mem_enqueued, dirty_writeback_mem_done.
Repl ==
    [valid : BOOLEAN, wb_cid : Cache \cup {NoCache},
     data : Line, data_valid : SUBSET Burst, data_dirty : SUBSET Burst,
     snp_need : SUBSET Cache, snp_sent : SUBSET Cache,
     snp_resp : SUBSET Cache, snp_data : SUBSET Cache,
     snp_inv : SUBSET Cache, evict : SUBSET Cache, wb_rcvd : BOOLEAN,
     wait : SUBSET {"wb", "llc"}, mem : {"idle", "enqueued", "done"}]

NoRepl ==
    [valid |-> FALSE, wb_cid |-> NoCache, data |-> AnyLine,
     data_valid |-> {}, data_dirty |-> {}, snp_need |-> {}, snp_sent |-> {},
     snp_resp |-> {}, snp_data |-> {}, snp_inv |-> {}, evict |-> {},
     wb_rcvd |-> FALSE, wait |-> {}, mem |-> "idle"]

Llc == [valid : BOOLEAN, dirty : BOOLEAN, owner : BOOLEAN,
        sharers : SUBSET Cache, data : Line]

ScuInit ==
    /\ mshr = NoMshr
    /\ respq = 0
    /\ dataq = FALSE
    /\ tagq = FALSE
    /\ ramq = FALSE
    /\ repl = NoRepl
    /\ replResp = FALSE
    /\ llc = [valid |-> FALSE, dirty |-> FALSE, owner |-> FALSE,
              sharers |-> {}, data |-> AnyLine]
    /\ mem = AnyLine

ScuTypeOK ==
    /\ mshr \in Mshr
    /\ respq \in Nat
    /\ dataq \in BOOLEAN
    /\ tagq \in BOOLEAN
    /\ ramq \in BOOLEAN
    /\ repl \in Repl
    /\ replResp \in BOOLEAN
    /\ llc \in Llc
    /\ mem \in Line

-----------------------------------------------------------------------------
\* Allocation (s2): how the MSHR is configured from the directory entry.

DirHit == llc.valid /\ llc.sharers # {}
LlcHit == llc.valid /\ (~llc.owner \/ llc.sharers = {})

\* An upgrade whose requestor is no longer a sharer needs the data as well.
Promoted(rtype) == IF rtype = "CleanUnique" THEN "ReadUnique" ELSE rtype

BlankMshr(rtype, c, full) ==
    [NoMshr EXCEPT !.valid = TRUE, !.rtype = rtype, !.cid = c,
                   !.full = full, !.owner = llc.owner,
                   !.sharers = llc.sharers, !.dirty = llc.dirty]

\* 2'b00: fetch the line from memory
MissMshr(m) ==
    [m EXCEPT !.wait = {"mem", "ack"}, !.upd = {"data", "dir"},
              !.owner = FALSE, !.sharers = {}, !.dirty = FALSE,
              !.rtype = Promoted(@)]

\* 2'b01: the LLC alone has the line
LlcHitMshr(m) ==
    [m EXCEPT !.wait = {"llc", "ack"}, !.upd = {"dir"}, !.rtype = Promoted(@)]

SnoopingMshr(m, unique) ==
    [m EXCEPT !.snp_need = m.sharers \ {m.cid}, !.inv_snp = unique]

UniqueMshr(m) ==
    SnoopingMshr([m EXCEPT !.wait = {"llc", "ack"}, !.upd = {"dir"},
                           !.rtype = Promoted(@)], TRUE)

\* The requestor is a sharer: no data is needed, and with no other sharer
\* the answer is queued at once.
UpgradeMshr(m) ==
    LET u == [m EXCEPT !.wait = {"ack"}, !.upd = {"dir"}]
    IN  IF m.sharers = {m.cid} THEN [u EXCEPT !.resp_enq = TRUE]
        ELSE SnoopingMshr(u, TRUE)

EvictMshr(m) == [m EXCEPT !.upd = {"dir"}, !.evict = {m.cid}]

\* Fault: the clean bursts are not read from the data RAM.
WriteBackMshrFault(m) ==
    [m EXCEPT !.wait = {"wb"}, !.upd = {"data", "dir"},
              !.evict = {m.cid}, !.wb_cid = m.cid]

WriteBackMshr(m) ==
    [m EXCEPT !.wait = {"llc", "wb"}, !.upd = {"data", "dir"},
              !.evict = {m.cid}, !.wb_cid = m.cid]

\* Fault: an upgrade does not check that its requestor still is a sharer.
SharedMshrFault(m) ==
    CASE m.rtype = "ReadShared" -> LlcHitMshr(m)
      [] m.rtype = "ReadUnique" -> UniqueMshr(m)
      [] m.rtype = "CleanUnique" -> UpgradeMshr(m)
      [] m.rtype = "Evict" -> EvictMshr(m)
      [] OTHER -> m

\* 2'b11: shared, the LLC data is valid.  A write-back is not expected here:
\* the case leaves the MSHR with nothing to do.
SharedMshr(m) ==
    CASE m.rtype = "ReadShared" -> LlcHitMshr(m)
      [] m.rtype = "ReadUnique" -> UniqueMshr(m)
      [] m.rtype = "CleanUnique" ->
            IF m.cid \in m.sharers THEN UpgradeMshr(m) ELSE UniqueMshr(m)
      [] m.rtype = "Evict" -> EvictMshr(m)
      [] OTHER -> m

\* Fault: an upgrade is granted without data though another cache owns the
\* line.
OwnedMshrFault(m) ==
    CASE m.rtype = "ReadShared" -> SnoopingMshr(LlcHitMshr(m), FALSE)
      [] m.rtype = "ReadUnique" -> UniqueMshr(m)
      [] m.rtype = "CleanUnique" -> UpgradeMshr(m)
      [] m.rtype = "WriteBackPartial" -> WriteBackMshr(m)
      [] m.rtype = "Evict" -> EvictMshr(m)
      [] OTHER -> m

\* 2'b10: a private cache owns the line and may have modified it
OwnedMshr(m) ==
    CASE m.rtype = "ReadShared" -> SnoopingMshr(LlcHitMshr(m), FALSE)
      [] m.rtype \in {"ReadUnique", "CleanUnique"} -> UniqueMshr(m)
      [] m.rtype = "WriteBackPartial" -> WriteBackMshr(m)
      [] m.rtype = "Evict" -> EvictMshr(m)
      [] OTHER -> m

NewMshr(m) ==
    CASE ~DirHit /\ ~LlcHit -> MissMshr(m)
      [] ~DirHit /\ LlcHit  -> LlcHitMshr(m)
      [] DirHit /\ LlcHit   -> SharedMshr(m)
      [] DirHit /\ ~LlcHit  -> OwnedMshr(m)

\* Fault: the answer of a lone upgrade is not queued.
RespAtAllocFault(m) == IF "wb" \in m.wait THEN 1 ELSE 0

\* new_mshr_enqueue_resp_to_requestor_fifo: Comp_UD for a lone upgrade,
\* WriteBack_Ack for a write-back
RespAtAlloc(m) ==
    IF m.resp_enq \/ "wb" \in m.wait THEN 1 ELSE 0

Allocate(rtype, c, full) ==
    LET m == NewMshr(BlankMshr(rtype, c, full))
    IN  mshr' = m /\ respq' = RespAtAlloc(m)

\* Fault: the replacement MSHRs are not searched.
SetFreeFault == ~mshr.valid

\* No MSHR and no replacement MSHR holds the set of the line.
SetFree == ~mshr.valid /\ ~repl.valid

AcceptReq(c) ==
    /\ req[c].rtype # "None"
    /\ SetFree
    /\ Allocate(req[c].rtype, c, req[c].full)
    /\ req' = [req EXCEPT ![c] = NoReq]
    /\ UNCHANGED <<dataq, tagq, ramq, repl, replResp, llc, mem>>
    /\ UNCHANGED <<evt, snpAck, ack, wbData, snp, comp, wbAck>>

-----------------------------------------------------------------------------
\* Evictions (s0): answered by the MSHR that serves the line, if there is
\* one that has not yet queued its directory update.

\* Fault: an Evict is not acknowledged.
EvictAnswerFault(c) == wbAck' = wbAck

\* An Evict is acknowledged when it is taken from the evict FIFO.
EvictAnswer(c) ==
    wbAck' = IF evt[c] = "Evict"
             THEN [wbAck EXCEPT ![c] = [vld |-> TRUE, tid |-> "mshr"]]
             ELSE wbAck

IsWriteBack(c) == evt[c] = "WriteBackPartial"

\* The eviction is recorded in the entry m of either MSHR file.
GotEvict(m, c) ==
    IF IsWriteBack(c)
    THEN [m EXCEPT !.evict = @ \cup {c}, !.wait = @ \cup {"wb"}, !.wb_cid = c]
    ELSE [m EXCEPT !.evict = @ \cup {c}]

TakesEvict(m) == m.valid /\ "dir" \in m.upd /\ ~m.upd_enq

EvictTaken(c) ==
    /\ evt[c] # "None"
    /\ evt' = [evt EXCEPT ![c] = "None"]
    /\ EvictAnswer(c)
    /\ UNCHANGED <<req, snpAck, ack, wbData, snp, comp>>

EvictToMshr(c) ==
    /\ TakesEvict(mshr)
    /\ Overtake \/ mshr.cid # c
    /\ EvictTaken(c)
    /\ mshr'  = GotEvict(mshr, c)
    /\ respq' = IF IsWriteBack(c) THEN respq + 1 ELSE respq
    /\ UNCHANGED <<dataq, tagq, ramq, repl, replResp, llc, mem>>

EvictToRepl(c) ==
    /\ ~mshr.valid /\ repl.valid
    /\ EvictTaken(c)
    /\ repl' = GotEvict(repl, c)
    /\ replResp' = (replResp \/ IsWriteBack(c))
    /\ UNCHANGED <<mshr, respq, dataq, tagq, ramq, llc, mem>>

EvictNew(c) ==
    /\ SetFree
    /\ EvictTaken(c)
    /\ Allocate(evt[c], c, {})
    /\ UNCHANGED <<dataq, tagq, ramq, repl, replResp, llc, mem>>

-----------------------------------------------------------------------------
\* Snoops, and the data an MSHR collects.

\* Fault: a snoop that was sent is sent again.
SnpToSendFault(m) == m.snp_need

SnpToSend(m) == m.snp_need \ m.snp_sent

SendSnp(c) ==
    /\ c \in SnpToSend(mshr)
    /\ mshr' = [mshr EXCEPT !.snp_sent = @ \cup {c}]
    /\ snp'  = [snp EXCEPT ![c] =
                  [rtype |-> IF mshr.inv_snp THEN "SnpUnique" ELSE "SnpShared",
                   tid |-> "mshr"]]
    /\ UNCHANGED <<respq, dataq, tagq, ramq, repl, replResp, llc, mem>>
    /\ UNCHANGED <<req, evt, snpAck, ack, wbData, comp, wbAck>>

MemRead ==
    /\ "mem" \in mshr.wait
    /\ mshr' = [mshr EXCEPT !.data = mem, !.data_valid = Burst,
                            !.wait = @ \ {"mem"}]
    /\ UNCHANGED <<respq, dataq, tagq, ramq, repl, replResp, llc, mem>>
    /\ UNCHANGED chanVars

\* Fault: the data RAM overwrites what a private cache has supplied.
GotLlcDataFault(m) ==
    [m EXCEPT !.data = llc.data, !.data_valid = Burst, !.wait = @ \ {"llc"}]

\* The data RAM fills only the bursts no private cache has supplied.
GotLlcData(m) ==
    [m EXCEPT !.data = MergeBursts(@, llc.data, Burst \ m.data_valid),
              !.data_valid = Burst, !.wait = @ \ {"llc"}]

LlcRead ==
    /\ "llc" \in mshr.wait
    /\ mshr' = GotLlcData(mshr)
    /\ UNCHANGED <<respq, dataq, tagq, ramq, repl, replResp, llc, mem>>
    /\ UNCHANGED chanVars

\* Data of a snoop answer or of a write-back.
GotData(m, d) ==
    [m EXCEPT !.data = MergeBursts(@, d.data, d.dirty),
              !.data_valid = @ \cup d.dirty, !.data_dirty = @ \cup d.dirty,
              !.wb_rcvd = TRUE, !.wait = @ \ {"wb"}]

\* snp_data_receiving_list is overwritten, not accumulated.
GotSnpAck(m, c, a) ==
    CASE a.rtype = "FoundM" -> [GotData(m, a) EXCEPT !.snp_data = {c}]
      [] a.rtype = "FoundI" -> [m EXCEPT !.snp_resp = @ \cup {c},
                                         !.snp_inv = @ \cup {c}]
      [] OTHER -> [m EXCEPT !.snp_resp = @ \cup {c}]

\* Fault: what a private cache supplies is not written to the data RAM.
WithDataUpdateFault(m) == m

\* Only the MSHR of a transaction writes what it receives to the data RAM.
WithDataUpdate(m) == [m EXCEPT !.upd = @ \cup {"data"}]

RecvSnpAck(c) ==
    LET a == snpAck[c] IN
    /\ a.rtype # "None"
    /\ snpAck' = [snpAck EXCEPT ![c] = NoSnpAck]
    /\ \/ /\ a.tid = "mshr"
          /\ mshr' = IF a.rtype = "FoundM"
                     THEN WithDataUpdate(GotSnpAck(mshr, c, a))
                     ELSE GotSnpAck(mshr, c, a)
          /\ UNCHANGED repl
       \/ /\ a.tid = "repl"
          /\ repl' = GotSnpAck(repl, c, a)
          /\ UNCHANGED mshr
    /\ UNCHANGED <<respq, dataq, tagq, ramq, replResp, llc, mem>>
    /\ UNCHANGED <<req, evt, ack, wbData, snp, comp, wbAck>>

RecvWbData(c) ==
    LET d == wbData[c] IN
    /\ d.vld
    /\ wbData' = [wbData EXCEPT ![c] = NoWbData]
    /\ \/ /\ d.tid = "mshr"
          /\ mshr' = WithDataUpdate(GotData(mshr, d))
          /\ UNCHANGED repl
       \/ /\ d.tid = "repl"
          /\ repl' = GotData(repl, d)
          /\ UNCHANGED mshr
    /\ UNCHANGED <<respq, dataq, tagq, ramq, replResp, llc, mem>>
    /\ UNCHANGED <<req, evt, snpAck, ack, snp, comp, wbAck>>

RecvAck(c) ==
    /\ ack[c]
    /\ ack'  = [ack EXCEPT ![c] = FALSE]
    /\ mshr' = [mshr EXCEPT !.wait = @ \ {"ack"}]
    /\ UNCHANGED <<respq, dataq, tagq, ramq, repl, replResp, llc, mem>>
    /\ UNCHANGED <<req, evt, snpAck, wbData, snp, comp, wbAck>>

-----------------------------------------------------------------------------
\* The stages of an MSHR.

\* Fault: one answer to several snoops is enough.
AllAnsweredFault(m) == m.snp_need = {} \/ m.snp_resp \cup m.snp_data # {}

AllAnswered(m) ==
    m.snp_need = m.snp_sent /\ m.snp_sent = m.snp_resp \cup m.snp_data

\* Fault: an eviction that no FoundI promised blocks the MSHR.
UnexpectedEvictFault(m) == m.snp_inv = m.evict \/ m.wb_rcvd

\* Every cache that answered FoundI has evicted the line, or a write-back
\* has come.
AllEvicted(m) == m.snp_inv \subseteq m.evict \/ m.wb_rcvd

TransitionFinished(m) ==
    /\ m.valid
    /\ m.wait \cap {"wb", "mem", "llc"} = {}
    /\ AllAnswered(m)
    /\ AllEvicted(m)

RespFinished(m) == TransitionFinished(m) /\ "ack" \notin m.wait

\* Fault: the final response is queued again and again.
AtRespStageFault(m) == TransitionFinished(m) /\ "ack" \in m.wait

AtRespStage(m) == TransitionFinished(m) /\ "ack" \in m.wait /\ ~m.resp_enq

EnqueueResp ==
    /\ AtRespStage(mshr)
    /\ mshr'  = [mshr EXCEPT !.resp_enq = TRUE]
    /\ dataq' = (dataq \/ mshr.rtype \in {"ReadShared", "ReadUnique"})
    /\ respq' = IF mshr.rtype = "CleanUnique" THEN respq + 1 ELSE respq
    /\ UNCHANGED <<tagq, ramq, repl, replResp, llc, mem>>
    /\ UNCHANGED chanVars

\* Fault: the response FIFO is read while it is empty.
RespValidFault == mshr.valid

RespValid == respq > 0

\* One FIFO carries Comp_UD and WriteBack_Ack: which of them its head is
\* depends on wait_for_wb_data_en when it is sent.
SendResp ==
    /\ RespValid
    /\ respq' = respq - 1
    /\ \/ /\ "wb" \in mshr.wait
          /\ wbAck' = [wbAck EXCEPT ![mshr.wb_cid] =
                         [vld |-> TRUE, tid |-> "mshr"]]
          /\ UNCHANGED comp
       \/ /\ "wb" \notin mshr.wait
          /\ comp' = [comp EXCEPT ![mshr.cid] =
                        [NoComp EXCEPT !.rtype = "Comp_UD"]]
          /\ UNCHANGED wbAck
    /\ UNCHANGED <<mshr, dataq, tagq, ramq, repl, replResp, llc, mem>>
    /\ UNCHANGED <<req, evt, snpAck, ack, wbData, snp>>

\* Bursts the requestor will overwrite completely are not sent.
CompOf(m) ==
    [rtype |-> IF m.rtype = "ReadUnique" THEN "CompData_UD"
               ELSE IF m.sharers # {} THEN "CompData_SC" ELSE "CompData_UC",
     data  |-> m.data,
     valid |-> IF m.rtype = "ReadUnique" THEN m.data_valid \ m.full
               ELSE m.data_valid]

SendData ==
    /\ dataq
    /\ dataq' = FALSE
    /\ comp' = [comp EXCEPT ![mshr.cid] = CompOf(mshr)]
    /\ UNCHANGED <<mshr, respq, tagq, ramq, repl, replResp, llc, mem>>
    /\ UNCHANGED <<req, evt, snpAck, ack, wbData, snp, wbAck>>

\* The updates are queued once: final_update_enqueued.  A data update needs
\* a valid burst to be queued.
NeedsUpdate(m) ==
    /\ RespFinished(m) /\ ~m.upd_enq
    /\ "dir" \in m.upd \/ ("data" \in m.upd /\ m.data_valid # {})

QueueUpdate ==
    /\ tagq' = ("dir" \in mshr.upd)
    /\ ramq' = ("data" \in mshr.upd /\ mshr.data_valid # {})

FinalEnqueue ==
    /\ NeedsUpdate(mshr)
    /\ QueueUpdate
    /\ mshr' = [mshr EXCEPT !.upd_enq = TRUE]
    /\ UNCHANGED <<respq, dataq, repl, replResp, llc, mem>>
    /\ UNCHANGED chanVars

\* A write-back that is forwarded to the MSHR in the very cycle in which it
\* queues its updates.  (For an Evict the order makes no difference.)
FinalEnqueueWithWriteBack(c) ==
    /\ NeedsUpdate(mshr)
    /\ TakesEvict(mshr)
    /\ Overtake \/ mshr.cid # c
    /\ IsWriteBack(c)
    /\ EvictTaken(c)
    /\ QueueUpdate
    /\ mshr'  = [GotEvict(mshr, c) EXCEPT !.upd_enq = TRUE]
    /\ respq' = respq + 1
    /\ UNCHANGED <<dataq, repl, replResp, llc, mem>>

\* Fault: an eviction clears the whole sharer list.
NewSharersFault(m) ==
    IF m.rtype = "Evict" THEN {} ELSE m.sharers \cup {m.cid}

\* The directory entry an MSHR leaves behind.
NewSharers(m) ==
    LET kept == m.sharers \ ((IF m.inv_snp THEN m.snp_resp \cup m.snp_data
                                           ELSE {}) \cup m.evict)
    IN  IF m.rtype \in {"ReadShared", "ReadUnique", "CleanUnique"}
        THEN kept \cup ({m.cid} \ m.evict) ELSE kept

\* Fault: a line that is read is never handed out EXCLUSIVE.
NewOwnerFault(m) == m.rtype \in {"ReadUnique", "CleanUnique"}

NewOwner(m) ==
    CASE m.rtype = "ReadShared" -> m.sharers = {}
      [] m.rtype \in {"ReadUnique", "CleanUnique"} -> TRUE
      [] OTHER -> FALSE

\* Fault: a line the LLC had made dirty becomes clean.
NewDirtyFault(m) == "data" \in m.upd /\ m.data_dirty # {}

NewDirty(m) == m.dirty \/ ("data" \in m.upd /\ m.data_dirty # {})

TagWrite ==
    /\ tagq
    /\ tagq' = FALSE
    /\ llc'  = [llc EXCEPT !.valid = TRUE, !.dirty = NewDirty(mshr),
                           !.owner = NewOwner(mshr),
                           !.sharers = NewSharers(mshr)]
    /\ mshr' = [mshr EXCEPT !.upd = @ \ {"dir"}]
    /\ UNCHANGED <<respq, dataq, ramq, repl, replResp, mem>>
    /\ UNCHANGED chanVars

\* The whole line is written.  The tag write is never refused, the data write
\* may be (the replacement MSHRs read first): the data is never first.
DataWrite ==
    /\ ramq /\ ~tagq
    /\ ramq' = FALSE
    /\ llc'  = [llc EXCEPT !.data = mshr.data]
    /\ mshr' = [mshr EXCEPT !.upd = @ \ {"data"}]
    /\ UNCHANGED <<respq, dataq, tagq, repl, replResp, mem>>
    /\ UNCHANGED chanVars

\* Fault: the MSHR does not wait for its data RAM write.
FinalFinishedFault(m) == RespFinished(m) /\ "dir" \notin m.upd

FinalFinished(m) == RespFinished(m) /\ m.upd = {}

Dealloc ==
    /\ FinalFinished(mshr)
    /\ mshr' = NoMshr
    /\ UNCHANGED <<respq, dataq, tagq, ramq, repl, replResp, llc, mem>>
    /\ UNCHANGED chanVars

-----------------------------------------------------------------------------
\* Displacement from the LLC by a miss of another line of the set.

\* Fault: the dirty bit of the LLC is not handed to the replacement MSHR.
VictimReplFault ==
    [NoRepl EXCEPT !.valid = TRUE, !.wait = {"llc"},
                   !.snp_need = llc.sharers]

\* A victim nobody shares is dropped if clean and written back if dirty; a
\* shared one is first recalled from its sharers.  Until the other line's
\* MSHR writes the tag, requests for this line stall on the set.
VictimRepl ==
    [NoRepl EXCEPT !.valid = TRUE, !.wait = {"llc"},
                   !.snp_need = llc.sharers,
                   !.data_dirty = IF llc.dirty THEN Burst ELSE {}]

ReplStart ==
    /\ Replace
    /\ llc.valid /\ SetFree
    /\ llc'  = [llc EXCEPT !.valid = FALSE]
    /\ repl' = IF llc.sharers = {} /\ ~llc.dirty THEN NoRepl ELSE VictimRepl
    /\ UNCHANGED <<mshr, respq, dataq, tagq, ramq, replResp, mem>>
    /\ UNCHANGED chanVars

ReplSendSnp(c) ==
    /\ c \in SnpToSend(repl)
    /\ repl' = [repl EXCEPT !.snp_sent = @ \cup {c}]
    /\ snp'  = [snp EXCEPT ![c] = [rtype |-> "SnpUnique", tid |-> "repl"]]
    /\ UNCHANGED <<mshr, respq, dataq, tagq, ramq, replResp, llc, mem>>
    /\ UNCHANGED <<req, evt, snpAck, ack, wbData, comp, wbAck>>

ReplLlcRead ==
    /\ "llc" \in repl.wait
    /\ repl' = GotLlcData(repl)
    /\ UNCHANGED <<mshr, respq, dataq, tagq, ramq, replResp, llc, mem>>
    /\ UNCHANGED chanVars

ReplSendResp ==
    /\ replResp
    /\ replResp' = FALSE
    /\ wbAck' = [wbAck EXCEPT ![repl.wb_cid] = [vld |-> TRUE, tid |-> "repl"]]
    /\ UNCHANGED <<mshr, respq, dataq, tagq, ramq, repl, llc, mem>>
    /\ UNCHANGED <<req, evt, snpAck, ack, wbData, snp, comp>>

ReplMemEnqueue ==
    /\ TransitionFinished(repl) /\ repl.mem = "idle"
    /\ repl' = [repl EXCEPT !.mem =
                  IF repl.data_valid \cap repl.data_dirty # {}
                  THEN "enqueued" ELSE "done"]
    /\ UNCHANGED <<mshr, respq, dataq, tagq, ramq, replResp, llc, mem>>
    /\ UNCHANGED chanVars

\* The whole line is written, without byte strobes.
ReplMemWrite ==
    /\ repl.mem = "enqueued"
    /\ mem'  = repl.data
    /\ repl' = [repl EXCEPT !.mem = "done"]
    /\ UNCHANGED <<mshr, respq, dataq, tagq, ramq, replResp, llc>>
    /\ UNCHANGED chanVars

ReplDealloc ==
    /\ TransitionFinished(repl) /\ repl.mem = "done"
    /\ repl' = NoRepl
    /\ UNCHANGED <<mshr, respq, dataq, tagq, ramq, replResp, llc, mem>>
    /\ UNCHANGED chanVars

-----------------------------------------------------------------------------
ScuNext ==
    \/ \E c \in Cache :
          \/ AcceptReq(c)
          \/ EvictToMshr(c)
          \/ EvictToRepl(c)
          \/ EvictNew(c)
          \/ SendSnp(c)
          \/ RecvSnpAck(c)
          \/ RecvWbData(c)
          \/ RecvAck(c)
          \/ FinalEnqueueWithWriteBack(c)
          \/ ReplSendSnp(c)
    \/ MemRead
    \/ LlcRead
    \/ EnqueueResp
    \/ SendResp
    \/ SendData
    \/ FinalEnqueue
    \/ TagWrite
    \/ DataWrite
    \/ Dealloc
    \/ ReplStart
    \/ ReplLlcRead
    \/ ReplSendResp
    \/ ReplMemEnqueue
    \/ ReplMemWrite
    \/ ReplDealloc
=============================================================================
