------------------------ MODULE CoherentCacheProofs ------------------------
(***************************************************************************)
(* What holds of CoherentCache for every number of caches, every line       *)
(* geometry and every workload: types, the single components (the line in   *)
(* a bank, the entries of the MSHR files), coherence of the whole, the      *)
(* values, and that the caches and the SCU implement CoherentLine.          *)
(*                                                                          *)
(* Coherence needs one inductive invariant, CohInv, about all caches, all   *)
(* channels and both MSHR files together.  A part of it about one cache     *)
(* (CacheInv) is kept by steps of its bank, by steps of the SCU for it, and *)
(* by steps for another cache; a part about the entries (ScuInv) by steps   *)
(* of the SCU only.  DataInv does the same for the data: the value of a     *)
(* burst is with whoever carries it newer than the SCU, a dirty cache or a  *)
(* message, and otherwise in the place the SCU would supply it from (LowOf);*)
(* it says so, and what must be true of the entries for it to stay so.      *)
(***************************************************************************)
EXTENDS CoherentCache, TLAPS

-----------------------------------------------------------------------------
\* Lines and messages.

\* The register of an empty slot holds a line.
LEMMA AnyLineType == AnyVal \in Val /\ AnyLine \in Line
<1>1. AnyVal \in Val
  BY ValAssumption DEF AnyVal
<1>2. QED
  BY <1>1 DEF AnyLine, Line

\* Merging bursts or stores into a line gives a line.
LEMMA MergeType ==
  /\ \A x, y \in Line, p \in SUBSET Burst : MergeBursts(x, y, p) \in Line
  /\ \A x \in Line, m \in SUBSET Byte, v \in Val : MergeStore(x, m, v) \in Line
BY DEF MergeBursts, MergeStore, Line

\* A store touches bursts of the line, and overwrites some of them.
LEMMA BurstsOfMask ==
  \A mask : TouchedBy(mask) \in SUBSET Burst /\ FullyIn(mask) \in SUBSET Burst
BY DEF TouchedBy, FullyIn

\* The empty message is a message of its channel.
LEMMA EmptyTypes ==
  /\ NoReq \in ReqMsg
  /\ NoSnp \in SnpMsg
  /\ NoSnpAck \in SnpAckMsg
  /\ NoComp \in CompMsg
  /\ NoWbAck \in WbAckMsg
  /\ NoWbData \in WbDataMsg
  /\ NoMiss \in Miss
  /\ NoEwrq \in Ewrq
BY AnyLineType DEF NoReq, NoSnp, NoSnpAck, NoComp, NoWbAck, NoWbData, NoMiss,
   NoEwrq, ReqMsg, SnpMsg, SnpAckMsg, CompMsg, WbAckMsg, WbDataMsg, Miss, Ewrq,
   ReqType, SnpType, SnpAck, CompType, ScuTid, MissPhase, EwrqPhase

\* Free entries of the two MSHR files are entries.
LEMMA EmptyEntryTypes == NoMshr \in Mshr /\ NoRepl \in Repl
BY AnyLineType DEF NoMshr, Mshr, NoRepl, Repl, ReqType, EvictType

-----------------------------------------------------------------------------
\* Type correctness, one component at a time.

\* A step of a private cache keeps the types of its registers and of the
\* channels.
LEMMA L1TypeStep ==
  ASSUME ChanTypeOK, L1TypeOK, L1Next
  PROVE  ChanTypeOK' /\ L1TypeOK'
<1> USE EmptyTypes, AnyLineType, MergeType, BurstsOfMask
    DEF ChanTypeOK, L1TypeOK
<1>1. PICK c \in Cache :
        \/ \E mask \in StoreMask, v \in Val : StoreHit(c, mask, v)
        \/ \E mask \in StoreMask, v \in Val : StoreMiss(c, mask, v)
        \/ LoadMiss(c)
        \/ SendReq(c)
        \/ Refill(c)
        \/ FinishAck(c)
        \/ VictimPeek(c)
        \/ VictimEvict(c)
        \/ EwrqSend(c)
        \/ EwrqAck(c)
        \/ EwrqData(c)
        \/ Snoop(c)
  BY DEF L1Next
<1>2. ASSUME NEW mask \in StoreMask, NEW v \in Val, StoreHit(c, mask, v)
      PROVE  ChanTypeOK' /\ L1TypeOK'
  <2>1. mask \in SUBSET Byte
    BY MaskAssumption
  <2>2. DirtyAfter(drt[c], mask) \in SUBSET Burst
    BY FirstAssumption DEF DirtyAfter
  <2>3. QED
    BY <1>2, <2>1, <2>2 DEF StoreHit, chanVars, Mesi
<1>3. ASSUME NEW mask \in StoreMask, NEW v \in Val, StoreMiss(c, mask, v)
      PROVE  ChanTypeOK' /\ L1TypeOK'
  <2>1. mask \in SUBSET Byte
    BY MaskAssumption
  <2>2. QED
    BY <1>3, <2>1 DEF StoreMiss, chanVars, Miss, MissPhase
<1>4. CASE LoadMiss(c)
  <2>1. [NoMiss EXCEPT !.phase = "alloc"] \in Miss
    BY DEF Miss, MissPhase
  <2>2. QED
    BY <1>4, <2>1 DEF LoadMiss, chanVars
<1>5. CASE SendReq(c)
  <2>1. [mreq[c] EXCEPT !.phase = "sent"] \in Miss
    BY DEF Miss, MissPhase
  <2>2. ReqOf(mreq[c]) \in ReqMsg
    BY DEF ReqOf, ReqMsg, ReqType
  <2>3. QED
    BY <1>5, <2>1, <2>2 DEF SendReq
<1>6. CASE Refill(c)
  <2>1. [mreq[c] EXCEPT !.phase = "refilled"] \in Miss
    BY DEF Miss, MissPhase
  <2>2. RefillLine(mreq[c], dat[c], comp[c]) \in Line
    BY DEF RefillLine, Miss, CompMsg
  <2>3. RefillState(mreq[c], comp[c]) \in Mesi
    BY DEF RefillState, Mesi
  <2>4. \A d \in RefillDirty(mreq[c]) : d \in SUBSET Burst
    BY DEF RefillDirty
  <2>5. MergeStore(latest, mreq[c].mask, mreq[c].val) \in Line
    BY DEF Miss
  <2>6. QED
    BY <1>6, <2>1, <2>2, <2>3, <2>4, <2>5 DEF Refill
<1>7. CASE FinishAck(c)
  BY <1>7 DEF FinishAck
<1>8. CASE VictimPeek(c)
  BY <1>8 DEF VictimPeek, chanVars
<1>9. CASE VictimEvict(c)
  <2>1. [phase |-> "queued", wb |-> vic[c] = "dirty",
         data |-> dat[c], dirty |-> drt[c], tid |-> "mshr"] \in Ewrq
    BY DEF Ewrq, EwrqPhase, ScuTid
  <2>2. QED
    BY <1>9, <2>1 DEF VictimEvict, chanVars, Mesi
<1>10. CASE EwrqSend(c)
  <2>1. [ewrq[c] EXCEPT !.phase = "sent"] \in Ewrq
    BY DEF Ewrq, EwrqPhase
  <2>2. QED
    BY <1>10, <2>1 DEF EwrqSend, EvictType
<1>11. CASE EwrqAck(c)
  <2>1. AckedEwrq(ewrq[c], wbAck[c].tid) \in Ewrq
    BY DEF AckedEwrq, Ewrq, EwrqPhase, WbAckMsg
  <2>2. QED
    BY <1>11, <2>1 DEF EwrqAck
<1>12. CASE EwrqData(c)
  <2>1. [vld |-> TRUE, tid |-> ewrq[c].tid, data |-> ewrq[c].data,
         dirty |-> ewrq[c].dirty] \in WbDataMsg
    BY DEF WbDataMsg, Ewrq
  <2>2. QED
    BY <1>12, <2>1 DEF EwrqData
<1>13. CASE Snoop(c)
  <2>1. SnoopedState(st[c], snp[c].rtype) \in Mesi
    BY DEF SnoopedState, Mesi
  <2>2. SnoopAnswer(st[c], dat[c], drt[c], snp[c].tid) \in SnpAckMsg
    BY DEF SnoopAnswer, SnpAckMsg, SnpAck, SnpMsg
  <2>3. QED
    BY <1>13, <2>1, <2>2 DEF Snoop
<1>14. QED
  BY <1>1, <1>2, <1>3, <1>4, <1>5, <1>6, <1>7, <1>8, <1>9, <1>10, <1>11,
     <1>12, <1>13

\* Every case of the directory lookup configures an MSHR.
LEMMA NewMshrType ==
  ASSUME ScuTypeOK, NEW c \in Cache, NEW full \in SUBSET Burst,
         NEW rtype \in ReqType \cup EvictType
  PROVE  NewMshr(BlankMshr(rtype, c, full)) \in Mshr
<1> DEFINE m == BlankMshr(rtype, c, full)
<1>1. m \in Mshr
  BY EmptyEntryTypes DEF BlankMshr, Mshr, ScuTypeOK, Llc
<1>2a. \A t \in ReqType \cup EvictType : Promoted(t) \in ReqType \cup EvictType
  BY DEF Promoted, ReqType
<1>2. \A x \in Mshr : MissMshr(x) \in Mshr
  BY <1>2a DEF MissMshr, Mshr
<1>3. \A x \in Mshr : LlcHitMshr(x) \in Mshr
  BY <1>2a DEF LlcHitMshr, Mshr
<1>4. \A x \in Mshr, u \in BOOLEAN : SnoopingMshr(x, u) \in Mshr
  BY DEF SnoopingMshr, Mshr
<1>5. \A x \in Mshr : UniqueMshr(x) \in Mshr
  <2>1. \A x \in Mshr : [x EXCEPT !.wait = {"llc", "ack"}, !.upd = {"dir"},
                                  !.rtype = Promoted(@)] \in Mshr
    BY <1>2a DEF Mshr
  <2>2. QED
    BY <1>4, <2>1 DEF UniqueMshr
<1>6. \A x \in Mshr : UpgradeMshr(x) \in Mshr
  <2>1. \A x \in Mshr : [x EXCEPT !.wait = {"ack"}, !.upd = {"dir"}] \in Mshr
    BY DEF Mshr
  <2>2. \A x \in Mshr : [x EXCEPT !.resp_enq = TRUE] \in Mshr
    BY DEF Mshr
  <2>3. QED
    BY <1>4, <2>1, <2>2 DEF UpgradeMshr
<1>7. m.cid = c
  BY DEF BlankMshr, NoMshr
<1>8. EvictMshr(m) \in Mshr
  BY <1>1, <1>7 DEF EvictMshr, Mshr
<1>9. WriteBackMshr(m) \in Mshr
  BY <1>1, <1>7 DEF WriteBackMshr, Mshr
<1> HIDE DEF m
<1>10. SharedMshr(m) \in Mshr
  BY <1>1, <1>3, <1>5, <1>6, <1>8 DEF SharedMshr
<1>11. OwnedMshr(m) \in Mshr
  BY <1>1, <1>3, <1>4, <1>5, <1>8, <1>9 DEF OwnedMshr
<1>12. NewMshr(m) \in Mshr
  BY <1>2, <1>1, <1>3, <1>10, <1>11 DEF NewMshr
<1>13. QED
  BY <1>12 DEF m

\* The data and the answers an entry of either MSHR file receives.
LEMMA ReceiveTypes ==
  ASSUME ChanTypeOK, NEW c \in Cache, NEW m \in Mshr, NEW r \in Repl,
         ScuTypeOK
  PROVE  /\ GotEvict(m, c) \in Mshr
         /\ GotEvict(r, c) \in Repl
         /\ GotLlcData(m) \in Mshr
         /\ GotLlcData(r) \in Repl
         /\ GotData(m, wbData[c]) \in Mshr
         /\ GotData(r, wbData[c]) \in Repl
         /\ GotSnpAck(m, c, snpAck[c]) \in Mshr
         /\ GotSnpAck(r, c, snpAck[c]) \in Repl
<1>1. GotEvict(m, c) \in Mshr /\ GotEvict(r, c) \in Repl
  <2>1. GotEvict(m, c) \in Mshr
    BY DEF GotEvict, Mshr
  <2>2. GotEvict(r, c) \in Repl
    BY DEF GotEvict, Repl
  <2>3. QED
    BY <2>1, <2>2
<1>2. MergeBursts(m.data, llc.data, Burst \ m.data_valid) \in Line
  BY MergeType DEF Mshr, ScuTypeOK, Llc
<1>3. MergeBursts(r.data, llc.data, Burst \ r.data_valid) \in Line
  BY MergeType DEF Repl, ScuTypeOK, Llc
<1>4. GotLlcData(m) \in Mshr
  BY <1>2 DEF GotLlcData, Mshr
<1>5. GotLlcData(r) \in Repl
  BY <1>3 DEF GotLlcData, Repl
<1>6. ASSUME NEW d, d.data \in Line, d.dirty \in SUBSET Burst
      PROVE  GotData(m, d) \in Mshr /\ GotData(r, d) \in Repl
  <2>1. MergeBursts(m.data, d.data, d.dirty) \in Line
    BY <1>6, MergeType DEF Mshr
  <2>2. MergeBursts(r.data, d.data, d.dirty) \in Line
    BY <1>6, MergeType DEF Repl
  <2>3. GotData(m, d) \in Mshr
    BY <1>6, <2>1 DEF GotData, Mshr
  <2>4. GotData(r, d) \in Repl
    BY <1>6, <2>2 DEF GotData, Repl
  <2>5. QED
    BY <2>3, <2>4
<1>7. GotData(m, wbData[c]) \in Mshr /\ GotData(r, wbData[c]) \in Repl
  BY <1>6 DEF ChanTypeOK, WbDataMsg
<1>8. GotData(m, snpAck[c]) \in Mshr /\ GotData(r, snpAck[c]) \in Repl
  BY <1>6 DEF ChanTypeOK, SnpAckMsg
<1>9. GotSnpAck(m, c, snpAck[c]) \in Mshr
  <2>1. [GotData(m, snpAck[c]) EXCEPT !.snp_data = {c}] \in Mshr
    BY <1>8 DEF Mshr
  <2>2. QED
    BY <2>1 DEF GotSnpAck, Mshr
<1>10. GotSnpAck(r, c, snpAck[c]) \in Repl
  <2>1. [GotData(r, snpAck[c]) EXCEPT !.snp_data = {c}] \in Repl
    BY <1>8 DEF Repl
  <2>2. QED
    BY <2>1 DEF GotSnpAck, Repl
<1>11. QED
  BY <1>1, <1>4, <1>5, <1>7, <1>9, <1>10

\* An MSHR with a request knows who made it.  A directory entry is typed only
\* because of this: the requestor becomes a sharer.
RequestorKnown == mshr.rtype # "None" => mshr.cid \in Cache

\* A step of the SCU keeps the types of its registers and of the channels.
LEMMA ScuTypeStep ==
  ASSUME ChanTypeOK, ScuTypeOK, RequestorKnown, ScuNext
  PROVE  ChanTypeOK' /\ ScuTypeOK'
<1> USE EmptyTypes, EmptyEntryTypes DEF ChanTypeOK, ScuTypeOK
<1>1. ASSUME NEW c \in Cache, NEW rtype \in ReqType \cup EvictType,
             NEW full \in SUBSET Burst, Allocate(rtype, c, full)
      PROVE  mshr' \in Mshr /\ respq' \in Nat
  BY <1>1, NewMshrType DEF Allocate, RespAtAlloc
<1>2. ASSUME NEW c \in Cache, EvictTaken(c)
      PROVE  ChanTypeOK'
  BY <1>2 DEF EvictTaken, EvictAnswer, WbAckMsg, ScuTid, EvictType
<1>3. ASSUME NEW c \in Cache, AcceptReq(c)
      PROVE  ChanTypeOK' /\ ScuTypeOK'
  <2>1. req[c].rtype \in ReqType /\ req[c].full \in SUBSET Burst
    BY DEF ReqMsg
  <2>2. QED
    BY <1>1, <1>3, <2>1 DEF AcceptReq
<1>4. ASSUME NEW c \in Cache, EvictToMshr(c)
      PROVE  ChanTypeOK' /\ ScuTypeOK'
  <2>1. GotEvict(mshr, c) \in Mshr
    BY ReceiveTypes
  <2>2. mshr' \in Mshr /\ respq' \in Nat
    BY <1>4, <2>1 DEF EvictToMshr
  <2>3. ChanTypeOK'
    BY <1>2, <1>4 DEF EvictToMshr
  <2>4. QED
    BY <1>4, <2>2, <2>3 DEF EvictToMshr
<1>5. ASSUME NEW c \in Cache, EvictToRepl(c)
      PROVE  ChanTypeOK' /\ ScuTypeOK'
  BY <1>2, <1>5, ReceiveTypes DEF EvictToRepl
<1>6. ASSUME NEW c \in Cache, EvictNew(c)
      PROVE  ChanTypeOK' /\ ScuTypeOK'
  BY <1>1, <1>2, <1>6 DEF EvictNew
<1>7. ASSUME NEW c \in Cache, SendSnp(c)
      PROVE  ChanTypeOK' /\ ScuTypeOK'
  <2>1. [mshr EXCEPT !.snp_sent = @ \cup {c}] \in Mshr
    BY DEF Mshr
  <2>2. [rtype |-> IF mshr.inv_snp THEN "SnpUnique" ELSE "SnpShared",
         tid |-> "mshr"] \in SnpMsg
    BY DEF SnpMsg, SnpType, ScuTid
  <2>3. QED
    BY <1>7, <2>1, <2>2 DEF SendSnp
<1>8. ASSUME NEW c \in Cache, RecvSnpAck(c)
      PROVE  ChanTypeOK' /\ ScuTypeOK'
  <2>1. \A m \in Mshr : WithDataUpdate(m) \in Mshr
    BY DEF WithDataUpdate, Mshr
  <2>2. mshr' \in Mshr /\ repl' \in Repl
    BY <1>8, <2>1, ReceiveTypes DEF RecvSnpAck
  <2>3. QED
    BY <1>8, <2>2 DEF RecvSnpAck
<1>9. ASSUME NEW c \in Cache, RecvWbData(c)
      PROVE  ChanTypeOK' /\ ScuTypeOK'
  <2>1. \A m \in Mshr : WithDataUpdate(m) \in Mshr
    BY DEF WithDataUpdate, Mshr
  <2>2. mshr' \in Mshr /\ repl' \in Repl
    BY <1>9, <2>1, ReceiveTypes DEF RecvWbData
  <2>3. QED
    BY <1>9, <2>2 DEF RecvWbData
<1>10. ASSUME NEW c \in Cache, RecvAck(c)
       PROVE  ChanTypeOK' /\ ScuTypeOK'
  <2>1. [mshr EXCEPT !.wait = @ \ {"ack"}] \in Mshr
    BY DEF Mshr
  <2>2. QED
    BY <1>10, <2>1 DEF RecvAck
<1>11. ASSUME NEW c \in Cache, FinalEnqueueWithWriteBack(c)
       PROVE  ChanTypeOK' /\ ScuTypeOK'
  <2>1. GotEvict(mshr, c) \in Mshr
    BY ReceiveTypes
  <2>2. \A m \in Mshr : [m EXCEPT !.upd_enq = TRUE] \in Mshr
    BY DEF Mshr
  <2>3. mshr' \in Mshr /\ respq' \in Nat
    BY <1>11, <2>1, <2>2 DEF FinalEnqueueWithWriteBack
  <2>4. ChanTypeOK'
    BY <1>2, <1>11 DEF FinalEnqueueWithWriteBack
  <2>5. QED
    BY <1>11, <2>3, <2>4 DEF FinalEnqueueWithWriteBack, QueueUpdate
<1>12. ASSUME NEW c \in Cache, ReplSendSnp(c)
       PROVE  ChanTypeOK' /\ ScuTypeOK'
  <2>1. [repl EXCEPT !.snp_sent = @ \cup {c}] \in Repl
    BY DEF Repl
  <2>2. [rtype |-> "SnpUnique", tid |-> "repl"] \in SnpMsg
    BY DEF SnpMsg, SnpType, ScuTid
  <2>3. QED
    BY <1>12, <2>1, <2>2 DEF ReplSendSnp
<1>13. CASE MemRead
  <2>1. [mshr EXCEPT !.data = mem, !.data_valid = Burst,
                     !.wait = @ \ {"mem"}] \in Mshr
    BY DEF Mshr
  <2>2. QED
    BY <1>13, <2>1 DEF MemRead, chanVars
<1>14. CASE LlcRead
  <2>1. GotLlcData(mshr) \in Mshr
    <3>1. MergeBursts(mshr.data, llc.data, Burst \ mshr.data_valid) \in Line
      BY MergeType DEF Mshr, Llc
    <3>2. QED
      BY <3>1 DEF GotLlcData, Mshr
  <2>2. QED
    BY <1>14, <2>1 DEF LlcRead, chanVars
<1>15. CASE EnqueueResp
  <2>1. [mshr EXCEPT !.resp_enq = TRUE] \in Mshr
    BY DEF Mshr
  <2>2. QED
    BY <1>15, <2>1 DEF EnqueueResp, chanVars
<1>16. CASE SendResp
  <2>1. respq' \in Nat
    BY <1>16 DEF SendResp, RespValid
  <2>2. [NoComp EXCEPT !.rtype = "Comp_UD"] \in CompMsg
    BY DEF CompMsg, CompType
  <2>3. [vld |-> TRUE, tid |-> "mshr"] \in WbAckMsg
    BY DEF WbAckMsg, ScuTid
  <2>4. QED
    BY <1>16, <2>1, <2>2, <2>3 DEF SendResp
<1>17. CASE SendData
  <2>1. CompOf(mshr) \in CompMsg
    BY DEF CompOf, CompMsg, CompType, Mshr
  <2>2. QED
    BY <1>17, <2>1 DEF SendData
<1>18. CASE FinalEnqueue
  <2>1. [mshr EXCEPT !.upd_enq = TRUE] \in Mshr
    BY DEF Mshr
  <2>2. QED
    BY <1>18, <2>1 DEF FinalEnqueue, QueueUpdate, chanVars
<1>19. CASE TagWrite
  <2>1. [mshr EXCEPT !.upd = @ \ {"dir"}] \in Mshr
    BY DEF Mshr
  <2>2. NewDirty(mshr) \in BOOLEAN /\ NewOwner(mshr) \in BOOLEAN
    BY DEF NewDirty, NewOwner, Mshr
  <2>3. NewSharers(mshr) \in SUBSET Cache
    BY DEF NewSharers, Mshr, RequestorKnown
  <2>4. [llc EXCEPT !.valid = TRUE, !.dirty = NewDirty(mshr),
                    !.owner = NewOwner(mshr),
                    !.sharers = NewSharers(mshr)] \in Llc
    BY <2>2, <2>3 DEF Llc
  <2>5. QED
    BY <1>19, <2>1, <2>4 DEF TagWrite, chanVars
<1>20. CASE DataWrite
  <2>1. [mshr EXCEPT !.upd = @ \ {"data"}] \in Mshr
    BY DEF Mshr
  <2>2. [llc EXCEPT !.data = mshr.data] \in Llc
    BY DEF Llc, Mshr
  <2>3. QED
    BY <1>20, <2>1, <2>2 DEF DataWrite, chanVars
<1>21. CASE Dealloc
  BY <1>21 DEF Dealloc, chanVars
<1>22. CASE ReplStart
  <2>1. VictimRepl \in Repl
    BY DEF VictimRepl, Repl, Llc
  <2>2. [llc EXCEPT !.valid = FALSE] \in Llc
    BY DEF Llc
  <2>3. QED
    BY <1>22, <2>1, <2>2 DEF ReplStart, chanVars
<1>23. CASE ReplLlcRead
  <2>1. GotLlcData(repl) \in Repl
    <3>1. MergeBursts(repl.data, llc.data, Burst \ repl.data_valid) \in Line
      BY MergeType DEF Repl, Llc
    <3>2. QED
      BY <3>1 DEF GotLlcData, Repl
  <2>2. QED
    BY <1>23, <2>1 DEF ReplLlcRead, chanVars
<1>24. CASE ReplSendResp
  BY <1>24 DEF ReplSendResp, WbAckMsg, ScuTid
<1>25. CASE ReplMemEnqueue
  <2>1. [repl EXCEPT !.mem = IF repl.data_valid \cap repl.data_dirty # {}
                             THEN "enqueued" ELSE "done"] \in Repl
    BY DEF Repl
  <2>2. QED
    BY <1>25, <2>1 DEF ReplMemEnqueue, chanVars
<1>26. CASE ReplMemWrite
  <2>1. [repl EXCEPT !.mem = "done"] \in Repl /\ repl.data \in Line
    BY DEF Repl
  <2>2. QED
    BY <1>26, <2>1 DEF ReplMemWrite, chanVars
<1>27. CASE ReplDealloc
  BY <1>27 DEF ReplDealloc, chanVars
<1>28. QED
  BY <1>3, <1>4, <1>5, <1>6, <1>7, <1>8, <1>9, <1>10, <1>11, <1>12, <1>13,
     <1>14, <1>15, <1>16, <1>17, <1>18, <1>19, <1>20, <1>21, <1>22, <1>23,
     <1>24, <1>25, <1>26, <1>27 DEF ScuNext

\* The configuration of an MSHR keeps its requestor.
LEMMA NewMshrRequestor ==
  ASSUME NEW m \in Mshr
  PROVE  NewMshr(m).cid = m.cid
<1>1. \A x \in Mshr, u \in BOOLEAN : SnoopingMshr(x, u).cid = x.cid
  BY DEF SnoopingMshr, Mshr
<1>2. MissMshr(m).cid = m.cid /\ LlcHitMshr(m).cid = m.cid
  BY DEF MissMshr, LlcHitMshr, Mshr
<1>3. EvictMshr(m).cid = m.cid /\ WriteBackMshr(m).cid = m.cid
  BY DEF EvictMshr, WriteBackMshr, Mshr
<1>4. UniqueMshr(m).cid = m.cid /\ UpgradeMshr(m).cid = m.cid
  BY DEF UniqueMshr, UpgradeMshr, SnoopingMshr, Mshr
<1>5. SnoopingMshr(LlcHitMshr(m), FALSE).cid = m.cid
  BY DEF SnoopingMshr, LlcHitMshr, Mshr
<1>6. SharedMshr(m).cid = m.cid
  BY <1>2, <1>3, <1>4 DEF SharedMshr
<1>7. OwnedMshr(m).cid = m.cid
  BY <1>3, <1>4, <1>5 DEF OwnedMshr
<1>8. QED
  BY <1>2, <1>6, <1>7 DEF NewMshr

\* No step forgets the requestor of a request.
LEMMA RequestorStep ==
  ASSUME ChanTypeOK, ScuTypeOK, RequestorKnown, ScuNext
  PROVE  RequestorKnown'
<1> DEFINE Same(m) == m.rtype = mshr.rtype /\ m.cid = mshr.cid
<1>1. ASSUME Same(mshr') PROVE RequestorKnown'
  BY <1>1 DEF RequestorKnown
<1>2. ASSUME NEW c \in Cache, NEW rtype \in ReqType \cup EvictType,
             NEW full \in SUBSET Burst, Allocate(rtype, c, full)
      PROVE  RequestorKnown'
  <2>1. BlankMshr(rtype, c, full) \in Mshr
    BY EmptyEntryTypes DEF BlankMshr, Mshr, ScuTypeOK, Llc
  <2>2. BlankMshr(rtype, c, full).cid = c
    BY DEF BlankMshr, NoMshr
  <2>3. mshr'.cid = c
    BY <1>2, <2>1, <2>2, NewMshrRequestor DEF Allocate
  <2>4. QED
    BY <2>3 DEF RequestorKnown
<1>3. ASSUME NEW c \in Cache PROVE Same(GotEvict(mshr, c))
  BY DEF GotEvict, ScuTypeOK, Mshr
<1>4. \A d : Same(GotData(mshr, d)) /\ Same(WithDataUpdate(GotData(mshr, d)))
  BY DEF GotData, WithDataUpdate, ScuTypeOK, Mshr
<1>5. \A c, a : Same(GotSnpAck(mshr, c, a))
                /\ Same(WithDataUpdate(GotSnpAck(mshr, c, a)))
  BY DEF GotSnpAck, GotData, WithDataUpdate, ScuTypeOK, Mshr
<1>6. ASSUME NEW c \in Cache, AcceptReq(c) \/ EvictNew(c)
      PROVE  RequestorKnown'
  <2>1. req[c].rtype \in ReqType /\ req[c].full \in SUBSET Burst
    BY DEF ChanTypeOK, ReqMsg
  <2>2. evt[c] \in EvictType
    BY DEF ChanTypeOK
  <2>3. QED
    BY <1>2, <1>6, <2>1, <2>2 DEF AcceptReq, EvictNew
<1>7. ASSUME NEW c \in Cache,
             \/ EvictToMshr(c) \/ EvictToRepl(c) \/ SendSnp(c) \/ RecvSnpAck(c)
             \/ RecvWbData(c) \/ RecvAck(c) \/ FinalEnqueueWithWriteBack(c)
             \/ ReplSendSnp(c)
      PROVE  RequestorKnown'
  <2>1. CASE EvictToMshr(c) \/ EvictToRepl(c)
    BY <1>1, <1>3, <2>1 DEF EvictToMshr, EvictToRepl
  <2>2. CASE RecvSnpAck(c) \/ RecvWbData(c)
    BY <1>1, <1>4, <1>5, <2>2 DEF RecvSnpAck, RecvWbData
  <2>3. CASE SendSnp(c) \/ RecvAck(c) \/ ReplSendSnp(c)
    BY <1>1, <2>3 DEF SendSnp, RecvAck, ReplSendSnp, ScuTypeOK, Mshr
  <2>4. CASE FinalEnqueueWithWriteBack(c)
    <3>1. GotEvict(mshr, c) \in Mshr
      BY ReceiveTypes DEF ScuTypeOK
    <3>2. Same(mshr')
      BY <1>3, <2>4, <3>1 DEF FinalEnqueueWithWriteBack, Mshr
    <3>3. QED
      BY <1>1, <3>2
  <2>5. QED
    BY <1>7, <2>1, <2>2, <2>3, <2>4
<1>8. ASSUME \/ MemRead \/ LlcRead \/ EnqueueResp \/ FinalEnqueue
             \/ TagWrite \/ DataWrite
      PROVE  RequestorKnown'
  <2>1. Same(mshr')
    BY <1>8 DEF MemRead, LlcRead, GotLlcData, EnqueueResp, FinalEnqueue,
                TagWrite, DataWrite, ScuTypeOK, Mshr
  <2>2. QED
    BY <1>1, <2>1
<1>9. ASSUME \/ SendResp \/ SendData \/ ReplStart \/ ReplLlcRead
             \/ ReplSendResp \/ ReplMemEnqueue \/ ReplMemWrite \/ ReplDealloc
      PROVE  RequestorKnown'
  BY <1>1, <1>9 DEF SendResp, SendData, ReplStart, ReplLlcRead, ReplSendResp,
                    ReplMemEnqueue, ReplMemWrite, ReplDealloc
<1>10. CASE Dealloc
  BY <1>10 DEF Dealloc, NoMshr, RequestorKnown
<1>11. QED
  BY <1>6, <1>7, <1>8, <1>9, <1>10 DEF ScuNext

\* The initial state is typed.
LEMMA InitType == Init => TypeOK /\ RequestorKnown
<1> SUFFICES ASSUME Init PROVE TypeOK /\ RequestorKnown
  OBVIOUS
<1>1. ChanTypeOK
  BY EmptyTypes DEF Init, ChanInit, ChanTypeOK, EvictType
<1>2. L1TypeOK
  BY AnyLineType, EmptyTypes DEF Init, L1Init, L1TypeOK, Mesi
<1>3. ScuTypeOK
  BY AnyLineType, EmptyEntryTypes DEF Init, ScuInit, ScuTypeOK, Llc
<1>4. RequestorKnown
  BY DEF Init, ScuInit, NoMshr, RequestorKnown
<1>5. QED
  BY <1>1, <1>2, <1>3, <1>4 DEF TypeOK

\* Types hold, together with the fact that makes them inductive: an answer goes
\* to mshr.cid, which is a cache while the MSHR serves a request.
LEMMA Requestors == Spec => [](TypeOK /\ RequestorKnown)
<1> DEFINE Inv == TypeOK /\ RequestorKnown
<1>1. Inv /\ [Next]_vars => Inv'
  <2> SUFFICES ASSUME TypeOK, RequestorKnown, [Next]_vars PROVE Inv'
    OBVIOUS
  <2>1. CASE L1Next /\ UNCHANGED scuVars
    BY <2>1, L1TypeStep DEF TypeOK, ScuTypeOK, scuVars, RequestorKnown
  <2>2. CASE ScuNext /\ UNCHANGED l1Vars
    BY <2>2, ScuTypeStep, RequestorStep DEF TypeOK, L1TypeOK, l1Vars
  <2>3. CASE UNCHANGED vars
    BY <2>3 DEF TypeOK, ChanTypeOK, L1TypeOK, ScuTypeOK, vars, chanVars,
                l1Vars, scuVars, RequestorKnown
  <2>4. QED
    BY <2>1, <2>2, <2>3 DEF Next
<1>2. QED
  BY InitType, <1>1, PTL DEF Spec

\* Type correctness: whatever the caches and the SCU do, every register and
\* every message is what rvh_l1d_cc_pkg.sv declares it to be.
THEOREM TypeCorrect == Spec => []TypeOK
BY Requestors, PTL

-----------------------------------------------------------------------------
\* The line in a private cache.

\* A step of a private cache leaves the line in one place.  The evict queue
\* entry of a line that a victim mark or a miss holds is empty, so the steps
\* of a snoop, of a refill and of an eviction cannot meet.
LEMMA OnePlaceStep ==
  ASSUME L1TypeOK, LineInOnePlace, L1Next
  PROVE  LineInOnePlace'
<1> DEFINE P(c) ==
      /\ mreq[c].phase # "idle" => vic[c] = "none" /\ ewrq[c].phase = "none"
      /\ vic[c] # "none" => ewrq[c].phase = "none"
      /\ ewrq[c].phase # "none" => st[c] = "I"
      /\ mreq[c].phase \in {"alloc", "sent"} =>
            st[c] = "I" \/ (mreq[c].perm /\ st[c] = "S")
<1>1. \A d \in Cache : P(d)
  BY DEF LineInOnePlace
<1>2. SUFFICES ASSUME NEW d \in Cache PROVE P(d)'
  BY DEF LineInOnePlace
<1>3. PICK c \in Cache :
        \/ \E mask \in StoreMask, v \in Val : StoreHit(c, mask, v)
        \/ \E mask \in StoreMask, v \in Val : StoreMiss(c, mask, v)
        \/ LoadMiss(c)
        \/ SendReq(c)
        \/ Refill(c)
        \/ FinishAck(c)
        \/ VictimPeek(c)
        \/ VictimEvict(c)
        \/ EwrqSend(c)
        \/ EwrqAck(c)
        \/ EwrqData(c)
        \/ Snoop(c)
  BY DEF L1Next
<1> USE <1>1 DEF L1TypeOK
<1>4. ASSUME NEW mask \in StoreMask, NEW v \in Val, StoreHit(c, mask, v)
      PROVE  P(d)'
  BY <1>4 DEF StoreHit, CoreReady
<1>5. ASSUME NEW mask \in StoreMask, NEW v \in Val, StoreMiss(c, mask, v)
      PROVE  P(d)'
  BY <1>5 DEF StoreMiss, CoreReady
<1>6. CASE LoadMiss(c)
  BY <1>6 DEF LoadMiss, CoreReady, NoMiss
<1>7. CASE SendReq(c)
  BY <1>7 DEF SendReq, Miss
<1>8. CASE Refill(c)
  <2>1. mreq'[c].phase = "refilled"
    BY <1>8 DEF Refill, Miss
  <2>2. d # c => mreq'[d] = mreq[d] /\ st'[d] = st[d]
    BY <1>8 DEF Refill
  <2>3. vic' = vic /\ ewrq' = ewrq /\ mreq[c].phase = "sent"
    BY <1>8 DEF Refill
  <2>4. QED
    BY <2>1, <2>2, <2>3
<1>9. CASE FinishAck(c)
  BY <1>9 DEF FinishAck, NoMiss
<1>10. CASE VictimPeek(c)
  BY <1>10 DEF VictimPeek
<1>11. CASE VictimEvict(c)
  BY <1>11 DEF VictimEvict
<1>12. CASE EwrqSend(c)
  BY <1>12 DEF EwrqSend, Ewrq
<1>13. CASE EwrqAck(c)
  <2>1. AckedEwrq(ewrq[c], wbAck[c].tid).phase # "none" =>
           ewrq[c].phase # "none"
    BY DEF AckedEwrq, NoEwrq
  <2>2. QED
    BY <1>13, <2>1 DEF EwrqAck
<1>14. CASE EwrqData(c)
  BY <1>14 DEF EwrqData, NoEwrq
<1>15. CASE Snoop(c)
  <2>1. /\ st[c] = "I" => SnoopedState(st[c], snp[c].rtype) = "I"
        /\ SnoopedState(st[c], snp[c].rtype) \in {"I", "S"}
    BY DEF SnoopedState
  <2>2. QED
    BY <1>15, <2>1 DEF Snoop, SnoopReady
<1>16. QED
  BY <1>3, <1>4, <1>5, <1>6, <1>7, <1>8, <1>9, <1>10, <1>11, <1>12, <1>13,
     <1>14, <1>15

\* A miss, a victim mark and an evict queue entry of one line exclude each
\* other in every bank, for every workload: the hazard checks at the head of
\* the pipeline (rvh_l1d_bank.sv) are enough.
THEOREM OnePlace == Spec => []LineInOnePlace
<1>1. Init => LineInOnePlace
  BY DEF Init, L1Init, LineInOnePlace, NoMiss, NoEwrq
<1>2. TypeOK /\ LineInOnePlace /\ [Next]_vars => LineInOnePlace'
  <2> SUFFICES ASSUME TypeOK, LineInOnePlace, [Next]_vars
               PROVE  LineInOnePlace'
    OBVIOUS
  <2>1. CASE L1Next
    BY <2>1, OnePlaceStep DEF TypeOK
  <2>2. CASE UNCHANGED l1Vars
    BY <2>2 DEF l1Vars, LineInOnePlace
  <2>3. QED
    BY <2>1, <2>2 DEF Next, vars
<1>3. QED
  BY <1>1, <1>2, TypeCorrect, PTL DEF Spec

-----------------------------------------------------------------------------
\* The MSHR files.

\* What the entries must agree on: the fields that decide whether an entry is
\* in use and whether its updates are queued.
LEMMA ReceiveKeeps ==
  ASSUME NEW m \in Mshr, NEW r \in Repl
  PROVE  /\ \A c : /\ GotEvict(m, c).valid = m.valid
                   /\ GotEvict(m, c).upd = m.upd
                   /\ GotEvict(m, c).upd_enq = m.upd_enq
                   /\ GotEvict(r, c).valid = r.valid
         /\ \A d : /\ GotData(m, d).valid = m.valid
                   /\ GotData(m, d).upd = m.upd
                   /\ GotData(m, d).upd_enq = m.upd_enq
                   /\ GotData(r, d).valid = r.valid
         /\ \A c, a : /\ GotSnpAck(m, c, a).valid = m.valid
                      /\ GotSnpAck(m, c, a).upd = m.upd
                      /\ GotSnpAck(m, c, a).upd_enq = m.upd_enq
                      /\ GotSnpAck(r, c, a).valid = r.valid
<1>1. \A c : /\ GotEvict(m, c).valid = m.valid
             /\ GotEvict(m, c).upd = m.upd
             /\ GotEvict(m, c).upd_enq = m.upd_enq
             /\ GotEvict(r, c).valid = r.valid
  BY DEF GotEvict, Mshr, Repl
<1>2. \A d : /\ GotData(m, d).valid = m.valid
             /\ GotData(m, d).upd = m.upd
             /\ GotData(m, d).upd_enq = m.upd_enq
             /\ GotData(r, d).valid = r.valid
  BY DEF GotData, Mshr, Repl
<1>3. \A c, a : /\ GotSnpAck(m, c, a).valid = m.valid
                /\ GotSnpAck(m, c, a).upd = m.upd
                /\ GotSnpAck(m, c, a).upd_enq = m.upd_enq
  BY DEF GotSnpAck, GotData, Mshr
<1>4. \A c, a : GotSnpAck(r, c, a).valid = r.valid
  BY DEF GotSnpAck, GotData, Repl
<1>5. QED
  BY <1>1, <1>2, <1>3, <1>4

\* A step of the SCU serves the line with one entry, and queues a write to
\* the tag or data RAM only once per transaction.
LEMMA EntryStep ==
  ASSUME ChanTypeOK, ScuTypeOK, OneAgent, WritesOwned, ScuNext
  PROVE  OneAgent' /\ WritesOwned'
<1> USE DEF OneAgent, WritesOwned
<1>0. mshr \in Mshr /\ repl \in Repl
  BY DEF ScuTypeOK
<1> DEFINE Kept(m) == m.valid = mshr.valid /\ m.upd_enq = mshr.upd_enq
<1>1. ASSUME Kept(mshr'), mshr.upd \subseteq mshr'.upd,
             repl'.valid = repl.valid, UNCHANGED <<tagq, ramq>>
      PROVE  OneAgent' /\ WritesOwned'
  BY <1>1
<1>2. ASSUME NEW c \in Cache, AcceptReq(c) \/ EvictNew(c)
      PROVE  OneAgent' /\ WritesOwned'
  BY <1>2 DEF AcceptReq, EvictNew, SetFree
<1>3. ASSUME NEW c \in Cache, EvictToMshr(c) \/ EvictToRepl(c)
      PROVE  OneAgent' /\ WritesOwned'
  BY <1>0, <1>1, <1>3, ReceiveKeeps DEF EvictToMshr, EvictToRepl
<1>4. \A m \in Mshr : /\ Kept(m) => Kept(WithDataUpdate(m))
                      /\ m.upd \subseteq WithDataUpdate(m).upd
  BY DEF WithDataUpdate, Mshr
<1>5. ASSUME NEW c \in Cache, RecvSnpAck(c) \/ RecvWbData(c)
      PROVE  OneAgent' /\ WritesOwned'
  <2>1. /\ GotSnpAck(mshr, c, snpAck[c]) \in Mshr
        /\ GotData(mshr, wbData[c]) \in Mshr
    BY <1>0, ReceiveTypes
  <2>2. Kept(mshr') /\ mshr.upd \subseteq mshr'.upd /\ repl'.valid = repl.valid
    BY <1>0, <1>4, <1>5, <2>1, ReceiveKeeps DEF RecvSnpAck, RecvWbData
  <2>3. UNCHANGED <<tagq, ramq>>
    BY <1>5 DEF RecvSnpAck, RecvWbData
  <2>4. QED
    BY <1>1, <2>2, <2>3
<1>6. ASSUME NEW c \in Cache, SendSnp(c) \/ RecvAck(c) \/ ReplSendSnp(c)
      PROVE  OneAgent' /\ WritesOwned'
  BY <1>0, <1>1, <1>6 DEF SendSnp, RecvAck, ReplSendSnp, Mshr, Repl
<1>7. ASSUME NEW c \in Cache, FinalEnqueueWithWriteBack(c)
      PROVE  OneAgent' /\ WritesOwned'
  <2>1. GotEvict(mshr, c) \in Mshr
    BY <1>0, ReceiveTypes
  <2>2. mshr.valid
    BY <1>7 DEF FinalEnqueueWithWriteBack, TakesEvict
  <2>3. mshr'.valid /\ mshr'.upd_enq /\ mshr'.upd = mshr.upd
    BY <1>0, <1>7, <2>1, <2>2, ReceiveKeeps DEF FinalEnqueueWithWriteBack, Mshr
  <2>4. QED
    BY <1>7, <2>2, <2>3 DEF FinalEnqueueWithWriteBack, QueueUpdate
<1>8. CASE FinalEnqueue
  <2>1. mshr.valid
    BY <1>8 DEF FinalEnqueue, NeedsUpdate, RespFinished, TransitionFinished
  <2>2. mshr'.valid /\ mshr'.upd_enq /\ mshr'.upd = mshr.upd
    BY <1>0, <1>8, <2>1 DEF FinalEnqueue, Mshr
  <2>3. QED
    BY <1>8, <2>1, <2>2 DEF FinalEnqueue, QueueUpdate
<1>9. CASE TagWrite
  <2>1. Kept(mshr') /\ mshr'.upd = mshr.upd \ {"dir"}
    BY <1>0, <1>9 DEF TagWrite, Mshr
  <2>2. QED
    BY <1>9, <2>1 DEF TagWrite
<1>10. CASE DataWrite
  <2>1. Kept(mshr') /\ mshr'.upd = mshr.upd \ {"data"}
    BY <1>0, <1>10 DEF DataWrite, Mshr
  <2>2. QED
    BY <1>10, <2>1 DEF DataWrite
<1>11. CASE Dealloc
  BY <1>11 DEF Dealloc, FinalFinished, NoMshr
<1>12. CASE MemRead \/ LlcRead \/ EnqueueResp
  <2>1. Kept(mshr') /\ mshr'.upd = mshr.upd
    BY <1>0, <1>12 DEF MemRead, LlcRead, GotLlcData, EnqueueResp, Mshr
  <2>2. QED
    BY <1>1, <1>12, <2>1 DEF MemRead, LlcRead, EnqueueResp
<1>13. CASE SendResp \/ SendData \/ ReplSendResp
  BY <1>1, <1>13 DEF SendResp, SendData, ReplSendResp
<1>14. CASE ReplStart
  BY <1>14 DEF ReplStart, SetFree
<1>15. CASE ReplLlcRead \/ ReplMemEnqueue \/ ReplMemWrite
  <2>1. repl'.valid = repl.valid
    BY <1>0, <1>15 DEF ReplLlcRead, GotLlcData, ReplMemEnqueue, ReplMemWrite,
                       Repl
  <2>2. QED
    BY <1>1, <1>15, <2>1 DEF ReplLlcRead, ReplMemEnqueue, ReplMemWrite
<1>16. CASE ReplDealloc
  BY <1>16 DEF ReplDealloc, NoRepl
<1>17. QED
  BY <1>2, <1>3, <1>5, <1>6, <1>7, <1>8, <1>9, <1>10, <1>11, <1>12, <1>13,
     <1>14, <1>15, <1>16 DEF ScuNext

\* The two files never serve the line at once, and no RAM write is queued
\* twice or outlives the MSHR that owns it, for every workload, every order
\* of messages and every race of an eviction with a transaction: a freed
\* entry cannot write the directory of the transaction that reuses it.
LEMMA EntryInvariant == Spec => [](OneAgent /\ WritesOwned)
<1>1. Init => OneAgent /\ WritesOwned
  BY DEF Init, ScuInit, OneAgent, WritesOwned, NoMshr, NoRepl
<1>2. TypeOK /\ OneAgent /\ WritesOwned /\ [Next]_vars
        => OneAgent' /\ WritesOwned'
  <2> SUFFICES ASSUME TypeOK, OneAgent, WritesOwned, [Next]_vars
               PROVE  OneAgent' /\ WritesOwned'
    OBVIOUS
  <2>1. CASE ScuNext
    BY <2>1, EntryStep DEF TypeOK
  <2>2. CASE UNCHANGED scuVars
    BY <2>2 DEF scuVars, OneAgent, WritesOwned
  <2>3. QED
    BY <2>1, <2>2 DEF Next, vars
<1>3. QED
  BY <1>1, <1>2, TypeCorrect, PTL DEF Spec

\* At most one entry of the two MSHR files serves the line.
THEOREM OneEntry == Spec => []OneAgent
BY EntryInvariant, PTL

\* Every queued tag or data RAM write belongs to a valid MSHR that still
\* has it to do.
THEOREM QueuedWritesOwned == Spec => []WritesOwned
BY EntryInvariant, PTL
-----------------------------------------------------------------------------
\* Coherence: the vocabulary of the inductive invariant.

\* A victim announced as dirty still has its line MODIFIED.  The code reads
\* victim_way_clean at the peek (rvh_l1d_mlfb.sv 454) and uses it some cycles
\* later (540-543), so this is a condition on the executions, not a fact;
\* VictimsCurrent below says for which workloads it is one.
NoStaleVictim == \A c \in Cache : vic[c] = "dirty" => st[c] \in {"M", "I"}

\* The caches that have answered the snoops of entry m.
Answered(m) == m.snp_resp \cup m.snp_data

\* Entry m serves a request; entry m serves an eviction.
Asks(m) == m.rtype \in {"ReadShared", "ReadUnique", "CleanUnique"}
Leaves(m) == m.rtype \in {"Evict", "WriteBackPartial"}

\* The entry tid names waits for a snoop answer of c; for write-back data of c.
OutstandingAt(tid, c) ==
    IF tid = "mshr" THEN Outstanding(mshr, c) ELSE Outstanding(repl, c)
AwaitingAt(tid, c) ==
    IF tid = "mshr" THEN Awaiting(mshr, c) ELSE Awaiting(repl, c)

\* The SCU has to count c as a holder: c has the line, or has it in the evict
\* queue, or its eviction has not been taken.
Present(c) == st[c] # "I" \/ ewrq[c].phase = "queued" \/ evt[c] # "None"

\* Write-back data of c are awaited by some entry.
Awaited(c) == Awaiting(mshr, c) \/ Awaiting(repl, c)

\* The only copy is with c or in a message of c the SCU has not asked for ...
Owns(c) == st[c] \in {"E", "M"} \/ ewrq[c].wb \/ snpAck[c].rtype = "FoundM"

\* ... or has asked for.
Hot(c) == Owns(c) \/ Awaited(c)

\* The answer of the MSHR is in its data or response FIFO.
Queued == dataq \/ (respq = 1 /\ mshr.rtype = "CleanUnique")

\* The MSHR awaits the acknowledgement of c; it has not been sent either.
Served(c) == mshr.valid /\ mshr.cid = c /\ "ack" \in mshr.wait
Open(c) == Served(c) /\ ~ack[c]

\* The requestor c has used the answer: it has the right it asked for, though
\* the directory does not say so before the MSHR writes it.
Consumed(c) ==
    /\ mshr.valid /\ mshr.cid = c /\ Asks(mshr) /\ mshr.resp_enq
    /\ "ack" \notin mshr.wait \/ ack[c] \/ mreq[c].phase = "refilled"

\* The WriteBack_Ack for c is still in a response FIFO.
AckToSend(c) ==
    (respq = 1 /\ Awaiting(mshr, c)) \/ (replResp /\ Awaiting(repl, c))

-----------------------------------------------------------------------------
\* The inductive invariant: the two MSHR files of the SCU.

\* A free entry is clear and queued nowhere; a line that is being replaced is
\* not in the LLC.
FreeEntries ==
    /\ ~mshr.valid => mshr = NoMshr /\ respq = 0 /\ ~dataq
    /\ ~repl.valid => repl = NoRepl /\ ~replResp
    /\ repl.valid => ~llc.valid

\* Only those answer who were asked, only sharers are asked, and the requestor
\* never is (snp_req_sent, snp_resp_got of rvh_scu_mshr.sv).
SnoopLists ==
    /\ Answered(mshr) \subseteq mshr.snp_sent
    /\ mshr.snp_sent \subseteq mshr.snp_need
    /\ mshr.snp_need \subseteq mshr.sharers \ {mshr.cid}
    /\ Answered(repl) \subseteq repl.snp_sent
    /\ repl.snp_sent \subseteq repl.snp_need

\* What an MSHR needs follows from its request and the directory (the case
\* statement of s2 in rvh_scu.sv): exclusive requests snoop every other sharer
\* for invalidation, shared ones only an owner; an eviction waits for no answer
\* and gets none, and its cache is taken off the list of sharers.
Kinds ==
    mshr.valid =>
      /\ Asks(mshr) \/ Leaves(mshr)
      /\ mshr.rtype \in {"ReadUnique", "CleanUnique"} =>
            /\ mshr.sharers \ {mshr.cid} \subseteq mshr.snp_need
            /\ mshr.snp_need # {} => mshr.inv_snp
      /\ mshr.rtype = "ReadShared" =>
            /\ ~mshr.inv_snp
            /\ mshr.owner => mshr.sharers \ {mshr.cid} \subseteq mshr.snp_need
      /\ mshr.rtype = "CleanUnique" =>
            /\ ~mshr.owner /\ mshr.cid \in mshr.sharers
            /\ mshr.wait \subseteq {"ack"}
      /\ mshr.rtype \in {"CleanUnique", "Evict"} => "data" \notin mshr.upd
      /\ Leaves(mshr) =>
            /\ mshr.snp_need = {} /\ mshr.cid \in mshr.evict
            /\ mshr.cid \in mshr.sharers
            /\ "ack" \notin mshr.wait /\ ~mshr.resp_enq
      /\ Asks(mshr) => mshr.cid \notin mshr.evict

\* The stages of an MSHR come in order: all answers and data, the answer to the
\* requestor, its acknowledgement, then the update of directory and data.
Stages ==
    mshr.valid =>
      /\ mshr.resp_enq => mshr.wait \subseteq {"ack"} /\ AllAnswered(mshr)
      /\ mshr.upd_enq => mshr.wait = {} /\ AllAnswered(mshr)
      /\ Asks(mshr) /\ "ack" \notin mshr.wait => mshr.resp_enq
      /\ "dir" \notin mshr.upd => mshr.upd_enq /\ llc.valid
      /\ mshr.rtype \notin {"CleanUnique", "Evict"} =>
            "llc" \in mshr.wait \/ "mem" \in mshr.wait
            \/ mshr.data_valid = Burst

\* An id is in a FIFO only while its entry needs what the FIFO sends: the
\* response FIFO serves Comp_UD and WriteBack_Ack, never both.
Fifos ==
    /\ respq \in {0, 1}
    /\ respq = 1 => \/ "wb" \in mshr.wait
                    \/ /\ mshr.rtype = "CleanUnique" /\ mshr.resp_enq
                       /\ "ack" \in mshr.wait
    /\ dataq => /\ mshr.rtype \in {"ReadShared", "ReadUnique"}
                /\ mshr.resp_enq /\ "ack" \in mshr.wait
    /\ replResp => "wb" \in repl.wait
    /\ "wb" \in mshr.wait /\ mshr.wb_cid = mshr.cid =>
          mshr.rtype = "WriteBackPartial"
    /\ "wb" \in mshr.wait => mshr.wb_cid \in Cache
    /\ "wb" \in repl.wait => repl.wb_cid \in Cache

\* The SCU's part of the invariant.
ScuInv == FreeEntries /\ SnoopLists /\ Kinds /\ Stages /\ Fifos

-----------------------------------------------------------------------------
\* The inductive invariant: one cache and what travels between it and the SCU.

\* Registers and channels that are not in use hold nothing.
BankInv(c) ==
    /\ st[c] = "I" => drt[c] = {}
    /\ vic[c] = "clean" => st[c] # "M"
    /\ ewrq[c].phase = "none" => ewrq[c] = NoEwrq
    /\ req[c].rtype = "None" => req[c] = NoReq
    /\ snp[c].rtype = "None" => snp[c] = NoSnp
    /\ snpAck[c].rtype = "None" => snpAck[c] = NoSnpAck
    /\ comp[c].rtype = "None" => comp[c] = NoComp
    /\ ~wbData[c].vld => wbData[c] = NoWbData

\* The miss of c and the MSHR agree how far they are: a request on its way is
\* not served yet, one that was taken is served exactly until the refill is
\* acknowledged, and the answer is of the kind that was asked for.
MissInv(c) ==
    /\ req[c].rtype # "None" =>
          mreq[c].phase = "sent" /\ req[c] = ReqOf(mreq[c]) /\ ~Open(c)
    /\ mreq[c].phase = "sent" /\ req[c].rtype = "None" => Open(c)
    /\ mreq[c].phase = "refilled" => Open(c) /\ mshr.resp_enq /\ ~Queued
    /\ Open(c) => mreq[c].phase \in {"sent", "refilled"}
    /\ ack[c] => Served(c) /\ mshr.resp_enq /\ ~Queued
    /\ comp[c].rtype # "None" =>
          /\ Open(c) /\ mreq[c].phase = "sent"
          /\ mshr.resp_enq /\ ~Queued
          /\ comp[c].rtype =
               IF mshr.rtype = "CleanUnique" THEN "Comp_UD"
               ELSE IF mshr.rtype = "ReadUnique" THEN "CompData_UD"
               ELSE IF mshr.sharers # {} THEN "CompData_SC" ELSE "CompData_UC"
    /\ Open(c) /\ mreq[c].phase = "sent" =>
          /\ mshr.rtype = "ReadShared" <=> ~mreq[c].store
          /\ mshr.rtype = "CleanUnique" => mreq[c].perm /\ st[c] = "S"

\* The evict queue of c and the entry that took its eviction agree: the entry
\* waits for data exactly from the acceptance of a WriteBackPartial to the
\* arrival of the data, and meanwhile c has nothing else of the line.
EvictInv(c) ==
    /\ evt[c] # "None" =>
          /\ ewrq[c].phase = "sent" /\ ~wbAck[c].vld
          /\ evt[c] = "WriteBackPartial" <=> ewrq[c].wb
    /\ wbAck[c].vld =>
          /\ ewrq[c].phase = "sent"
          /\ ewrq[c].wb => AwaitingAt(wbAck[c].tid, c)
    /\ ewrq[c].phase = "acked" => ewrq[c].wb /\ AwaitingAt(ewrq[c].tid, c)
    /\ wbData[c].vld => ewrq[c].phase = "none" /\ AwaitingAt(wbData[c].tid, c)
    /\ Awaited(c) =>
          st[c] = "I" /\ evt[c] = "None" /\ snpAck[c].rtype # "FoundM"
    /\ Awaited(c) => ewrq[c].phase # "queued"
    /\ AckToSend(c) => ewrq[c].phase = "sent" /\ ewrq[c].wb /\ ~wbAck[c].vld
    /\ ewrq[c].phase = "sent" /\ ewrq[c].wb => evt[c] # "None" \/ Awaited(c)

\* A snoop and its answer are those of an entry that waits for them; a cache
\* that has answered is no owner any more, and after SnpUnique no holder.
SnoopInv(c) ==
    /\ snp[c].rtype # "None" =>
          /\ snpAck[c].rtype = "None"
          /\ OutstandingAt(snp[c].tid, c)
          /\ snp[c].rtype = "SnpUnique" <=>
                snp[c].tid = "repl" \/ mshr.inv_snp
    /\ snpAck[c].rtype # "None" =>
          /\ OutstandingAt(snpAck[c].tid, c)
          /\ st[c] \in {"I", "S"} /\ ~ewrq[c].wb
          /\ snpAck[c].tid = "repl" \/ mshr.inv_snp => ~Present(c)
    /\ c \in Answered(mshr) =>
          ~Owns(c) /\ (mshr.inv_snp => ~Present(c))
    /\ c \in Answered(repl) => ~Owns(c) /\ ~Present(c)

\* Who holds the line is known where it has to be: in the directory between
\* transactions, and during one in the MSHR's or replacement MSHR's copy of the
\* entry, corrected by what has been answered, evicted or granted since.
DirInv(c) ==
    IF mshr.valid /\ "dir" \in mshr.upd THEN
      /\ c # mshr.cid =>
           /\ Present(c) => /\ c \in mshr.sharers \ mshr.evict
           /\ Hot(c) => mshr.owner /\ mshr.sharers = {c}
           /\ c \in mshr.sharers \ mshr.evict =>
                \/ Present(c)
                \/ mshr.inv_snp /\ snpAck[c].rtype # "None"
                \/ mshr.inv_snp /\ c \in Answered(mshr)
      /\ c = mshr.cid =>
           /\ Leaves(mshr) => ~Present(c)
           /\ Consumed(c) => Present(c)
           /\ Consumed(c) /\ mshr.rtype = "ReadShared" /\ mshr.sharers # {} =>
                ~Owns(c)
           /\ Asks(mshr) /\ ~Consumed(c) /\ Present(c) => c \in mshr.sharers
    ELSE IF repl.valid THEN
      /\ Present(c) => c \in repl.snp_need \ (repl.evict \cup Answered(repl))
      /\ Hot(c) => repl.snp_need = {c}
    ELSE
      /\ Present(c) => llc.valid /\ c \in llc.sharers
      /\ Hot(c) => llc.owner /\ llc.valid /\ llc.sharers = {c}
      /\ llc.valid /\ c \in llc.sharers => Present(c)

\* The part of the invariant that is about cache c.
CacheInv(c) ==
    BankInv(c) /\ MissInv(c) /\ EvictInv(c) /\ SnoopInv(c) /\ DirInv(c)

-----------------------------------------------------------------------------
\* Steps of a private cache.

\* The registers and the channels of cache x, as far as they are control.
SameAt(x) ==
    /\ st'[x] = st[x] /\ drt'[x] = drt[x] /\ mreq'[x] = mreq[x]
    /\ vic'[x] = vic[x] /\ ewrq'[x] = ewrq[x]
    /\ req'[x] = req[x] /\ evt'[x] = evt[x] /\ snpAck'[x] = snpAck[x]
    /\ ack'[x] = ack[x] /\ wbData'[x] = wbData[x] /\ snp'[x] = snp[x]
    /\ comp'[x] = comp[x] /\ wbAck'[x] = wbAck[x]

\* The invariant of a cache is about its own registers and channels.
LEMMA FrameStep ==
  ASSUME NEW x \in Cache, CacheInv(x), SameAt(x), UNCHANGED scuVars
  PROVE  CacheInv(x)'
<1> USE DEF SameAt, scuVars
<1>1. BankInv(x)'
  BY DEF CacheInv, BankInv
<1>2. MissInv(x)'
  BY DEF CacheInv, MissInv, Open, Served, Queued
<1>3. EvictInv(x)'
  BY DEF CacheInv, EvictInv, AwaitingAt, Awaiting, Awaited, AckToSend
<1>4. SnoopInv(x)'
  BY DEF CacheInv, SnoopInv, OutstandingAt, Outstanding, Present, Owns,
         Answered
<1>5. DirInv(x)'
  BY DEF CacheInv, DirInv, Present, Owns, Hot, Awaited, Awaiting, Answered,
         Consumed, Asks, Leaves
<1>6. QED
  BY <1>1, <1>2, <1>3, <1>4, <1>5 DEF CacheInv

\* A step of one bank does not touch another.
LEMMA BankLocal ==
  ASSUME TypeOK, NEW c \in Cache, NEW x \in Cache, x # c,
         \/ \E mask \in StoreMask, v \in Val : StoreHit(c, mask, v)
         \/ \E mask \in StoreMask, v \in Val : StoreMiss(c, mask, v)
         \/ LoadMiss(c) \/ SendReq(c) \/ Refill(c) \/ FinishAck(c)
         \/ VictimPeek(c) \/ VictimEvict(c) \/ EwrqSend(c) \/ EwrqAck(c)
         \/ EwrqData(c) \/ Snoop(c)
  PROVE  SameAt(x)
<1> USE DEF SameAt, TypeOK, L1TypeOK, ChanTypeOK, chanVars
<1>1. CASE \E mask \in StoreMask, v \in Val :
              StoreHit(c, mask, v) \/ StoreMiss(c, mask, v)
  BY <1>1 DEF StoreHit, StoreMiss
<1>2. CASE LoadMiss(c) \/ SendReq(c) \/ FinishAck(c)
  BY <1>2 DEF LoadMiss, SendReq, FinishAck
<1>3. CASE Refill(c)
  BY <1>3 DEF Refill
<1>4. CASE VictimPeek(c) \/ VictimEvict(c) \/ EwrqSend(c)
  BY <1>4 DEF VictimPeek, VictimEvict, EwrqSend
<1>5. CASE EwrqAck(c) \/ EwrqData(c) \/ Snoop(c)
  BY <1>5 DEF EwrqAck, EwrqData, Snoop
<1>6. QED
  BY <1>1, <1>2, <1>3, <1>4, <1>5

\* The core of c: hits, misses and requests.
LEMMA CoreStep ==
  ASSUME TypeOK, LineInOnePlace, NEW c \in Cache, CacheInv(c),
         \/ \E mask \in StoreMask, v \in Val : StoreHit(c, mask, v)
         \/ \E mask \in StoreMask, v \in Val : StoreMiss(c, mask, v)
         \/ LoadMiss(c) \/ SendReq(c) \/ FinishAck(c) \/ VictimPeek(c),
         UNCHANGED scuVars
  PROVE  CacheInv(c)'
<1>a. BankInv(c) /\ MissInv(c) /\ EvictInv(c) /\ SnoopInv(c) /\ DirInv(c)
  BY DEF CacheInv
<1>b. UNCHANGED <<mshr, respq, dataq, repl, replResp, llc>>
  BY DEF scuVars
<1>1. CASE \E mask \in StoreMask, v \in Val : StoreHit(c, mask, v)
  <2>1. /\ st[c] \in {"E", "M"} /\ st'[c] = "M"
        /\ mreq[c].phase = "idle" /\ vic[c] = "none" /\ ewrq[c].phase = "none"
        /\ UNCHANGED <<mreq, vic, ewrq, req, evt, snpAck, ack, wbData, snp,
                       comp, wbAck>>
    BY <1>1 DEF StoreHit, CoreReady, TypeOK, L1TypeOK, chanVars
  <2>2. ~Open(c)
    BY <1>a, <2>1 DEF MissInv
  <2>3. BankInv(c)' /\ MissInv(c)'
    BY <1>a, <1>b, <2>1, <2>2 DEF BankInv, MissInv, Open, Served, Queued
  <2>4. EvictInv(c)'
    BY <1>a, <1>b, <2>1 DEF EvictInv, AwaitingAt, Awaiting, Awaited, AckToSend
  <2>5. SnoopInv(c)'
    BY <1>a, <1>b, <2>1 DEF SnoopInv, OutstandingAt, Outstanding, Present,
                            Owns, Answered
  <2>6. DirInv(c)'
    BY <1>a, <1>b, <2>1 DEF DirInv, Present, Owns, Hot, Awaited, Awaiting,
                            Answered, Consumed, Asks, Leaves
  <2>7. QED
    BY <2>3, <2>4, <2>5, <2>6 DEF CacheInv
<1>2. ASSUME MissInv(c)', Consumed(c)' <=> Consumed(c),
             UNCHANGED <<st, drt, ewrq, evt, snpAck, wbData, snp, comp,
                         wbAck>>,
             vic'[c] = "clean" => st[c] # "M",
             req'[c].rtype = "None" => req'[c] = NoReq
      PROVE  CacheInv(c)'
  <2>1. BankInv(c)'
    BY <1>a, <1>2 DEF BankInv
  <2>2. EvictInv(c)' /\ SnoopInv(c)'
    BY <1>a, <1>b, <1>2 DEF EvictInv, AwaitingAt, Awaiting, Awaited,
          AckToSend, SnoopInv, OutstandingAt, Outstanding, Present, Owns,
          Answered
  <2>3. DirInv(c)'
    BY <1>a, <1>b, <1>2 DEF DirInv, Present, Owns, Hot, Awaited,
          Awaiting, Answered, Asks, Leaves
  <2>4. QED
    BY <1>2, <2>1, <2>2, <2>3 DEF CacheInv
<1>3. CASE \E mask \in StoreMask, v \in Val : StoreMiss(c, mask, v)
  <2>1. /\ mreq[c].phase = "idle" /\ mreq'[c].phase = "alloc"
        /\ UNCHANGED <<st, drt, vic, ewrq, req, evt, snpAck, ack, wbData, snp,
                       comp, wbAck>>
    BY <1>3 DEF StoreMiss, CoreReady, TypeOK, L1TypeOK, chanVars
  <2>2. MissInv(c)' /\ (Consumed(c)' <=> Consumed(c))
    BY <1>a, <1>b, <2>1 DEF MissInv, Open, Served, Queued, Consumed, Asks
  <2>3. QED
    BY <1>2, <1>a, <2>1, <2>2 DEF BankInv
<1>4. CASE LoadMiss(c)
  <2>1. /\ mreq[c].phase = "idle" /\ mreq'[c].phase = "alloc"
        /\ UNCHANGED <<st, drt, vic, ewrq, req, evt, snpAck, ack, wbData, snp,
                       comp, wbAck>>
    BY <1>4 DEF LoadMiss, CoreReady, TypeOK, L1TypeOK, chanVars, NoMiss
  <2>2. MissInv(c)' /\ (Consumed(c)' <=> Consumed(c))
    BY <1>a, <1>b, <2>1 DEF MissInv, Open, Served, Queued, Consumed, Asks
  <2>3. QED
    BY <1>2, <1>a, <2>1, <2>2 DEF BankInv
<1>5. CASE SendReq(c)
  <2>1. /\ mreq[c].phase = "alloc" /\ mreq'[c].phase = "sent"
        /\ req'[c] = ReqOf(mreq[c])
        /\ UNCHANGED <<st, drt, vic, ewrq, evt, snpAck, ack, wbData, snp,
                       comp, wbAck>>
        /\ ReqOf(mreq[c]) = ReqOf(mreq'[c])
        /\ ReqOf(mreq[c]).rtype # "None"
    BY <1>5 DEF SendReq, TypeOK, L1TypeOK, ChanTypeOK, Miss, ReqOf
  <2>2. MissInv(c)' /\ (Consumed(c)' <=> Consumed(c))
    BY <1>a, <1>b, <2>1 DEF MissInv, Open, Served, Queued, Consumed, Asks
  <2>3. QED
    BY <1>2, <1>a, <2>1, <2>2 DEF BankInv
<1>6. CASE FinishAck(c)
  <2>1. /\ mreq[c].phase = "refilled" /\ mreq'[c].phase = "idle" /\ ack'[c]
        /\ UNCHANGED <<st, drt, vic, ewrq, req, evt, snpAck, wbData, snp,
                       comp, wbAck>>
    BY <1>6 DEF FinishAck, TypeOK, L1TypeOK, ChanTypeOK, NoMiss
  <2>2. MissInv(c)' /\ (Consumed(c)' <=> Consumed(c))
    BY <1>a, <1>b, <2>1 DEF MissInv, Open, Served, Queued, Consumed, Asks
  <2>3. QED
    BY <1>2, <1>a, <2>1, <2>2 DEF BankInv
<1>7. CASE VictimPeek(c)
  <2>1. /\ mreq[c].phase = "idle" /\ (vic'[c] = "clean" => st[c] # "M")
        /\ UNCHANGED <<st, drt, mreq, ewrq, req, evt, snpAck, ack, wbData,
                       snp, comp, wbAck>>
    BY <1>7 DEF VictimPeek, TypeOK, L1TypeOK, chanVars
  <2>2. MissInv(c)' /\ (Consumed(c)' <=> Consumed(c))
    BY <1>a, <1>b, <2>1 DEF MissInv, Open, Served, Queued, Consumed, Asks
  <2>3. QED
    BY <1>2, <1>a, <2>1, <2>2 DEF BankInv
<1>8. QED
  BY <1>1, <1>3, <1>4, <1>5, <1>6, <1>7

\* A refill finds the transaction that asked for it, past its snoops; nobody
\* else may then have the line unless it is handed out SHARED.
LEMMA RefillStep ==
  ASSUME TypeOK, LineInOnePlace, OneAgent, ScuInv, NEW c \in Cache,
         CacheInv(c), Refill(c), UNCHANGED scuVars
  PROVE  CacheInv(c)'
<1>a. BankInv(c) /\ MissInv(c) /\ EvictInv(c) /\ SnoopInv(c) /\ DirInv(c)
  BY DEF CacheInv
<1>b. UNCHANGED <<mshr, respq, dataq, repl, replResp, llc>>
  BY DEF scuVars
<1>1. /\ comp[c].rtype # "None" /\ mreq[c].phase = "sent"
      /\ st'[c] = RefillState(mreq[c], comp[c])
      /\ mreq'[c].phase = "refilled" /\ comp'[c] = NoComp
      /\ UNCHANGED <<vic, ewrq, req, evt, snpAck, ack, wbData, snp, wbAck>>
  BY DEF Refill, TypeOK, L1TypeOK, ChanTypeOK, Miss
<1>2. ewrq[c].phase = "none" /\ vic[c] = "none"
  BY <1>1 DEF LineInOnePlace
<1>3. ewrq[c] = NoEwrq /\ evt[c] = "None"
  BY <1>a, <1>2 DEF BankInv, EvictInv
<1>4. /\ mshr.valid /\ mshr.cid = c /\ "ack" \in mshr.wait /\ ~ack[c]
      /\ mshr.resp_enq /\ req[c].rtype = "None" /\ Asks(mshr)
      /\ "dir" \in mshr.upd /\ ~Queued
  BY <1>1, <1>a DEF MissInv, Open, Served, ScuInv, Kinds, Stages
<1>5. /\ st'[c] \in {"S", "E", "M"}
      /\ mshr.rtype = "ReadShared" /\ mshr.sharers # {} => st'[c] = "S"
  BY <1>1, <1>4, <1>a DEF MissInv, RefillState, Open, Served
<1>6. ~Awaited(c) /\ snp[c].rtype = "None" /\ snpAck[c].rtype = "None"
  BY <1>4, <1>a, <1>2 DEF ScuInv, SnoopInv, OutstandingAt, Outstanding,
     Awaited, Awaiting, OneAgent, Fifos, SnoopLists, Leaves, Asks
<1>7. BankInv(c)'
  BY <1>1, <1>5, <1>2, <1>a DEF BankInv, NoComp
<1>8. MissInv(c)'
  BY <1>1, <1>b, <1>4, <1>a DEF MissInv, Open, Served, Queued, NoComp
<1>9. EvictInv(c)'
  BY <1>1, <1>b, <1>a, <1>6
     DEF EvictInv, AwaitingAt, Awaiting, Awaited, AckToSend
<1>10. SnoopInv(c)'
  BY <1>1, <1>b, <1>6, <1>4
     DEF SnoopInv, Answered, ScuInv, SnoopLists, FreeEntries, OneAgent, NoRepl
<1>11. DirInv(c)'
  BY <1>1, <1>b, <1>4, <1>5, <1>3, <1>6
     DEF DirInv, Present, Owns, Consumed, Asks, Leaves, NoEwrq
<1>12. QED
  BY <1>7, <1>8, <1>9, <1>10, <1>11 DEF CacheInv

\* The line leaves the bank, and the evict queue entry its stages.  What the
\* queue calls a write-back was MODIFIED until now: this is where a stale
\* victim would break coherence.
LEMMA LeaveStep ==
  ASSUME TypeOK, LineInOnePlace, NoStaleVictim, NEW c \in Cache, CacheInv(c),
         VictimEvict(c) \/ EwrqSend(c) \/ EwrqAck(c) \/ EwrqData(c),
         UNCHANGED scuVars
  PROVE  CacheInv(c)'
<1>a. BankInv(c) /\ MissInv(c) /\ EvictInv(c) /\ SnoopInv(c) /\ DirInv(c)
  BY DEF CacheInv
<1>b. UNCHANGED <<mshr, respq, dataq, repl, replResp, llc>>
  BY DEF scuVars
\* A step that keeps Present and adds no owner is harmless to the directory.
<1>1. ASSUME Present(c)' <=> Present(c), Owns(c)' => Hot(c),
             mreq[c].phase # "idle" => st'[c] = st[c],
             BankInv(c)', EvictInv(c)', 
             UNCHANGED <<mreq, req, snpAck, ack, snp, comp>>,
             snpAck[c].rtype # "None" => st'[c] \in {"I", "S"} /\ ~ewrq'[c].wb,
             Owns(c)' => Owns(c)
      PROVE  CacheInv(c)'
  <2>1. MissInv(c)'
    BY <1>a, <1>b, <1>1 DEF MissInv, Open, Served, Queued
  <2>2. SnoopInv(c)'
    BY <1>a, <1>b, <1>1 DEF SnoopInv, OutstandingAt, Outstanding, Answered
  <2>3. Awaited(c)' <=> Awaited(c)
    BY <1>b DEF Awaited, Awaiting
  <2>4. DirInv(c)'
    BY <1>a, <1>b, <1>1, <2>3 DEF DirInv, Hot, Consumed, Answered, Asks, Leaves
  <2>5. QED
    BY <1>1, <2>1, <2>2, <2>4 DEF CacheInv
<1>2. CASE VictimEvict(c)
  <2>1. /\ vic[c] # "none" /\ vic'[c] = "none" /\ st'[c] = "I" /\ drt'[c] = {}
        /\ UNCHANGED <<mreq, req, evt, snpAck, ack, wbData, snp, comp, wbAck>>
        /\ IF st[c] = "I" /\ drt[c] = {} THEN ewrq'[c] = ewrq[c]
           ELSE ewrq'[c].phase = "queued" /\ (ewrq'[c].wb <=> vic[c] = "dirty")
    BY <1>2 DEF VictimEvict, TypeOK, L1TypeOK, chanVars
  <2>2. mreq[c].phase = "idle" /\ ewrq[c].phase = "none"
    BY <2>1 DEF LineInOnePlace
  <2>3. ewrq[c] = NoEwrq /\ evt[c] = "None" /\ ~wbAck[c].vld
    BY <1>a, <2>2 DEF BankInv, EvictInv
  <2>4. vic[c] = "dirty" => st[c] \in {"M", "I"}
    BY DEF NoStaleVictim
  <2>5. CASE st[c] = "I"
    <3>1. ewrq'[c] = ewrq[c]
      BY <1>a, <2>1, <2>5 DEF BankInv
    <3>2. BankInv(c)' /\ EvictInv(c)'
      BY <1>a, <1>b, <2>1, <3>1, <2>5 DEF BankInv, EvictInv, AwaitingAt,
         Awaiting, Awaited, AckToSend
    <3>3. (Present(c)' <=> Present(c)) /\ (Owns(c)' <=> Owns(c))
      BY <2>1, <2>5, <3>1 DEF Present, Owns
    <3>4. QED
      BY <1>1, <1>a, <2>1, <2>5, <3>1, <3>2, <3>3 DEF SnoopInv, Hot
  <2>6. CASE st[c] # "I"
    <3>1. ewrq'[c].phase = "queued" /\ (ewrq'[c].wb => st[c] = "M")
      BY <2>1, <2>4, <2>6
    <3>2. BankInv(c)' /\ EvictInv(c)'
      BY <1>a, <1>b, <2>1, <2>3, <3>1, <2>6 DEF BankInv, EvictInv, AwaitingAt,
         Awaiting, Awaited, AckToSend
    <3>3. (Present(c)' <=> Present(c)) /\ (Owns(c)' => Owns(c))
      BY <2>1, <2>6, <3>1 DEF Present, Owns
    <3>4. QED
      BY <1>1, <1>a, <2>1, <2>2, <3>1, <3>2, <3>3 DEF SnoopInv, Hot
  <2>7. QED
    BY <2>5, <2>6
<1>3. CASE EwrqSend(c)
  <2>1. /\ ewrq[c].phase = "queued" /\ ewrq'[c].phase = "sent"
        /\ ewrq'[c].wb = ewrq[c].wb
        /\ evt'[c] = IF ewrq[c].wb THEN "WriteBackPartial" ELSE "Evict"
        /\ UNCHANGED <<st, drt, mreq, vic, req, snpAck, ack, wbData, snp, comp,
                       wbAck>>
    BY <1>3 DEF EwrqSend, TypeOK, L1TypeOK, ChanTypeOK, Ewrq
  <2>2. BankInv(c)' /\ EvictInv(c)'
    BY <1>a, <1>b, <2>1 DEF BankInv, EvictInv, AwaitingAt, Awaiting, Awaited,
       AckToSend
  <2>3. (Present(c)' <=> Present(c)) /\ (Owns(c)' <=> Owns(c))
    BY <2>1 DEF Present, Owns
  <2>4. QED
    BY <1>1, <1>a, <2>1, <2>2, <2>3 DEF SnoopInv, Hot
<1>4. CASE EwrqAck(c)
  <2>1. /\ wbAck[c].vld /\ wbAck'[c] = NoWbAck
        /\ ewrq'[c] = AckedEwrq(ewrq[c], wbAck[c].tid)
        /\ UNCHANGED <<st, drt, mreq, vic, req, evt, snpAck, ack, wbData, snp,
                       comp>>
    BY <1>4 DEF EwrqAck, TypeOK, L1TypeOK, ChanTypeOK
  <2>2. /\ ewrq[c].phase = "sent" /\ evt[c] = "None"
        /\ ewrq[c].wb => AwaitingAt(wbAck[c].tid, c)
        /\ ewrq[c] \in Ewrq /\ wbAck[c] \in WbAckMsg
    BY <1>a, <2>1 DEF EvictInv, TypeOK, L1TypeOK, ChanTypeOK
  <2>3. IF ewrq[c].wb
        THEN ewrq'[c].phase = "acked" /\ ewrq'[c].wb
             /\ ewrq'[c].tid = wbAck[c].tid
        ELSE ewrq'[c] = NoEwrq
    BY <2>1, <2>2 DEF AckedEwrq, Ewrq
  <2>4. BankInv(c)' /\ EvictInv(c)'
    BY <1>a, <1>b, <2>1, <2>2, <2>3 DEF BankInv, EvictInv, AwaitingAt,
       Awaiting, Awaited, AckToSend, NoWbAck, NoEwrq
  <2>5. (Present(c)' <=> Present(c)) /\ (Owns(c)' <=> Owns(c))
    BY <2>1, <2>2, <2>3 DEF Present, Owns, NoEwrq
  <2>6. QED
    BY <1>1, <1>a, <2>1, <2>3, <2>4, <2>5 DEF SnoopInv, Hot, NoEwrq
<1>5. CASE EwrqData(c)
  <2>1. /\ ewrq[c].phase = "acked" /\ ewrq'[c] = NoEwrq
        /\ wbData'[c].vld /\ wbData'[c].tid = ewrq[c].tid
        /\ UNCHANGED <<st, drt, mreq, vic, req, evt, snpAck, ack, snp, comp,
                       wbAck>>
    BY <1>5 DEF EwrqData, TypeOK, L1TypeOK, ChanTypeOK
  <2>2. evt[c] = "None" /\ ~wbAck[c].vld
    BY <1>a, <2>1 DEF EvictInv
  <2>3. BankInv(c)' /\ EvictInv(c)'
    BY <1>a, <1>b, <2>1, <2>2 DEF BankInv, EvictInv, AwaitingAt,
       Awaiting, Awaited, AckToSend, NoEwrq
  <2>4. (Present(c)' <=> Present(c)) /\ (Owns(c)' => Owns(c))
    BY <2>1, <2>2 DEF Present, Owns, NoEwrq
  <2>5. QED
    BY <1>1, <1>a, <2>1, <2>3, <2>4 DEF SnoopInv, Hot, NoEwrq
<1>6. QED
  BY <1>2, <1>3, <1>4, <1>5

\* A snoop takes the line away, or the right to write it.
LEMMA SnoopStep ==
  ASSUME TypeOK, LineInOnePlace, ScuInv, OneAgent, NEW c \in Cache,
         CacheInv(c), Snoop(c), UNCHANGED scuVars
  PROVE  CacheInv(c)'
<1>a. BankInv(c) /\ MissInv(c) /\ EvictInv(c) /\ SnoopInv(c) /\ DirInv(c)
  BY DEF CacheInv
<1>b. UNCHANGED <<mshr, respq, dataq, repl, replResp, llc>>
  BY DEF scuVars
<1>1. /\ snp[c].rtype # "None" /\ ewrq[c].phase = "none"
      /\ st'[c] = SnoopedState(st[c], snp[c].rtype) /\ drt'[c] = {}
      /\ snpAck'[c] = SnoopAnswer(st[c], dat[c], drt[c], snp[c].tid)
      /\ snp'[c] = NoSnp
      /\ UNCHANGED <<mreq, vic, ewrq, req, evt, ack, wbData, comp, wbAck>>
  BY DEF Snoop, SnoopReady, TypeOK, L1TypeOK, ChanTypeOK
<1>2. /\ snpAck'[c].tid = snp[c].tid /\ snpAck'[c].rtype # "None"
      /\ snpAck'[c].rtype = "FoundM" <=> st[c] = "M"
  BY <1>1 DEF SnoopAnswer, NoSnpAck
<1>3. /\ st'[c] \in {"I", "S"} /\ (st[c] = "I" => st'[c] = "I")
      /\ snp[c].rtype = "SnpUnique" => st'[c] = "I"
      /\ snp[c].rtype # "SnpUnique" /\ st[c] # "I" => st'[c] = "S"
  <2>1. snp[c].rtype \in {"SnpUnique", "SnpShared"}
    BY <1>1 DEF TypeOK, ChanTypeOK, SnpMsg, SnpType
  <2>2. QED
    BY <1>1, <2>1 DEF SnoopedState
<1>4. ewrq[c] = NoEwrq /\ evt[c] = "None" /\ ~wbAck[c].vld
  BY <1>a, <1>1 DEF BankInv, EvictInv
<1>5. OutstandingAt(snp[c].tid, c) /\ snp[c].tid \in {"mshr", "repl"}
  BY <1>a, <1>1 DEF SnoopInv, TypeOK, ChanTypeOK, SnpMsg, ScuTid
<1>6. BankInv(c)'
  BY <1>a, <1>1, <1>2, <1>3 DEF BankInv
<1>7. ~Open(c) \/ snp[c].tid = "repl"
  BY <1>5 DEF Open, Served, OutstandingAt, Outstanding, ScuInv, SnoopLists
<1>8. ~Open(c)
  BY <1>5, <1>7 DEF Open, Served, OutstandingAt, Outstanding, OneAgent
<1>9. MissInv(c)'
  BY <1>a, <1>b, <1>1, <1>8 DEF MissInv, Open, Served, Queued
<1>10. EvictInv(c)'
  BY <1>a, <1>b, <1>1, <1>2, <1>3, <1>4 DEF EvictInv, AwaitingAt, Awaiting,
     Awaited, AckToSend
<1>11. c \notin Answered(mshr) /\ c \notin Answered(repl)
  BY <1>5 DEF OutstandingAt, Outstanding, ScuInv, FreeEntries, OneAgent,
              NoMshr, NoRepl, Answered
<1>12. SnoopInv(c)'
  BY <1>a, <1>b, <1>1, <1>2, <1>3, <1>4, <1>5, <1>11
     DEF SnoopInv, OutstandingAt, Outstanding, Answered, Present, NoEwrq, NoSnp
<1>13. DirInv(c)'
  <2>1. Awaited(c)' <=> Awaited(c)
    BY <1>b DEF Awaited, Awaiting
  <2>2. /\ Present(c)' => Present(c)
        /\ Owns(c)' => Owns(c)
        /\ Present(c) <=> st[c] # "I"
    BY <1>1, <1>2, <1>3, <1>4 DEF Present, Owns, NoEwrq
  <2>3. CASE mshr.valid /\ "dir" \in mshr.upd
    <3>1. c # mshr.cid /\ snp[c].tid = "mshr"
      BY <1>5, <2>3 DEF OutstandingAt, Outstanding, ScuInv, SnoopLists,
                        OneAgent
    <3>2. Present(c) => Present(c)' \/ mshr.inv_snp
      BY <1>a, <1>1, <1>3, <2>2, <3>1 DEF SnoopInv, Present
    <3>3. QED
      BY <1>a, <1>b, <1>2, <2>1, <2>2, <2>3, <3>1, <3>2, <1>11
         DEF DirInv, Hot, Answered
  <2>4. CASE ~(mshr.valid /\ "dir" \in mshr.upd)
    <3>1. repl.valid
      BY <1>5, <2>4 DEF OutstandingAt, Outstanding, ScuInv, Stages,
                        AllAnswered
    <3>2. QED
      BY <1>a, <1>b, <2>1, <2>2, <2>4, <3>1 DEF DirInv, Hot, Answered
  <2>5. QED
    BY <2>3, <2>4
<1>14. QED
  BY <1>6, <1>9, <1>10, <1>12, <1>13 DEF CacheInv

\* Every step of a private cache.
LEMMA L1Step1 ==
  ASSUME TypeOK, LineInOnePlace, OneAgent, NoStaleVictim, ScuInv,
         \A x \in Cache : CacheInv(x), L1Next, UNCHANGED scuVars
  PROVE  \A x \in Cache : CacheInv(x)'
<1>1. PICK c \in Cache :
         \/ \E mask \in StoreMask, v \in Val : StoreHit(c, mask, v)
         \/ \E mask \in StoreMask, v \in Val : StoreMiss(c, mask, v)
         \/ LoadMiss(c) \/ SendReq(c) \/ Refill(c) \/ FinishAck(c)
         \/ VictimPeek(c) \/ VictimEvict(c) \/ EwrqSend(c) \/ EwrqAck(c)
         \/ EwrqData(c) \/ Snoop(c)
  BY DEF L1Next
<1>2. CacheInv(c)'
  BY <1>1, CoreStep, RefillStep, LeaveStep, SnoopStep
<1>3. ASSUME NEW x \in Cache, x # c PROVE CacheInv(x)'
  BY <1>1, <1>3, BankLocal, FrameStep
<1>4. QED
  BY <1>2, <1>3

-----------------------------------------------------------------------------
\* Steps of the SCU.

\* What allocation decides stays as it is.
ConfKept ==
    /\ mshr'.valid = mshr.valid /\ mshr'.rtype = mshr.rtype
    /\ mshr'.cid = mshr.cid /\ mshr'.owner = mshr.owner
    /\ mshr'.sharers = mshr.sharers /\ mshr'.snp_need = mshr.snp_need
    /\ mshr'.inv_snp = mshr.inv_snp
    /\ repl'.valid = repl.valid /\ repl'.snp_need = repl.snp_need

\* What cache x sees of the SCU stays as it is.
ViewKept(x) ==
    /\ ConfKept
    /\ llc'.valid = llc.valid /\ llc'.owner = llc.owner
    /\ llc'.sharers = llc.sharers
    /\ "dir" \in mshr'.upd <=> "dir" \in mshr.upd
    /\ x \in mshr'.snp_sent <=> x \in mshr.snp_sent
    /\ x \in Answered(mshr)' <=> x \in Answered(mshr)
    /\ x \in mshr'.evict <=> x \in mshr.evict
    /\ x \in repl'.snp_sent <=> x \in repl.snp_sent
    /\ x \in Answered(repl)' <=> x \in Answered(repl)
    /\ x \in repl'.evict <=> x \in repl.evict
    /\ Awaiting(mshr, x)' <=> Awaiting(mshr, x)
    /\ Awaiting(repl, x)' <=> Awaiting(repl, x)
    /\ AckToSend(x)' <=> AckToSend(x)
    /\ x = mshr.cid => /\ "ack" \in mshr'.wait <=> "ack" \in mshr.wait
                       /\ mshr'.resp_enq <=> mshr.resp_enq
                       /\ Queued' <=> Queued

\* A step of the SCU that changes nothing of this keeps the invariant of x.
LEMMA ViewStep ==
  ASSUME NEW x \in Cache, CacheInv(x), SameAt(x), ViewKept(x)
  PROVE  CacheInv(x)'
<1> USE DEF SameAt, ViewKept, ConfKept
<1>1. BankInv(x)'
  BY DEF CacheInv, BankInv
<1>2. Served(x)' <=> Served(x)
  BY DEF Served
<1>3. MissInv(x)'
  BY <1>2 DEF CacheInv, MissInv, Open, Served
<1>4. EvictInv(x)'
  BY DEF CacheInv, EvictInv, AwaitingAt, Awaited
<1>5. /\ Outstanding(mshr, x)' <=> Outstanding(mshr, x)
      /\ Outstanding(repl, x)' <=> Outstanding(repl, x)
  BY DEF Outstanding, Answered
<1>6. (Present(x)' <=> Present(x)) /\ (Owns(x)' <=> Owns(x))
  BY DEF Present, Owns
<1>7. SnoopInv(x)'
  BY <1>5, <1>6 DEF CacheInv, SnoopInv, OutstandingAt
<1>8. Hot(x)' <=> Hot(x)
  BY <1>6 DEF Hot, Awaited
<1>9. Consumed(x)' <=> Consumed(x)
  BY DEF Consumed, Asks
<1>10. DirInv(x)'
  BY <1>6, <1>8, <1>9 DEF CacheInv, DirInv, Asks, Leaves
<1>11. QED
  BY <1>1, <1>3, <1>4, <1>7, <1>10 DEF CacheInv

\* An entry that is free has nothing to do.
LEMMA ValidEntry ==
  ASSUME ScuInv
  PROVE  /\ mshr.wait # {} \/ mshr.snp_need # {} => mshr.valid
         /\ repl.wait # {} \/ repl.snp_need # {} \/ repl.mem # "idle"
               => repl.valid
BY DEF ScuInv, FreeEntries, NoMshr, NoRepl

\* Reads of memory and of the data RAM, and the writes of what was read: no
\* cache sees them.
LEMMA DataStep ==
  ASSUME TypeOK, ScuInv, \A x \in Cache : CacheInv(x), UNCHANGED l1Vars,
         \/ MemRead \/ LlcRead \/ FinalEnqueue \/ (DataWrite /\ WritesOwned)
         \/ ReplLlcRead \/ ReplMemEnqueue \/ ReplMemWrite
  PROVE  ScuInv' /\ \A x \in Cache : CacheInv(x)'
<1>a. mshr \in Mshr /\ repl \in Repl /\ llc \in Llc
  BY DEF TypeOK, ScuTypeOK
<1>b. FreeEntries /\ SnoopLists /\ Kinds /\ Stages /\ Fifos
  BY DEF ScuInv
<1>c. \A x \in Cache : SameAt(x)
  BY DEF SameAt, l1Vars, MemRead, LlcRead, FinalEnqueue, DataWrite,
         ReplLlcRead, ReplMemEnqueue, ReplMemWrite, chanVars
<1>d. UNCHANGED <<respq, dataq, replResp>>
  BY DEF MemRead, LlcRead, FinalEnqueue, DataWrite, ReplLlcRead,
         ReplMemEnqueue, ReplMemWrite
<1> DEFINE MshrKept ==
      /\ mshr'.valid = mshr.valid /\ mshr'.rtype = mshr.rtype
      /\ mshr'.cid = mshr.cid /\ mshr'.wb_cid = mshr.wb_cid
      /\ mshr'.owner = mshr.owner /\ mshr'.sharers = mshr.sharers
      /\ mshr'.snp_need = mshr.snp_need /\ mshr'.snp_sent = mshr.snp_sent
      /\ mshr'.snp_resp = mshr.snp_resp /\ mshr'.snp_data = mshr.snp_data
      /\ mshr'.evict = mshr.evict /\ mshr'.inv_snp = mshr.inv_snp
      /\ mshr'.resp_enq = mshr.resp_enq
<1> DEFINE ReplKept ==
      /\ repl'.valid = repl.valid /\ repl'.wb_cid = repl.wb_cid
      /\ repl'.snp_need = repl.snp_need /\ repl'.snp_sent = repl.snp_sent
      /\ repl'.snp_resp = repl.snp_resp /\ repl'.snp_data = repl.snp_data
      /\ repl'.evict = repl.evict
<1> DEFINE LlcKept ==
      /\ llc'.valid = llc.valid /\ llc'.owner = llc.owner
      /\ llc'.sharers = llc.sharers
<1>1. ASSUME MshrKept, ReplKept, LlcKept,
             mshr'.wait \subseteq mshr.wait, repl'.wait \subseteq repl.wait,
             mshr.wait \ mshr'.wait \subseteq {"llc", "mem"},
             repl.wait \ repl'.wait \subseteq {"llc"},
             mshr'.upd \subseteq mshr.upd,
             "dir" \in mshr'.upd <=> "dir" \in mshr.upd,
             mshr'.upd_enq => mshr'.wait = {} /\ AllAnswered(mshr'),
             mshr.upd_enq => mshr'.upd_enq,
             mshr.data_valid = Burst => mshr'.data_valid = Burst,
             mshr'.wait = mshr.wait \/ mshr'.data_valid = Burst,
             ~mshr.valid => mshr' = mshr, ~repl.valid => repl' = repl
      PROVE  ScuInv' /\ \A x \in Cache : CacheInv(x)'
  <2>1. ASSUME NEW x \in Cache PROVE CacheInv(x)'
    <3>1. "wb" \in mshr'.wait <=> "wb" \in mshr.wait
      BY <1>1
    <3>2. "ack" \in mshr'.wait <=> "ack" \in mshr.wait
      BY <1>1
    <3>3. "wb" \in repl'.wait <=> "wb" \in repl.wait
      BY <1>1
    <3>4. ViewKept(x)
      BY <1>1, <1>d, <3>1, <3>2, <3>3 DEF ViewKept, ConfKept, Answered,
         Awaiting, AckToSend, Queued
    <3>5. QED
      BY <1>c, <3>4, ViewStep
  <2>2. FreeEntries' /\ SnoopLists'
    BY <1>b, <1>1, <1>d DEF FreeEntries, SnoopLists, Answered
  <2>3. Kinds'
    BY <1>b, <1>1 DEF Kinds, Asks, Leaves
  <2>4. Stages'
    BY <1>b, <1>1 DEF Stages, Asks, AllAnswered
  <2>5. Fifos'
    BY <1>b, <1>1, <1>d DEF Fifos
  <2>6. QED
    BY <2>1, <2>2, <2>3, <2>4, <2>5 DEF ScuInv
<1>2. CASE MemRead
  <2>1. /\ "mem" \in mshr.wait /\ mshr' \in Mshr /\ mshr'.data_valid = Burst
        /\ mshr'.wait = mshr.wait \ {"mem"} /\ mshr'.upd = mshr.upd
        /\ mshr'.upd_enq = mshr.upd_enq /\ MshrKept
        /\ UNCHANGED <<repl, llc>>
    BY <1>a, <1>2 DEF MemRead, Mshr, TypeOK, ScuTypeOK
  <2>2. mshr.valid /\ ~mshr.upd_enq
    BY <1>b, <2>1, ValidEntry DEF Stages
  <2>3. QED
    BY <1>1, <2>1, <2>2, <1>a
<1>3. CASE LlcRead
  <2>1. /\ "llc" \in mshr.wait /\ mshr'.data_valid = Burst
        /\ mshr'.wait = mshr.wait \ {"llc"} /\ mshr'.upd = mshr.upd
        /\ mshr'.upd_enq = mshr.upd_enq /\ MshrKept
        /\ UNCHANGED <<repl, llc>>
    BY <1>a, <1>3 DEF LlcRead, GotLlcData, Mshr
  <2>2. mshr.valid /\ ~mshr.upd_enq
    BY <1>b, <2>1, ValidEntry DEF Stages
  <2>3. QED
    BY <1>1, <2>1, <2>2, <1>a
<1>4. CASE FinalEnqueue
  <2>1. /\ RespFinished(mshr) /\ mshr'.data_valid = mshr.data_valid
        /\ mshr'.wait = mshr.wait /\ mshr'.upd = mshr.upd
        /\ mshr'.upd_enq /\ MshrKept
        /\ UNCHANGED <<repl, llc>>
    BY <1>a, <1>4 DEF FinalEnqueue, NeedsUpdate, Mshr
  <2>2. mshr.wait \in SUBSET {"wb", "mem", "llc", "ack"}
    BY <1>a DEF Mshr
  <2>3. mshr.valid /\ mshr.wait = {} /\ AllAnswered(mshr)
    BY <2>1, <2>2 DEF RespFinished, TransitionFinished
  <2>4. AllAnswered(mshr')
    BY <2>1, <2>3 DEF AllAnswered
  <2>5. QED
    BY <1>1, <2>1, <2>3, <2>4
<1>5. CASE DataWrite /\ WritesOwned
  <2>1. /\ mshr.valid /\ mshr'.data_valid = mshr.data_valid
        /\ mshr'.wait = mshr.wait /\ mshr'.upd = mshr.upd \ {"data"}
        /\ mshr'.upd_enq = mshr.upd_enq /\ MshrKept /\ LlcKept
        /\ UNCHANGED repl
    BY <1>a, <1>5 DEF DataWrite, WritesOwned, Mshr, Llc
  <2>2. mshr'.upd_enq => mshr'.wait = {} /\ AllAnswered(mshr')
    BY <1>b, <2>1 DEF Stages, AllAnswered
  <2>3. QED
    BY <1>1, <2>1, <2>2
<1>6. ASSUME ReplLlcRead \/ ReplMemEnqueue \/ ReplMemWrite
      PROVE  ScuInv' /\ \A x \in Cache : CacheInv(x)'
  <2>1. repl.valid
    BY <1>6, ValidEntry DEF ReplLlcRead, ReplMemEnqueue, ReplMemWrite,
                            TransitionFinished
  <2>2. CASE ReplLlcRead
    <3>1. /\ ReplKept /\ repl'.wait = repl.wait \ {"llc"}
          /\ UNCHANGED <<mshr, llc>>
      BY <1>a, <2>2 DEF ReplLlcRead, GotLlcData, Repl
    <3>2. mshr.upd_enq => mshr.wait = {} /\ AllAnswered(mshr)
      BY <1>b DEF Stages, FreeEntries, NoMshr
    <3>3. QED
      BY <1>1, <2>1, <3>1, <3>2
  <2>3. CASE ReplMemEnqueue \/ ReplMemWrite
    <3>1. ReplKept /\ repl'.wait = repl.wait /\ UNCHANGED <<mshr, llc>>
      BY <1>a, <2>3 DEF ReplMemEnqueue, ReplMemWrite, Repl
    <3>2. mshr.upd_enq => mshr.wait = {} /\ AllAnswered(mshr)
      BY <1>b DEF Stages, FreeEntries, NoMshr
    <3>3. QED
      BY <1>1, <2>1, <3>1, <3>2
  <2>4. QED
    BY <1>6, <2>2, <2>3
<1>7. QED
  BY <1>2, <1>3, <1>4, <1>5, <1>6

\* A snoop is sent over an empty channel, to a cache the entry has not heard.
LEMMA SendSnpStep ==
  ASSUME TypeOK, OneAgent, ScuInv, \A x \in Cache : CacheInv(x),
         UNCHANGED l1Vars, NEW c \in Cache, SendSnp(c) \/ ReplSendSnp(c)
  PROVE  ScuInv' /\ \A x \in Cache : CacheInv(x)'
<1>a. mshr \in Mshr /\ repl \in Repl /\ snp \in [Cache -> SnpMsg]
  BY DEF TypeOK, ScuTypeOK, ChanTypeOK
<1>b. FreeEntries /\ SnoopLists /\ Kinds /\ Stages /\ Fifos
  BY DEF ScuInv
<1>c. BankInv(c) /\ MissInv(c) /\ EvictInv(c) /\ SnoopInv(c) /\ DirInv(c)
  BY DEF CacheInv
<1>1. /\ UNCHANGED <<respq, dataq, replResp, llc>>
      /\ UNCHANGED <<req, evt, snpAck, ack, wbData, comp, wbAck>>
      /\ \A x \in Cache : x # c => snp'[x] = snp[x]
  BY <1>a DEF SendSnp, ReplSendSnp
<1>2. UNCHANGED <<st, drt, mreq, vic, ewrq>>
  BY DEF l1Vars
<1>3. \A x \in Cache : x # c => SameAt(x)
  BY <1>1, <1>2 DEF SameAt
<1>4. CASE SendSnp(c)
  <2>1. /\ c \in mshr.snp_need \ mshr.snp_sent
        /\ mshr'.snp_sent = mshr.snp_sent \cup {c}
        /\ snp'[c].tid = "mshr" /\ snp'[c].rtype # "None"
        /\ snp'[c].rtype = "SnpUnique" <=> mshr.inv_snp
        /\ repl' = repl
    BY <1>a, <1>4 DEF SendSnp, SnpToSend, Mshr
  <2>2. /\ ConfKept /\ mshr'.wb_cid = mshr.wb_cid
        /\ mshr'.snp_resp = mshr.snp_resp /\ mshr'.snp_data = mshr.snp_data
        /\ mshr'.evict = mshr.evict /\ mshr'.wait = mshr.wait
        /\ mshr'.upd = mshr.upd /\ mshr'.resp_enq = mshr.resp_enq
        /\ mshr'.upd_enq = mshr.upd_enq /\ mshr'.data_valid = mshr.data_valid
    BY <1>a, <1>4, <2>1 DEF SendSnp, Mshr, ConfKept
  <2>3. mshr.valid /\ ~repl.valid /\ ~mshr.resp_enq /\ ~mshr.upd_enq
    BY <1>b, <2>1, ValidEntry DEF Stages, AllAnswered, OneAgent
  <2>4. ScuInv'
    BY <1>b, <1>1, <2>1, <2>2, <2>3 DEF ScuInv, FreeEntries, SnoopLists,
       Kinds, Stages, Fifos, ConfKept, Answered, Asks, Leaves
  <2>5. c \notin Answered(mshr) /\ snp[c].rtype = "None"
        /\ snpAck[c].rtype = "None"
    BY <1>b, <1>c, <2>1, <2>3 DEF SnoopInv, OutstandingAt, Outstanding,
                                  SnoopLists
  <2>6. BankInv(c)' /\ MissInv(c)' /\ EvictInv(c)'
    BY <1>c, <1>1, <1>2, <2>1, <2>2 DEF BankInv, MissInv, EvictInv, ConfKept,
       Open, Served, Queued, AwaitingAt, Awaiting, Awaited, AckToSend
  <2>7. SnoopInv(c)'
    BY <1>c, <1>1, <1>2, <2>1, <2>2, <2>3, <2>5 DEF SnoopInv, ConfKept,
       OutstandingAt, Outstanding, Answered, Present, Owns
  <2>8. DirInv(c)'
    BY <1>c, <1>1, <1>2, <2>1, <2>2 DEF DirInv, ConfKept, Present, Owns, Hot,
       Awaited, Awaiting, Answered, Consumed, Asks, Leaves
  <2>9. \A x \in Cache : x # c => ViewKept(x)
    BY <1>1, <2>1, <2>2 DEF ViewKept, ConfKept, Answered, Awaiting, AckToSend,
                            Queued
  <2>10. QED
    BY <1>3, <2>4, <2>6, <2>7, <2>8, <2>9, ViewStep DEF CacheInv
<1>5. CASE ReplSendSnp(c)
  <2>1. /\ c \in repl.snp_need \ repl.snp_sent
        /\ repl'.snp_sent = repl.snp_sent \cup {c}
        /\ snp'[c].tid = "repl" /\ snp'[c].rtype = "SnpUnique"
        /\ mshr' = mshr
    BY <1>a, <1>5 DEF ReplSendSnp, SnpToSend, Repl
  <2>2. /\ ConfKept /\ repl'.wb_cid = repl.wb_cid
        /\ repl'.snp_resp = repl.snp_resp /\ repl'.snp_data = repl.snp_data
        /\ repl'.evict = repl.evict /\ repl'.wait = repl.wait
    BY <1>a, <1>5, <2>1 DEF ReplSendSnp, Repl, ConfKept
  <2>3. repl.valid /\ ~mshr.valid
    BY <2>1, ValidEntry DEF OneAgent
  <2>4. ScuInv'
    BY <1>b, <1>1, <2>1, <2>2, <2>3 DEF ScuInv, FreeEntries, SnoopLists,
       Kinds, Stages, Fifos, ConfKept, Answered
  <2>5. c \notin Answered(repl) /\ snp[c].rtype = "None"
        /\ snpAck[c].rtype = "None"
    BY <1>b, <1>c, <2>1, <2>3 DEF SnoopInv, OutstandingAt, Outstanding,
                                  SnoopLists
  <2>6. BankInv(c)' /\ MissInv(c)' /\ EvictInv(c)'
    BY <1>c, <1>1, <1>2, <2>1, <2>2 DEF BankInv, MissInv, EvictInv, ConfKept,
       Open, Served, Queued, AwaitingAt, Awaiting, Awaited, AckToSend
  <2>7. SnoopInv(c)'
    BY <1>c, <1>1, <1>2, <2>1, <2>2, <2>3, <2>5 DEF SnoopInv, ConfKept,
       OutstandingAt, Outstanding, Answered, Present, Owns
  <2>8. DirInv(c)'
    BY <1>c, <1>1, <1>2, <2>1, <2>2 DEF DirInv, ConfKept, Present, Owns, Hot,
       Awaited, Awaiting, Answered, Consumed, Asks, Leaves
  <2>9. \A x \in Cache : x # c => ViewKept(x)
    BY <1>1, <2>1, <2>2 DEF ViewKept, ConfKept, Answered, Awaiting, AckToSend,
                            Queued
  <2>10. QED
    BY <1>3, <2>4, <2>6, <2>7, <2>8, <2>9, ViewStep DEF CacheInv
<1>6. QED
  BY <1>4, <1>5

\* While a transaction or a replacement is under way, the cache that may
\* write the line is the only sharer it started from.
LEMMA OwnerAlone ==
  ASSUME OneAgent, ScuInv, NEW c \in Cache, NEW d \in Cache,
         CacheInv(c), CacheInv(d), Hot(c), Hot(d)
  PROVE  /\ mshr.valid /\ "dir" \in mshr.upd /\ c # mshr.cid /\ d # mshr.cid
               => c = d
         /\ repl.valid => c = d
BY DEF CacheInv, DirInv, OneAgent

\* The SCU awaits data of a cache other than the one that answered with them.
LEMMA NoSecondData ==
  ASSUME TypeOK, OneAgent, ScuInv, \A x \in Cache : CacheInv(x),
         NEW c \in Cache, snpAck[c].rtype = "FoundM"
  PROVE  IF snpAck[c].tid = "mshr"
         THEN /\ Outstanding(mshr, c) /\ "wb" \notin mshr.wait
              /\ mshr.owner /\ mshr.sharers = {c} /\ mshr.snp_data = {}
         ELSE /\ Outstanding(repl, c) /\ "wb" \notin repl.wait
              /\ repl.snp_need = {c} /\ repl.snp_data = {}
<1>a. BankInv(c) /\ MissInv(c) /\ EvictInv(c) /\ SnoopInv(c) /\ DirInv(c)
  BY DEF CacheInv
<1>b. FreeEntries /\ SnoopLists /\ Kinds /\ Stages /\ Fifos
  BY DEF ScuInv
<1>c. Hot(c)
  BY DEF Hot, Owns
<1>1. CASE snpAck[c].tid = "mshr"
  <2>1. Outstanding(mshr, c)
    BY <1>1, <1>a DEF SnoopInv, OutstandingAt
  <2>2. mshr.valid /\ c # mshr.cid /\ "dir" \in mshr.upd /\ ~Leaves(mshr)
    BY <1>b, <2>1 DEF Outstanding, SnoopLists, Stages, AllAnswered, Kinds
  <2>3. mshr.owner /\ mshr.sharers = {c}
    BY <1>a, <1>c, <2>2 DEF DirInv
  <2>4. mshr.snp_data = {}
    BY <1>b, <2>1, <2>3 DEF Outstanding, SnoopLists, Answered
  <2>5. ASSUME "wb" \in mshr.wait PROVE FALSE
    <3>1. mshr.wb_cid \in Cache /\ mshr.wb_cid # mshr.cid
      BY <1>b, <2>2, <2>5 DEF Fifos, Leaves
    <3>2. Awaited(mshr.wb_cid)
      BY <2>2, <2>5 DEF Awaited, Awaiting
    <3>3. mshr.wb_cid = c
      BY <1>c, <2>2, <3>1, <3>2, OwnerAlone DEF Hot
    <3>4. QED
      BY <1>a, <3>2, <3>3 DEF EvictInv
  <2>6. QED
    BY <1>1, <2>1, <2>3, <2>4, <2>5
<1>2. CASE snpAck[c].tid # "mshr"
  <2>1. Outstanding(repl, c)
    BY <1>2, <1>a DEF SnoopInv, OutstandingAt
  <2>2. repl.valid /\ ~mshr.valid
    BY <2>1 DEF Outstanding, OneAgent
  <2>3. repl.snp_need = {c}
    BY <1>a, <1>c, <2>2 DEF DirInv
  <2>4. repl.snp_data = {}
    BY <1>b, <2>1, <2>3 DEF Outstanding, SnoopLists, Answered
  <2>5. ASSUME "wb" \in repl.wait PROVE FALSE
    <3>1. repl.wb_cid \in Cache
      BY <1>b, <2>5 DEF Fifos
    <3>2. Awaited(repl.wb_cid)
      BY <2>2, <2>5 DEF Awaited, Awaiting
    <3>3. repl.wb_cid = c
      BY <1>c, <2>2, <3>1, <3>2, OwnerAlone DEF Hot
    <3>4. QED
      BY <1>a, <3>2, <3>3 DEF EvictInv
  <2>6. QED
    BY <1>2, <2>1, <2>3, <2>4, <2>5
<1>3. QED
  BY <1>1, <1>2

\* The answer of a snoop.
LEMMA RecvSnpAckStep ==
  ASSUME TypeOK, OneAgent, ScuInv, \A x \in Cache : CacheInv(x),
         UNCHANGED l1Vars, NEW c \in Cache, RecvSnpAck(c)
  PROVE  ScuInv' /\ \A x \in Cache : CacheInv(x)'
<1>a. /\ mshr \in Mshr /\ repl \in Repl
      /\ snpAck[c] \in SnpAckMsg /\ snpAck \in [Cache -> SnpAckMsg]
  BY DEF TypeOK, ScuTypeOK, ChanTypeOK
<1>b. FreeEntries /\ SnoopLists /\ Kinds /\ Stages /\ Fifos
  BY DEF ScuInv
<1>c. BankInv(c) /\ MissInv(c) /\ EvictInv(c) /\ SnoopInv(c) /\ DirInv(c)
  BY DEF CacheInv
<1>1. /\ snpAck[c].rtype # "None" /\ snpAck'[c] = NoSnpAck
      /\ UNCHANGED <<respq, dataq, replResp, llc>>
      /\ UNCHANGED <<req, evt, ack, wbData, snp, comp, wbAck>>
      /\ \A x \in Cache : x # c => snpAck'[x] = snpAck[x]
  BY <1>a DEF RecvSnpAck
<1>2. UNCHANGED <<st, drt, mreq, vic, ewrq>>
  BY DEF l1Vars
<1>3. \A x \in Cache : x # c => SameAt(x)
  BY <1>1, <1>2 DEF SameAt
<1>4. /\ snpAck'[c].rtype = "None" /\ snp[c].rtype = "None"
      /\ st[c] \in {"I", "S"} /\ ~ewrq[c].wb
  BY <1>c, <1>1 DEF SnoopInv, NoSnpAck
<1>5. Present(c)' <=> Present(c)
  BY <1>1, <1>2 DEF Present
<1>6. ~Owns(c)'
  BY <1>2, <1>4 DEF Owns
<1>7. CASE snpAck[c].tid = "mshr"
  <2>1. Outstanding(mshr, c) /\ (mshr.inv_snp => ~Present(c))
    BY <1>c, <1>1, <1>7 DEF SnoopInv, OutstandingAt
  <2>2. /\ mshr.valid /\ ~repl.valid /\ c # mshr.cid /\ ~Leaves(mshr)
        /\ "dir" \in mshr.upd /\ ~mshr.resp_enq /\ ~mshr.upd_enq
        /\ c \in mshr.snp_sent /\ c \notin Answered(mshr)
    BY <1>b, <2>1 DEF Outstanding, SnoopLists, Stages, AllAnswered, Kinds,
                      OneAgent, Answered
  <2>3. /\ repl' = repl /\ ConfKept /\ mshr'.wb_cid = mshr.wb_cid
        /\ mshr'.snp_sent = mshr.snp_sent
        /\ mshr'.evict = mshr.evict
        /\ mshr'.resp_enq = mshr.resp_enq /\ mshr'.upd_enq = mshr.upd_enq
        /\ "dir" \in mshr'.upd
        /\ Answered(mshr)' = Answered(mshr) \cup {c}
        /\ mshr'.wait = mshr.wait
        /\ mshr.data_valid = Burst => mshr'.data_valid = Burst
        /\ mshr.rtype \in {"CleanUnique", "Evict"} => mshr'.upd = mshr.upd
    <3>1. CASE snpAck[c].rtype = "FoundM"
      <4>1. /\ "wb" \notin mshr.wait /\ mshr.owner /\ mshr.snp_data = {}
        BY <1>7, <3>1, NoSecondData
      <4>2. mshr.rtype \notin {"CleanUnique", "Evict"}
        BY <1>b, <2>2, <4>1 DEF Kinds, Leaves
      <4>3. /\ mshr' = WithDataUpdate([GotData(mshr, snpAck[c])
                                         EXCEPT !.snp_data = {c}])
            /\ repl' = repl
        BY <1>7, <3>1 DEF RecvSnpAck, GotSnpAck
      <4>4. /\ repl' = repl /\ ConfKept /\ mshr'.wb_cid = mshr.wb_cid
            /\ mshr'.snp_sent = mshr.snp_sent
            /\ mshr'.evict = mshr.evict
            /\ mshr'.resp_enq = mshr.resp_enq /\ mshr'.upd_enq = mshr.upd_enq
            /\ mshr'.upd = mshr.upd \cup {"data"}
            /\ mshr'.snp_resp = mshr.snp_resp /\ mshr'.snp_data = {c}
            /\ mshr'.wait = mshr.wait \ {"wb"}
            /\ mshr'.data_valid = mshr.data_valid \cup snpAck[c].dirty
        BY <1>a, <4>3 DEF GotData, WithDataUpdate, Mshr, ConfKept
      <4>5. snpAck[c].dirty \subseteq Burst
        BY <1>a DEF SnpAckMsg
      <4>6. QED
        BY <2>2, <4>1, <4>2, <4>4, <4>5 DEF Answered
    <3>2. CASE snpAck[c].rtype # "FoundM"
      <4>1. /\ repl' = repl /\ ConfKept /\ mshr'.wb_cid = mshr.wb_cid
            /\ mshr'.snp_sent = mshr.snp_sent
            /\ mshr'.evict = mshr.evict
            /\ mshr'.resp_enq = mshr.resp_enq /\ mshr'.upd_enq = mshr.upd_enq
            /\ mshr'.upd = mshr.upd
            /\ mshr'.snp_resp = mshr.snp_resp \cup {c}
            /\ mshr'.snp_data = mshr.snp_data
            /\ mshr'.wait = mshr.wait
            /\ mshr'.data_valid = mshr.data_valid
        <5>1. repl' = repl /\ mshr' = GotSnpAck(mshr, c, snpAck[c])
          BY <1>7, <3>2 DEF RecvSnpAck
        <5>2. \/ mshr' = [mshr EXCEPT !.snp_resp = @ \cup {c},
                                      !.snp_inv = @ \cup {c}]
              \/ mshr' = [mshr EXCEPT !.snp_resp = @ \cup {c}]
          BY <3>2, <5>1 DEF GotSnpAck
        <5>3. QED
          BY <1>a, <5>1, <5>2 DEF Mshr, ConfKept
      <4>2. QED
        BY <2>2, <4>1 DEF Answered
    <3>3. QED
      BY <3>1, <3>2
  <2>4. ScuInv'
    BY <1>b, <1>1, <2>2, <2>3 DEF ScuInv, FreeEntries, SnoopLists,
       Kinds, Stages, Fifos, ConfKept, Answered, Asks, Leaves
  <2>5. BankInv(c)' /\ MissInv(c)' /\ EvictInv(c)'
    BY <1>c, <1>1, <1>2, <1>4, <2>3 DEF BankInv, MissInv, EvictInv, ConfKept,
       Open, Served, Queued, AwaitingAt, Awaiting, Awaited, AckToSend
  <2>6. SnoopInv(c)'
    BY <1>c, <1>1, <1>2, <1>4, <1>5, <1>6, <2>1, <2>2, <2>3
       DEF SnoopInv, ConfKept, Answered
  <2>7. DirInv(c)'
    <3>1. Awaited(c)' <=> Awaited(c)
      BY <2>3 DEF Awaited, Awaiting, ConfKept
    <3>2. QED
      BY <1>c, <1>5, <1>6, <2>2, <2>3, <3>1 DEF DirInv, ConfKept, Hot
  <2>8. \A x \in Cache : x # c => ViewKept(x)
    BY <1>1, <2>2, <2>3 DEF ViewKept, ConfKept, Answered, Awaiting, AckToSend,
                            Queued
  <2>9. QED
    BY <1>3, <2>4, <2>5, <2>6, <2>7, <2>8, ViewStep DEF CacheInv
<1>8. CASE snpAck[c].tid = "repl"
  <2>1. Outstanding(repl, c) /\ ~Present(c)
    BY <1>c, <1>1, <1>8 DEF SnoopInv, OutstandingAt
  <2>2. /\ repl.valid /\ ~mshr.valid
        /\ c \in repl.snp_sent /\ c \notin Answered(repl)
    BY <2>1 DEF Outstanding, OneAgent, Answered
  <2>3. /\ mshr' = mshr /\ ConfKept /\ repl'.wb_cid = repl.wb_cid
        /\ repl'.snp_sent = repl.snp_sent
        /\ repl'.evict = repl.evict
        /\ Answered(repl)' = Answered(repl) \cup {c}
        /\ repl'.wait = repl.wait
    <3>1. CASE snpAck[c].rtype = "FoundM"
      <4>1. /\ "wb" \notin repl.wait /\ repl.snp_data = {}
        BY <1>8, <3>1, NoSecondData
      <4>2. /\ repl' = [GotData(repl, snpAck[c]) EXCEPT !.snp_data = {c}]
            /\ mshr' = mshr
        BY <1>8, <3>1 DEF RecvSnpAck, GotSnpAck
      <4>3. /\ ConfKept /\ repl'.wb_cid = repl.wb_cid
            /\ repl'.snp_sent = repl.snp_sent
            /\ repl'.evict = repl.evict
            /\ repl'.snp_resp = repl.snp_resp /\ repl'.snp_data = {c}
            /\ repl'.wait = repl.wait \ {"wb"}
        BY <1>a, <4>2 DEF GotData, Repl, ConfKept
      <4>4. QED
        BY <2>2, <4>1, <4>2, <4>3 DEF Answered
    <3>2. CASE snpAck[c].rtype # "FoundM"
      <4>1. /\ mshr' = mshr /\ ConfKept /\ repl'.wb_cid = repl.wb_cid
            /\ repl'.snp_sent = repl.snp_sent
            /\ repl'.evict = repl.evict
            /\ repl'.snp_resp = repl.snp_resp \cup {c}
            /\ repl'.snp_data = repl.snp_data
            /\ repl'.wait = repl.wait
        BY <1>a, <1>8, <3>2 DEF RecvSnpAck, GotSnpAck, Repl, ConfKept
      <4>2. QED
        BY <2>2, <4>1 DEF Answered
    <3>3. QED
      BY <3>1, <3>2
  <2>4. ScuInv'
    BY <1>b, <1>1, <2>2, <2>3 DEF ScuInv, FreeEntries, SnoopLists,
       Kinds, Stages, Fifos, ConfKept, Answered
  <2>5. BankInv(c)' /\ MissInv(c)' /\ EvictInv(c)'
    BY <1>c, <1>1, <1>2, <1>4, <2>3 DEF BankInv, MissInv, EvictInv, ConfKept,
       Open, Served, Queued, AwaitingAt, Awaiting, Awaited, AckToSend
  <2>6. SnoopInv(c)'
    BY <1>c, <1>1, <1>2, <1>4, <1>5, <1>6, <2>1, <2>2, <2>3
       DEF SnoopInv, ConfKept, Answered
  <2>7. DirInv(c)'
    <3>1. Awaited(c)' <=> Awaited(c)
      BY <2>3 DEF Awaited, Awaiting, ConfKept
    <3>2. QED
      BY <1>c, <1>5, <1>6, <2>1, <2>2, <2>3, <3>1 DEF DirInv, ConfKept, Hot
  <2>8. \A x \in Cache : x # c => ViewKept(x)
    BY <1>1, <2>2, <2>3 DEF ViewKept, ConfKept, Answered, Awaiting, AckToSend,
                            Queued
  <2>9. QED
    BY <1>3, <2>4, <2>5, <2>6, <2>7, <2>8, ViewStep DEF CacheInv
<1>9. QED
  BY <1>7, <1>8, <1>a DEF SnpAckMsg, ScuTid

\* The data of a write-back.
LEMMA RecvWbDataStep ==
  ASSUME TypeOK, OneAgent, LineInOnePlace, ScuInv,
         \A x \in Cache : CacheInv(x),
         UNCHANGED l1Vars, NEW c \in Cache, RecvWbData(c)
  PROVE  ScuInv' /\ \A x \in Cache : CacheInv(x)'
<1>a. /\ mshr \in Mshr /\ repl \in Repl
      /\ wbData[c] \in WbDataMsg /\ wbData \in [Cache -> WbDataMsg]
  BY DEF TypeOK, ScuTypeOK, ChanTypeOK
<1>b. FreeEntries /\ SnoopLists /\ Kinds /\ Stages /\ Fifos
  BY DEF ScuInv
<1>c. BankInv(c) /\ MissInv(c) /\ EvictInv(c) /\ SnoopInv(c) /\ DirInv(c)
  BY DEF CacheInv
<1>1. /\ wbData[c].vld /\ wbData'[c] = NoWbData
      /\ UNCHANGED <<respq, dataq, replResp, llc>>
      /\ UNCHANGED <<req, evt, snpAck, ack, snp, comp, wbAck>>
      /\ \A x \in Cache : x # c => wbData'[x] = wbData[x]
  BY <1>a DEF RecvWbData
<1>2. UNCHANGED <<st, drt, mreq, vic, ewrq>>
  BY DEF l1Vars
<1>3. \A x \in Cache : x # c => SameAt(x)
  BY <1>1, <1>2 DEF SameAt
<1>4. /\ ewrq[c].phase = "none" /\ AwaitingAt(wbData[c].tid, c)
      /\ ewrq[c] = NoEwrq /\ ~wbData'[c].vld
  BY <1>c, <1>1 DEF EvictInv, BankInv, NoWbData
<1>5. Awaited(c)
  BY <1>4 DEF Awaited, AwaitingAt
<1>6. /\ st[c] = "I" /\ evt[c] = "None" /\ snpAck[c].rtype # "FoundM"
      /\ ~AckToSend(c) /\ ~wbAck[c].vld
  BY <1>c, <1>4, <1>5 DEF EvictInv
<1>7. ~Owns(c)' /\ ~Present(c)' /\ ~Present(c) /\ ~Owns(c)
  BY <1>1, <1>2, <1>4, <1>6 DEF Owns, Present, NoEwrq
<1>8. CASE wbData[c].tid = "mshr"
  <2>1. Awaiting(mshr, c) /\ mshr.valid /\ ~repl.valid
    BY <1>4, <1>8 DEF AwaitingAt, Awaiting, OneAgent
  <2>2. /\ "wb" \in mshr.wait /\ mshr.wb_cid = c /\ respq = 0
        /\ ~mshr.resp_enq /\ ~mshr.upd_enq /\ "dir" \in mshr.upd
    BY <1>b, <1>6, <2>1 DEF Awaiting, AckToSend, Fifos, Stages
  <2>3. mshr.rtype \notin {"CleanUnique", "Evict"}
    <3>1. mshr.rtype # "CleanUnique"
      BY <1>b, <2>1, <2>2 DEF Kinds
    <3>2. ASSUME mshr.rtype = "Evict" PROVE FALSE
      <4>1. c # mshr.cid /\ mshr.cid \in mshr.sharers
        BY <1>b, <2>1, <2>2, <3>2 DEF Fifos, Kinds, Leaves
      <4>2. mshr.sharers = {c}
        BY <1>c, <1>5, <2>1, <2>2, <4>1 DEF DirInv, Hot
      <4>3. QED
        BY <4>1, <4>2
    <3>3. QED
      BY <3>1, <3>2
  <2>4. /\ mshr' = WithDataUpdate(GotData(mshr, wbData[c])) /\ repl' = repl
    BY <1>8 DEF RecvWbData
  <2>5. /\ ConfKept /\ mshr'.wb_cid = mshr.wb_cid
        /\ mshr'.snp_sent = mshr.snp_sent /\ mshr'.snp_resp = mshr.snp_resp
        /\ mshr'.snp_data = mshr.snp_data /\ mshr'.evict = mshr.evict
        /\ mshr'.resp_enq = mshr.resp_enq /\ mshr'.upd_enq = mshr.upd_enq
        /\ mshr'.upd = mshr.upd \cup {"data"}
        /\ mshr'.wait = mshr.wait \ {"wb"}
        /\ mshr'.data_valid = mshr.data_valid \cup wbData[c].dirty
    BY <1>a, <2>4 DEF GotData, WithDataUpdate, Mshr, ConfKept
  <2>6. mshr.data_valid = Burst => mshr'.data_valid = Burst
    BY <1>a, <2>5 DEF WbDataMsg
  <2>7. ScuInv'
    BY <1>b, <1>1, <2>1, <2>2, <2>3, <2>4, <2>5, <2>6 DEF ScuInv, FreeEntries,
       SnoopLists, Kinds, Stages, Fifos, ConfKept, Answered, Asks, Leaves
  <2>8. ~Awaited(c)'
    BY <2>1, <2>4, <2>5 DEF Awaited, Awaiting
  <2>9. BankInv(c)' /\ MissInv(c)'
    BY <1>c, <1>1, <1>2, <2>5 DEF BankInv, MissInv, ConfKept, Open, Served,
                                  Queued
  <2>10. EvictInv(c)' /\ SnoopInv(c)'
    BY <1>c, <1>1, <1>2, <1>4, <1>6, <1>7, <2>4, <2>5, <2>8 DEF EvictInv,
       SnoopInv, ConfKept, AwaitingAt, Awaited, AckToSend, OutstandingAt,
       Outstanding, Answered
  <2>11. Consumed(c)' <=> Consumed(c)
    BY <1>1, <1>2, <2>5 DEF Consumed, Asks, ConfKept
  <2>12. DirInv(c)'
    BY <1>c, <1>1, <1>7, <2>1, <2>2, <2>5, <2>8, <2>11 DEF DirInv, ConfKept,
       Hot, Answered, Asks, Leaves
  <2>13. \A x \in Cache : x # c => ViewKept(x)
    BY <1>1, <2>2, <2>4, <2>5 DEF ViewKept, ConfKept, Answered, Awaiting,
       AckToSend, Queued
  <2>14. QED
    BY <1>3, <2>7, <2>9, <2>10, <2>12, <2>13, ViewStep DEF CacheInv
<1>9. CASE wbData[c].tid = "repl"
  <2>1. Awaiting(repl, c) /\ repl.valid /\ ~mshr.valid
    BY <1>4, <1>9 DEF AwaitingAt, Awaiting, OneAgent
  <2>2. "wb" \in repl.wait /\ repl.wb_cid = c /\ ~replResp
    BY <1>6, <2>1 DEF Awaiting, AckToSend
  <2>3. repl' = GotData(repl, wbData[c]) /\ mshr' = mshr
    BY <1>9 DEF RecvWbData
  <2>4. /\ ConfKept /\ repl'.wb_cid = repl.wb_cid
        /\ repl'.snp_sent = repl.snp_sent /\ repl'.snp_resp = repl.snp_resp
        /\ repl'.snp_data = repl.snp_data /\ repl'.evict = repl.evict
        /\ repl'.wait = repl.wait \ {"wb"}
    BY <1>a, <2>3 DEF GotData, Repl, ConfKept
  <2>5. ScuInv'
    BY <1>b, <1>1, <2>1, <2>2, <2>3, <2>4 DEF ScuInv, FreeEntries,
       SnoopLists, Kinds, Stages, Fifos, ConfKept, Answered
  <2>6. ~Awaited(c)'
    BY <2>1, <2>3, <2>4 DEF Awaited, Awaiting
  <2>7. BankInv(c)' /\ MissInv(c)'
    BY <1>c, <1>1, <1>2, <2>3 DEF BankInv, MissInv, Open, Served, Queued
  <2>8. EvictInv(c)' /\ SnoopInv(c)'
    BY <1>c, <1>1, <1>2, <1>4, <1>6, <1>7, <2>3, <2>4, <2>6 DEF EvictInv,
       SnoopInv, ConfKept, AwaitingAt, Awaited, AckToSend, OutstandingAt,
       Outstanding, Answered
  <2>9. DirInv(c)'
    BY <1>c, <1>1, <1>7, <2>1, <2>3, <2>4, <2>6 DEF DirInv, ConfKept, Hot,
       Answered
  <2>10. \A x \in Cache : x # c => ViewKept(x)
    BY <1>1, <2>2, <2>3, <2>4 DEF ViewKept, ConfKept, Answered, Awaiting,
       AckToSend, Queued
  <2>11. QED
    BY <1>3, <2>5, <2>7, <2>8, <2>9, <2>10, ViewStep DEF CacheInv
<1>10. QED
  BY <1>8, <1>9, <1>a DEF WbDataMsg, ScuTid

\* FinishTrans_Ack.
LEMMA RecvAckStep ==
  ASSUME TypeOK, ScuInv, \A x \in Cache : CacheInv(x),
         UNCHANGED l1Vars, NEW c \in Cache, RecvAck(c)
  PROVE  ScuInv' /\ \A x \in Cache : CacheInv(x)'
<1>a. mshr \in Mshr /\ ack \in [Cache -> BOOLEAN]
  BY DEF TypeOK, ScuTypeOK, ChanTypeOK
<1>b. FreeEntries /\ SnoopLists /\ Kinds /\ Stages /\ Fifos
  BY DEF ScuInv
<1>c. BankInv(c) /\ MissInv(c) /\ EvictInv(c) /\ SnoopInv(c) /\ DirInv(c)
  BY DEF CacheInv
<1>1. /\ ack[c] /\ ~ack'[c]
      /\ UNCHANGED <<respq, dataq, repl, replResp, llc>>
      /\ UNCHANGED <<req, evt, snpAck, wbData, snp, comp, wbAck>>
      /\ \A x \in Cache : x # c => ack'[x] = ack[x]
  BY <1>a DEF RecvAck
<1>2. UNCHANGED <<st, drt, mreq, vic, ewrq>>
  BY DEF l1Vars
<1>3. \A x \in Cache : x # c => SameAt(x)
  BY <1>1, <1>2 DEF SameAt
<1>4. /\ mshr'.wait = mshr.wait \ {"ack"}
      /\ mshr'.wb_cid = mshr.wb_cid
      /\ mshr'.snp_sent = mshr.snp_sent /\ mshr'.snp_resp = mshr.snp_resp
      /\ mshr'.snp_data = mshr.snp_data /\ mshr'.evict = mshr.evict
      /\ mshr'.resp_enq = mshr.resp_enq /\ mshr'.upd_enq = mshr.upd_enq
      /\ mshr'.upd = mshr.upd /\ mshr'.data_valid = mshr.data_valid
      /\ ConfKept
  BY <1>a, <1>1 DEF RecvAck, Mshr, ConfKept
<1>5. Served(c) /\ mshr.resp_enq /\ ~Queued
  BY <1>c, <1>1 DEF MissInv
<1>6. /\ mshr.valid /\ mshr.cid = c /\ Asks(mshr) /\ "dir" \in mshr.upd
      /\ mreq[c].phase # "refilled" /\ comp[c].rtype = "None"
      /\ mreq[c].phase = "sent" => req[c].rtype # "None"
  BY <1>b, <1>c, <1>1, <1>5 DEF MissInv, Served, Open, Kinds, Stages
<1>7. ScuInv'
  BY <1>b, <1>1, <1>4, <1>5, <1>6 DEF ScuInv, FreeEntries, SnoopLists, Kinds,
     Stages, Fifos, Queued, Served, AllAnswered, ConfKept, Answered, Asks,
     Leaves
<1>8. BankInv(c)' /\ MissInv(c)'
  BY <1>c, <1>1, <1>2, <1>4, <1>6 DEF BankInv, MissInv, ConfKept, Open, Served
<1>9. EvictInv(c)' /\ SnoopInv(c)'
  BY <1>c, <1>1, <1>2, <1>4 DEF EvictInv, SnoopInv, ConfKept, AwaitingAt,
     Awaiting, Awaited, AckToSend, OutstandingAt, Outstanding, Answered,
     Present, Owns
<1>10. Consumed(c)' /\ Consumed(c)
  BY <1>1, <1>2, <1>4, <1>5, <1>6 DEF Consumed, Asks, ConfKept
<1>11. DirInv(c)'
  BY <1>c, <1>1, <1>2, <1>4, <1>6, <1>10 DEF DirInv, ConfKept, Asks, Leaves,
     Present, Owns, Answered
<1>12. \A x \in Cache : x # c => ViewKept(x)
  BY <1>1, <1>4, <1>6 DEF ViewKept, ConfKept, Answered, Awaiting, AckToSend,
                          Queued
<1>13. QED
  BY <1>3, <1>7, <1>8, <1>9, <1>11, <1>12, ViewStep DEF CacheInv

\* The final answer is queued when every snoop has been answered.
LEMMA EnqueueRespStep ==
  ASSUME TypeOK, ScuInv, \A x \in Cache : CacheInv(x), UNCHANGED l1Vars,
         RequestorKnown, EnqueueResp
  PROVE  ScuInv' /\ \A x \in Cache : CacheInv(x)'
<1>a. mshr \in Mshr /\ respq \in Nat
  BY DEF TypeOK, ScuTypeOK
<1>b. FreeEntries /\ SnoopLists /\ Kinds /\ Stages /\ Fifos
  BY DEF ScuInv
<1>1. /\ mshr.valid /\ AllAnswered(mshr) /\ "ack" \in mshr.wait
      /\ mshr.wait \cap {"wb", "mem", "llc"} = {} /\ ~mshr.resp_enq
      /\ dataq' = (dataq \/ mshr.rtype \in {"ReadShared", "ReadUnique"})
      /\ respq' = IF mshr.rtype = "CleanUnique" THEN respq + 1 ELSE respq
      /\ UNCHANGED <<repl, replResp, llc>>
  BY DEF EnqueueResp, AtRespStage, TransitionFinished
<1>2. \A x \in Cache : SameAt(x)
  BY DEF SameAt, l1Vars, chanVars, EnqueueResp
<1>3. /\ mshr'.wait = mshr.wait
      /\ mshr'.wb_cid = mshr.wb_cid
      /\ mshr'.snp_sent = mshr.snp_sent /\ mshr'.snp_resp = mshr.snp_resp
      /\ mshr'.snp_data = mshr.snp_data /\ mshr'.evict = mshr.evict
      /\ mshr'.resp_enq /\ mshr'.upd_enq = mshr.upd_enq
      /\ mshr'.upd = mshr.upd /\ mshr'.data_valid = mshr.data_valid
      /\ ConfKept
  BY <1>a DEF EnqueueResp, Mshr, ConfKept
<1>4. /\ Asks(mshr) /\ respq = 0 /\ ~dataq /\ ~Queued
      /\ mshr.cid \in Cache /\ "dir" \in mshr.upd
  BY <1>b, <1>1 DEF Kinds, Stages, Fifos, Queued, Leaves, Asks, RequestorKnown
<1>5. mshr.wait \subseteq {"ack"}
  BY <1>a, <1>1 DEF Mshr
<1>6. ScuInv'
  <2>1. ~mshr.upd_enq
    BY <1>b, <1>1 DEF Stages
  <2>2. respq' \in {0, 1} /\ (respq' = 1 => mshr.rtype = "CleanUnique")
    BY <1>1, <1>4
  <2>3. dataq' => mshr.rtype \in {"ReadShared", "ReadUnique"}
    BY <1>1, <1>4
  <2>4. FreeEntries' /\ SnoopLists'
    BY <1>b, <1>1, <1>3 DEF FreeEntries, SnoopLists, ConfKept, Answered
  <2>5. Kinds'
    BY <1>b, <1>3, <1>4 DEF Kinds, ConfKept, Asks, Leaves
  <2>6. Stages'
    BY <1>b, <1>1, <1>3, <1>5, <2>1 DEF Stages, ConfKept, Asks, AllAnswered
  <2>7. Fifos'
    BY <1>b, <1>1, <1>3, <2>2, <2>3 DEF Fifos, ConfKept
  <2>8. QED
    BY <2>4, <2>5, <2>6, <2>7 DEF ScuInv
<1>7. ASSUME NEW x \in Cache, x # mshr.cid PROVE CacheInv(x)'
  <2>1. ViewKept(x)
    BY <1>1, <1>3, <1>4, <1>7 DEF ViewKept, ConfKept, Answered, Awaiting,
                                  AckToSend
  <2>2. QED
    BY <1>2, <2>1, ViewStep
<1>8. ASSUME NEW c \in Cache, c = mshr.cid PROVE CacheInv(c)'
  <2>a. BankInv(c) /\ MissInv(c) /\ EvictInv(c) /\ SnoopInv(c) /\ DirInv(c)
    BY DEF CacheInv
  <2>b. SameAt(c)
    BY <1>2
  <2>1. mreq[c].phase # "refilled" /\ ~ack[c] /\ comp[c].rtype = "None"
    BY <2>a, <1>1 DEF MissInv
  <2>2. BankInv(c)' /\ MissInv(c)'
    BY <2>a, <2>b, <1>8, <1>1, <1>3, <2>1 DEF BankInv, MissInv, SameAt,
       ConfKept, Open, Served
  <2>3. EvictInv(c)' /\ SnoopInv(c)'
    BY <2>a, <2>b, <1>1, <1>3 DEF EvictInv, SnoopInv, SameAt, ConfKept,
       AwaitingAt, Awaiting, Awaited, AckToSend, OutstandingAt, Outstanding,
       Answered, Present, Owns
  <2>4. ~Consumed(c) /\ ~Consumed(c)'
    BY <2>b, <1>1, <1>3, <2>1 DEF Consumed, SameAt
  <2>5. DirInv(c)'
    BY <2>a, <2>b, <1>1, <1>3, <1>4, <1>8, <2>4 DEF DirInv, SameAt, ConfKept,
       Asks, Leaves, Present, Owns
  <2>6. QED
    BY <2>2, <2>3, <2>5 DEF CacheInv
<1>9. QED
  BY <1>6, <1>7, <1>8

\* The response FIFOs of the two files.
LEMMA SendRespStep ==
  ASSUME TypeOK, OneAgent, ScuInv, \A x \in Cache : CacheInv(x),
         UNCHANGED l1Vars, RequestorKnown, SendResp \/ ReplSendResp
  PROVE  ScuInv' /\ \A x \in Cache : CacheInv(x)'
<1>a. /\ mshr \in Mshr /\ respq \in Nat /\ comp \in [Cache -> CompMsg]
      /\ wbAck \in [Cache -> WbAckMsg]
  BY DEF TypeOK, ScuTypeOK, ChanTypeOK
<1>b. FreeEntries /\ SnoopLists /\ Kinds /\ Stages /\ Fifos
  BY DEF ScuInv
<1>1. /\ UNCHANGED <<mshr, dataq, repl, llc>>
      /\ UNCHANGED <<req, evt, snpAck, ack, wbData, snp>>
  BY DEF SendResp, ReplSendResp
<1>2. UNCHANGED <<st, drt, mreq, vic, ewrq>>
  BY DEF l1Vars
\* WriteBack_Ack
<1>3. ASSUME NEW c \in Cache, AckToSend(c), ~AckToSend(c)', UNCHANGED comp,
             \A x \in Cache : x # c => wbAck'[x] = wbAck[x]
                                       /\ ~AckToSend(x) /\ ~AckToSend(x)',
             wbAck'[c].vld, AwaitingAt(wbAck'[c].tid, c), Queued' <=> Queued
      PROVE  \A x \in Cache : CacheInv(x)'
  <2>a. BankInv(c) /\ MissInv(c) /\ EvictInv(c) /\ SnoopInv(c) /\ DirInv(c)
    BY DEF CacheInv
  <2>1. ewrq[c].phase = "sent" /\ ewrq[c].wb /\ ~wbAck[c].vld /\ Awaited(c)
    BY <2>a, <1>3 DEF EvictInv, AckToSend, Awaited
  <2>2. BankInv(c)' /\ MissInv(c)'
    BY <2>a, <1>1, <1>2, <1>3 DEF BankInv, MissInv, Open, Served
  <2>3. EvictInv(c)'
    BY <2>a, <1>1, <1>2, <1>3, <2>1 DEF EvictInv, AwaitingAt, Awaiting, Awaited
  <2>4. SnoopInv(c)' /\ DirInv(c)'
    BY <2>a, <1>1, <1>2 DEF SnoopInv, OutstandingAt, Outstanding, Answered,
       Present, Owns, DirInv, Hot, Awaited, Awaiting, Consumed, Asks, Leaves
  <2>5. ASSUME NEW x \in Cache, x # c PROVE CacheInv(x)'
    <3>1. SameAt(x)
      BY <1>1, <1>2, <1>3, <2>5 DEF SameAt
    <3>2. ViewKept(x)
      BY <1>1, <1>3, <2>5 DEF ViewKept, ConfKept, Answered, Awaiting
    <3>3. QED
      BY <3>1, <3>2, ViewStep
  <2>6. QED
    BY <2>2, <2>3, <2>4, <2>5 DEF CacheInv
<1>4. CASE SendResp /\ "wb" \in mshr.wait
  <2>1. /\ respq = 1 /\ respq' = 0 /\ replResp' = replResp /\ comp' = comp
        /\ wbAck' = [wbAck EXCEPT ![mshr.wb_cid] =
                       [vld |-> TRUE, tid |-> "mshr"]]
    BY <1>b, <1>4 DEF SendResp, RespValid, Fifos
  <2>2. /\ mshr.valid /\ ~repl.valid /\ mshr.rtype # "CleanUnique"
        /\ mshr.wb_cid \in Cache /\ ~replResp
    BY <1>b, <1>4, ValidEntry DEF OneAgent, Kinds, Fifos, FreeEntries
  <2>3. /\ wbAck'[mshr.wb_cid].vld /\ wbAck'[mshr.wb_cid].tid = "mshr"
        /\ \A x \in Cache : x # mshr.wb_cid => wbAck'[x] = wbAck[x]
    BY <1>a, <2>1, <2>2
  <2>4. Awaiting(mshr, mshr.wb_cid)
        /\ \A x \in Cache : x # mshr.wb_cid => ~Awaiting(mshr, x)
    BY <1>4, <2>2 DEF Awaiting
  <2>5. \A x \in Cache : CacheInv(x)'
    BY <1>1, <1>3, <2>1, <2>2, <2>3, <2>4 DEF AckToSend, Queued, AwaitingAt
  <2>6. ScuInv'
    BY <1>b, <1>1, <2>1 DEF ScuInv, FreeEntries, SnoopLists, Kinds, Stages,
       Fifos, Answered, Asks, Leaves
  <2>7. QED
    BY <2>5, <2>6
<1>5. CASE ReplSendResp
  <2>1. /\ replResp /\ replResp' = FALSE /\ respq' = respq /\ comp' = comp
        /\ wbAck' = [wbAck EXCEPT ![repl.wb_cid] =
                       [vld |-> TRUE, tid |-> "repl"]]
    BY <1>5 DEF ReplSendResp
  <2>2. /\ "wb" \in repl.wait /\ repl.valid /\ ~mshr.valid
        /\ repl.wb_cid \in Cache
    BY <1>b, <2>1, ValidEntry DEF OneAgent, Fifos
  <2>3. /\ wbAck'[repl.wb_cid].vld /\ wbAck'[repl.wb_cid].tid = "repl"
        /\ \A x \in Cache : x # repl.wb_cid => wbAck'[x] = wbAck[x]
    BY <1>a, <2>1, <2>2
  <2>4. Awaiting(repl, repl.wb_cid)
        /\ \A x \in Cache : ~Awaiting(mshr, x)
                            /\ (x # repl.wb_cid => ~Awaiting(repl, x))
    BY <2>2 DEF Awaiting
  <2>5. \A x \in Cache : CacheInv(x)'
    BY <1>1, <1>3, <2>1, <2>2, <2>3, <2>4 DEF AckToSend, Queued, AwaitingAt,
                                              Awaiting
  <2>6. ScuInv'
    BY <1>b, <1>1, <2>1 DEF ScuInv, FreeEntries, SnoopLists, Kinds, Stages,
       Fifos, Answered, Asks, Leaves
  <2>7. QED
    BY <2>5, <2>6
\* Comp_UD
<1>6. CASE SendResp /\ "wb" \notin mshr.wait
  <2>1. /\ respq = 1 /\ respq' = 0 /\ replResp' = replResp /\ wbAck' = wbAck
        /\ comp' = [comp EXCEPT ![mshr.cid] =
                      [NoComp EXCEPT !.rtype = "Comp_UD"]]
    BY <1>b, <1>6 DEF SendResp, RespValid, Fifos
  <2>2. /\ mshr.rtype = "CleanUnique" /\ mshr.resp_enq /\ "ack" \in mshr.wait
        /\ mshr.valid /\ mshr.cid \in Cache /\ Queued /\ ~dataq
    BY <1>b, <1>6, <2>1, ValidEntry DEF Fifos, Queued, RequestorKnown
  <2>3. comp'[mshr.cid].rtype = "Comp_UD"
        /\ \A x \in Cache : x # mshr.cid => comp'[x] = comp[x]
    BY <1>a, <2>1, <2>2 DEF NoComp
  <2>4. ASSUME NEW c \in Cache, c = mshr.cid PROVE CacheInv(c)'
    <3>a. BankInv(c) /\ MissInv(c) /\ EvictInv(c) /\ SnoopInv(c) /\ DirInv(c)
      BY DEF CacheInv
    <3>1. Open(c) /\ mreq[c].phase = "sent" /\ comp[c].rtype = "None"
      BY <3>a, <2>2, <2>4 DEF MissInv, Open, Served
    <3>2. BankInv(c)' /\ MissInv(c)'
      BY <3>a, <1>1, <1>2, <2>1, <2>2, <2>3, <2>4, <3>1 DEF BankInv, MissInv,
         Open, Served, Queued
    <3>3. EvictInv(c)'
      BY <3>a, <1>1, <1>2, <1>6, <2>1, <2>2 DEF EvictInv, AwaitingAt, Awaiting,
         Awaited, AckToSend
    <3>4. SnoopInv(c)' /\ DirInv(c)'
      BY <3>a, <1>1, <1>2 DEF SnoopInv, OutstandingAt, Outstanding, Answered,
         Present, Owns, DirInv, Hot, Awaited, Awaiting, Consumed, Asks, Leaves
    <3>5. QED
      BY <3>2, <3>3, <3>4 DEF CacheInv
  <2>5. ASSUME NEW x \in Cache, x # mshr.cid PROVE CacheInv(x)'
    <3>1. SameAt(x)
      BY <1>1, <1>2, <2>1, <2>3, <2>5 DEF SameAt
    <3>2. ViewKept(x)
      BY <1>1, <1>6, <2>1, <2>5 DEF ViewKept, ConfKept, Answered, Awaiting,
                                    AckToSend
    <3>3. QED
      BY <3>1, <3>2, ViewStep
  <2>6. ScuInv'
    BY <1>b, <1>1, <2>1 DEF ScuInv, FreeEntries, SnoopLists, Kinds, Stages,
       Fifos, Answered, Asks, Leaves
  <2>7. QED
    BY <2>4, <2>5, <2>6
<1>7. QED
  BY <1>4, <1>5, <1>6

\* The data FIFO.
LEMMA SendDataStep ==
  ASSUME TypeOK, ScuInv, \A x \in Cache : CacheInv(x),
         UNCHANGED l1Vars, RequestorKnown, SendData
  PROVE  ScuInv' /\ \A x \in Cache : CacheInv(x)'
<1>a. mshr \in Mshr /\ comp \in [Cache -> CompMsg] /\ dataq \in BOOLEAN
  BY DEF TypeOK, ScuTypeOK, ChanTypeOK
<1>b. FreeEntries /\ SnoopLists /\ Kinds /\ Stages /\ Fifos
  BY DEF ScuInv
<1>1. /\ dataq /\ ~dataq'
      /\ comp' = [comp EXCEPT ![mshr.cid] = CompOf(mshr)]
      /\ UNCHANGED <<mshr, respq, repl, replResp, llc>>
      /\ UNCHANGED <<req, evt, snpAck, ack, wbData, snp, wbAck>>
  BY DEF SendData
<1>2. UNCHANGED <<st, drt, mreq, vic, ewrq>>
  BY DEF l1Vars
<1>3. /\ mshr.rtype \in {"ReadShared", "ReadUnique"} /\ mshr.resp_enq
      /\ "ack" \in mshr.wait /\ mshr.valid /\ mshr.cid \in Cache /\ Queued
  BY <1>b, <1>1, ValidEntry DEF Fifos, Queued, RequestorKnown
<1>4. comp'[mshr.cid] = CompOf(mshr)
      /\ \A x \in Cache : x # mshr.cid => comp'[x] = comp[x]
  BY <1>a, <1>1, <1>3
<1>5. CompOf(mshr).rtype = IF mshr.rtype = "ReadUnique" THEN "CompData_UD"
                           ELSE IF mshr.sharers # {} THEN "CompData_SC"
                           ELSE "CompData_UC"
  BY DEF CompOf
<1>6. ASSUME NEW c \in Cache, c = mshr.cid PROVE CacheInv(c)'
  <2>a. BankInv(c) /\ MissInv(c) /\ EvictInv(c) /\ SnoopInv(c) /\ DirInv(c)
    BY DEF CacheInv
  <2>1. Open(c) /\ mreq[c].phase = "sent" /\ comp[c].rtype = "None"
    BY <2>a, <1>3, <1>6 DEF MissInv, Open, Served
  <2>2. BankInv(c)'
    BY <2>a, <1>1, <1>2, <1>4, <1>5, <1>6 DEF BankInv
  <2>3. MissInv(c)'
    BY <2>a, <1>1, <1>2, <1>3, <1>4, <1>5, <1>6, <2>1 DEF MissInv, Open,
       Served, Queued
  <2>4. EvictInv(c)' /\ SnoopInv(c)' /\ DirInv(c)'
    BY <2>a, <1>1, <1>2 DEF EvictInv, AwaitingAt, AckToSend, SnoopInv,
       OutstandingAt, Outstanding, Answered, Present, Owns, DirInv, Hot,
       Awaited, Awaiting, Consumed, Asks, Leaves
  <2>5. QED
    BY <2>2, <2>3, <2>4 DEF CacheInv
<1>7. ASSUME NEW x \in Cache, x # mshr.cid PROVE CacheInv(x)'
  <2>1. SameAt(x)
    BY <1>1, <1>2, <1>4, <1>7 DEF SameAt
  <2>2. ViewKept(x)
    BY <1>1, <1>7 DEF ViewKept, ConfKept, Answered, Awaiting, AckToSend
  <2>3. QED
    BY <2>1, <2>2, ViewStep
<1>8. ScuInv'
  BY <1>b, <1>1 DEF ScuInv, FreeEntries, SnoopLists, Kinds, Stages,
     Fifos, Answered, Asks, Leaves
<1>9. QED
  BY <1>6, <1>7, <1>8

\* The directory update: the entry that is written is the one that the caches
\* have been living by.
LEMMA TagWriteStep ==
  ASSUME TypeOK, OneAgent, WritesOwned, RequestorKnown, ScuInv,
         \A x \in Cache : CacheInv(x), UNCHANGED l1Vars, TagWrite
  PROVE  ScuInv' /\ \A x \in Cache : CacheInv(x)'
<1>a. mshr \in Mshr /\ repl \in Repl /\ llc \in Llc
  BY DEF TypeOK, ScuTypeOK
<1>b. FreeEntries /\ SnoopLists /\ Kinds /\ Stages /\ Fifos
  BY DEF ScuInv
<1>1. /\ mshr.valid /\ mshr.upd_enq /\ "dir" \in mshr.upd /\ ~repl.valid
      /\ mshr.wait = {} /\ AllAnswered(mshr) /\ mshr.cid \in Cache
  <2>1. tagq
    BY DEF TagWrite
  <2>2. mshr.valid /\ mshr.upd_enq /\ "dir" \in mshr.upd
    BY <2>1 DEF WritesOwned
  <2>3. QED
    BY <1>b, <2>2 DEF Stages, Kinds, Asks, Leaves, OneAgent, RequestorKnown
<1>2. \A x \in Cache : SameAt(x)
  BY DEF SameAt, l1Vars, chanVars, TagWrite
<1>3. /\ mshr'.wait = {} /\ mshr'.wb_cid = mshr.wb_cid
      /\ mshr'.snp_sent = mshr.snp_sent /\ mshr'.snp_resp = mshr.snp_resp
      /\ mshr'.snp_data = mshr.snp_data /\ mshr'.evict = mshr.evict
      /\ mshr'.resp_enq = mshr.resp_enq /\ mshr'.upd_enq
      /\ mshr'.upd = mshr.upd \ {"dir"} /\ mshr'.data_valid = mshr.data_valid
      /\ ConfKept
  BY <1>a, <1>1 DEF TagWrite, Mshr, ConfKept
<1>4. /\ llc'.valid /\ llc'.owner = NewOwner(mshr)
      /\ llc'.sharers = NewSharers(mshr)
      /\ UNCHANGED <<respq, dataq, repl, replResp>>
  BY <1>a DEF TagWrite, Llc
<1>5. respq = 0 /\ ~dataq /\ ~replResp
  BY <1>b, <1>1 DEF Fifos, FreeEntries
<1>6. ScuInv'
  <2>1. FreeEntries' /\ SnoopLists'
    BY <1>b, <1>1, <1>3, <1>4 DEF FreeEntries, SnoopLists, ConfKept, Answered
  <2>2. Kinds'
    BY <1>b, <1>1, <1>3 DEF Kinds, ConfKept, Asks, Leaves
  <2>3. Stages'
    BY <1>b, <1>1, <1>3, <1>4 DEF Stages, ConfKept, Asks, AllAnswered
  <2>4. Fifos'
    BY <1>b, <1>1, <1>3, <1>4, <1>5 DEF Fifos, ConfKept
  <2>5. QED
    BY <2>1, <2>2, <2>3, <2>4 DEF ScuInv
<1>7. ASSUME NEW x \in Cache PROVE CacheInv(x)'
  <2>a. BankInv(x) /\ MissInv(x) /\ EvictInv(x) /\ SnoopInv(x) /\ DirInv(x)
    BY DEF CacheInv
  <2>b. SameAt(x)
    BY <1>2
  <2>1. BankInv(x)' /\ MissInv(x)'
    BY <2>a, <2>b, <1>1, <1>3, <1>4 DEF BankInv, MissInv, SameAt, ConfKept,
       Open, Served, Queued
  <2>2. /\ ~Awaited(x) /\ ~Awaited(x)' /\ snpAck[x].rtype = "None"
        /\ snp[x].rtype = "None"
    BY <2>a, <1>1, <1>3, <1>4 DEF Awaited, Awaiting, SnoopInv, OutstandingAt,
       Outstanding, AllAnswered
  <2>3. EvictInv(x)' /\ SnoopInv(x)'
    BY <2>a, <2>b, <1>1, <1>3, <1>4 DEF EvictInv, SnoopInv, SameAt, ConfKept,
       AwaitingAt, Awaiting, Awaited, AckToSend, OutstandingAt, Outstanding,
       Answered, Present, Owns
  <2>4. (Present(x)' <=> Present(x)) /\ (Hot(x)' <=> Owns(x))
        /\ (Hot(x) <=> Owns(x))
    BY <2>b, <2>2 DEF Present, Owns, Hot, SameAt
  <2>5. ASSUME x # mshr.cid
        PROVE  (Present(x) <=> x \in NewSharers(mshr)) /\ ~Owns(x)
    <3>1. Present(x) => x \in NewSharers(mshr)
      BY <2>a, <2>5, <1>1 DEF DirInv, SnoopInv, NewSharers, Answered
    <3>2. x \in NewSharers(mshr) => Present(x)
      BY <2>a, <2>2, <2>5, <1>1 DEF DirInv, NewSharers, Answered
    <3>3. ASSUME Owns(x) PROVE FALSE
      <4>1. mshr.owner /\ mshr.sharers = {x}
        BY <2>a, <2>4, <2>5, <1>1, <3>3 DEF DirInv
      <4>2. Asks(mshr) /\ x \in mshr.snp_need
        BY <1>b, <1>1, <2>5, <4>1 DEF Kinds, Asks, Leaves
      <4>3. x \in Answered(mshr)
        BY <1>1, <4>2 DEF AllAnswered, Answered
      <4>4. QED
        BY <2>a, <3>3, <4>3 DEF SnoopInv
    <3>4. QED
      BY <3>1, <3>2, <3>3
  <2>6. ASSUME x = mshr.cid, Asks(mshr)
        PROVE  /\ Present(x) /\ x \in NewSharers(mshr)
               /\ Owns(x) => NewOwner(mshr) /\ NewSharers(mshr) = {x}
    <3>1. Consumed(x) /\ x \notin mshr.evict
      BY <1>b, <1>1, <2>6 DEF Stages, Kinds, Consumed
    <3>2. Present(x) /\ x \in NewSharers(mshr)
      BY <2>a, <2>6, <1>1, <3>1 DEF DirInv, NewSharers, Asks
    <3>3. CASE mshr.rtype = "ReadShared"
      <4>1. Owns(x) => mshr.sharers = {}
        BY <2>a, <2>6, <1>1, <3>1, <3>3 DEF DirInv
      <4>2. mshr.sharers = {} => NewOwner(mshr) /\ NewSharers(mshr) = {x}
        BY <2>6, <3>1, <3>3 DEF NewOwner, NewSharers
      <4>3. QED
        BY <3>2, <4>1, <4>2
    <3>4. CASE mshr.rtype \in {"ReadUnique", "CleanUnique"}
      <4>1. NewOwner(mshr)
        BY <3>4 DEF NewOwner
      <4>2. mshr.sharers \ {x} \subseteq Answered(mshr)
        BY <1>b, <1>1, <2>6, <3>4 DEF Kinds, AllAnswered, Answered
      <4>3. Answered(mshr) # {} => mshr.inv_snp
        BY <1>b, <1>1, <3>4 DEF Kinds, AllAnswered, Answered
      <4>4. NewSharers(mshr) = {x}
        BY <2>6, <3>1, <3>4, <4>2, <4>3 DEF NewSharers, Answered
      <4>5. QED
        BY <3>2, <4>1, <4>4
    <3>5. QED
      BY <2>6, <3>3, <3>4 DEF Asks
  <2>7. ASSUME x = mshr.cid, Leaves(mshr)
        PROVE  ~Present(x) /\ x \notin NewSharers(mshr) /\ ~Owns(x)
    <3>1. ~Present(x)
      BY <2>a, <2>7, <1>1 DEF DirInv
    <3>2. x \notin NewSharers(mshr)
      BY <1>b, <1>1, <2>7 DEF Kinds, NewSharers, Leaves
    <3>3. ewrq[x].wb => ewrq[x].phase = "acked"
      BY <2>a, <2>2, <3>1, <1>a DEF BankInv, EvictInv, Present, NoEwrq, TypeOK,
         L1TypeOK, Ewrq, EwrqPhase
    <3>4. ~Owns(x)
      BY <2>a, <2>2, <3>1, <3>3, <1>1 DEF Owns, Present, EvictInv, AwaitingAt,
         Awaited
    <3>5. QED
      BY <3>1, <3>2, <3>4
  <2>8. /\ Present(x) <=> x \in NewSharers(mshr)
        /\ Owns(x) => NewOwner(mshr) /\ NewSharers(mshr) = {x}
    BY <2>5, <2>6, <2>7, <1>b, <1>1 DEF Kinds
  <2>9. DirInv(x)'
    BY <2>4, <2>8, <1>1, <1>3, <1>4 DEF DirInv
  <2>10. QED
    BY <2>1, <2>3, <2>9 DEF CacheInv
<1>8. QED
  BY <1>6, <1>7

\* An entry is freed when nothing is left to do: no cache loses anything.
LEMMA DeallocStep ==
  ASSUME TypeOK, OneAgent, WritesOwned, ScuInv,
         \A x \in Cache : CacheInv(x), UNCHANGED l1Vars,
         Dealloc \/ ReplDealloc
  PROVE  ScuInv' /\ \A x \in Cache : CacheInv(x)'
<1>a. mshr \in Mshr /\ repl \in Repl /\ llc \in Llc
  BY DEF TypeOK, ScuTypeOK
<1>b. FreeEntries /\ SnoopLists /\ Kinds /\ Stages /\ Fifos
  BY DEF ScuInv
<1>2. \A x \in Cache : SameAt(x)
  BY DEF SameAt, l1Vars, chanVars, Dealloc, ReplDealloc
<1>3. UNCHANGED <<respq, dataq, replResp, llc>>
  BY DEF Dealloc, ReplDealloc
<1>4. CASE Dealloc
  <2>1. /\ mshr.valid /\ mshr.wait = {} /\ mshr.upd = {} /\ AllAnswered(mshr)
        /\ mshr' = NoMshr /\ repl' = repl /\ ~repl.valid
    BY <1>a, <1>4 DEF Dealloc, FinalFinished, RespFinished,
       TransitionFinished, Mshr, OneAgent
  <2>2. respq = 0 /\ ~dataq /\ ~replResp /\ repl = NoRepl
    BY <1>b, <2>1 DEF Fifos, FreeEntries
  <2>3. ScuInv'
    BY <2>1, <2>2, <1>3 DEF ScuInv, FreeEntries, SnoopLists, Kinds, Stages,
       Fifos, NoMshr, NoRepl, Answered
  <2>4. ASSUME NEW x \in Cache PROVE CacheInv(x)'
    <3>a. BankInv(x) /\ MissInv(x) /\ EvictInv(x) /\ SnoopInv(x) /\ DirInv(x)
      BY DEF CacheInv
    <3>b. SameAt(x)
      BY <1>2
    <3>1. BankInv(x)' /\ MissInv(x)'
      BY <3>a, <3>b, <2>1 DEF BankInv, MissInv, SameAt, Open, Served, NoMshr
    <3>2. EvictInv(x)'
      BY <3>a, <3>b, <2>1, <2>2, <1>3 DEF EvictInv, SameAt, NoMshr, AwaitingAt,
         Awaiting, Awaited, AckToSend
    <3>3. SnoopInv(x)'
      BY <3>a, <3>b, <2>1, <2>2 DEF SnoopInv, SameAt, NoMshr, NoRepl,
         OutstandingAt, Outstanding, AllAnswered, Answered
    <3>4. DirInv(x)'
      BY <3>a, <3>b, <2>1, <2>2, <1>3 DEF DirInv, SameAt, NoMshr, Present,
         Owns, Hot, Awaited, Awaiting
    <3>5. QED
      BY <3>1, <3>2, <3>3, <3>4 DEF CacheInv
  <2>5. QED
    BY <2>3, <2>4
<1>5. CASE ReplDealloc
  <2>1. /\ repl.valid /\ repl.wait \cap {"wb", "mem", "llc"} = {}
        /\ AllAnswered(repl)
        /\ repl' = NoRepl /\ mshr' = mshr /\ ~mshr.valid
    BY <1>a, <1>5 DEF ReplDealloc, TransitionFinished, OneAgent
  <2>2. /\ respq = 0 /\ ~dataq /\ ~replResp /\ mshr = NoMshr /\ ~llc.valid
    BY <1>b, <2>1 DEF Fifos, FreeEntries
  <2>3. ScuInv'
    BY <2>1, <2>2, <1>3 DEF ScuInv, FreeEntries, SnoopLists, Kinds, Stages,
       Fifos, NoMshr, NoRepl, Answered
  <2>4. ASSUME NEW x \in Cache PROVE CacheInv(x)'
    <3>a. BankInv(x) /\ MissInv(x) /\ EvictInv(x) /\ SnoopInv(x) /\ DirInv(x)
      BY DEF CacheInv
    <3>b. SameAt(x)
      BY <1>2
    <3>1. BankInv(x)' /\ MissInv(x)'
      BY <3>a, <3>b, <2>1, <1>3 DEF BankInv, MissInv, SameAt, Open, Served,
                                    Queued
    <3>2. EvictInv(x)'
      BY <3>a, <3>b, <2>1, <2>2, <1>3 DEF EvictInv, SameAt, NoRepl, AwaitingAt,
         Awaiting, Awaited, AckToSend
    <3>3. SnoopInv(x)' /\ snpAck[x].rtype = "None"
      BY <3>a, <3>b, <2>1, <2>2 DEF SnoopInv, SameAt, NoMshr, NoRepl,
         OutstandingAt, Outstanding, AllAnswered, Answered
    <3>4. ~Awaited(x) /\ ~Awaited(x)'
      BY <2>1, <2>2 DEF Awaited, Awaiting, NoRepl, NoMshr
    <3>5. x \in repl.snp_need => x \in Answered(repl)
      BY <2>1 DEF AllAnswered, Answered
    <3>6. ~Present(x) /\ ~Hot(x)
      BY <3>a, <3>5, <2>1, <3>4 DEF DirInv, SnoopInv, Hot
    <3>7. ~Present(x)' /\ ~Hot(x)'
      BY <3>b, <3>4, <3>6 DEF SameAt, Present, Owns, Hot
    <3>8. DirInv(x)'
      BY <3>7, <2>1, <2>2, <1>3 DEF DirInv, NoMshr, NoRepl
    <3>9. QED
      BY <3>1, <3>2, <3>3, <3>8 DEF CacheInv
  <2>5. QED
    BY <2>3, <2>4
<1>6. QED
  BY <1>4, <1>5

\* A replacement starts from the directory entry of the line.
LEMMA ReplStartStep ==
  ASSUME TypeOK, ScuInv, \A x \in Cache : CacheInv(x), UNCHANGED l1Vars,
         ReplStart
  PROVE  ScuInv' /\ \A x \in Cache : CacheInv(x)'
<1>a. mshr \in Mshr /\ repl \in Repl /\ llc \in Llc
  BY DEF TypeOK, ScuTypeOK
<1>b. FreeEntries /\ SnoopLists /\ Kinds /\ Stages /\ Fifos
  BY DEF ScuInv
<1>1. /\ ~mshr.valid /\ ~repl.valid /\ llc.valid /\ ~llc'.valid
      /\ UNCHANGED <<mshr, respq, dataq, replResp>>
      /\ repl' = IF llc.sharers = {} /\ ~llc.dirty THEN NoRepl ELSE VictimRepl
  BY <1>a DEF ReplStart, SetFree, Llc
<1>2. /\ mshr = NoMshr /\ repl = NoRepl /\ respq = 0 /\ ~dataq /\ ~replResp
  BY <1>b, <1>1 DEF FreeEntries
<1>3. /\ repl'.snp_need = IF repl'.valid THEN llc.sharers ELSE {}
      /\ ~repl'.valid => repl' = NoRepl /\ llc.sharers = {}
      /\ repl'.snp_sent = {} /\ repl'.snp_resp = {} /\ repl'.snp_data = {}
      /\ repl'.evict = {} /\ "wb" \notin repl'.wait
  BY <1>1 DEF VictimRepl, NoRepl
<1>4. \A x \in Cache : SameAt(x)
  BY DEF SameAt, l1Vars, chanVars, ReplStart
<1>5. ScuInv'
  BY <1>1, <1>2, <1>3 DEF ScuInv, FreeEntries, SnoopLists, Kinds, Stages,
     Fifos, NoMshr, Answered
<1>6. ASSUME NEW x \in Cache PROVE CacheInv(x)'
  <2>a. BankInv(x) /\ MissInv(x) /\ EvictInv(x) /\ SnoopInv(x) /\ DirInv(x)
    BY DEF CacheInv
  <2>b. SameAt(x)
    BY <1>4
  <2>1. BankInv(x)' /\ MissInv(x)'
    BY <2>a, <2>b, <1>1 DEF BankInv, MissInv, SameAt, Open, Served, Queued
  <2>2. EvictInv(x)'
    BY <2>a, <2>b, <1>1, <1>2, <1>3 DEF EvictInv, SameAt, NoRepl, AwaitingAt,
       Awaiting, Awaited, AckToSend
  <2>3. SnoopInv(x)' /\ snpAck[x].rtype = "None"
    BY <2>a, <2>b, <1>1, <1>2, <1>3 DEF SnoopInv, SameAt, NoMshr, NoRepl,
       OutstandingAt, Outstanding, Answered
  <2>4. ~Awaited(x) /\ ~Awaited(x)'
    BY <1>1, <1>2, <1>3 DEF Awaited, Awaiting
  <2>5. (Present(x)' <=> Present(x)) /\ (Hot(x)' <=> Hot(x))
    BY <2>b, <2>4 DEF SameAt, Present, Owns, Hot
  <2>6. DirInv(x)'
    BY <2>a, <2>5, <1>1, <1>2, <1>3 DEF DirInv, Answered
  <2>7. QED
    BY <2>1, <2>2, <2>3, <2>6 DEF CacheInv
<1>7. QED
  BY <1>5, <1>6

\* Allocation for a request: what the entry starts from, whatever the case of
\* the directory lookup.
Fresh(m, c) ==
    /\ m.valid /\ m.cid = c /\ ~m.upd_enq /\ "dir" \in m.upd
    /\ m.sharers = IF llc.valid THEN llc.sharers ELSE {}
    /\ m.owner <=> llc.valid /\ llc.owner
    /\ m.snp_sent = {} /\ m.snp_resp = {} /\ m.snp_data = {}
    /\ m.snp_need \subseteq m.sharers \ {c}

\* ... and of the entry of a request: it waits for the acknowledgement, and an
\* upgrade that finds its cache no sharer any more became a ReadUnique.
FreshAsks(m, c, rtype) ==
    /\ Fresh(m, c) /\ Asks(m) /\ m.evict = {}
    /\ "ack" \in m.wait /\ "wb" \notin m.wait
    /\ m.rtype = "ReadShared" <=> rtype = "ReadShared"
    /\ m.rtype = "CleanUnique" =>
          /\ rtype = "CleanUnique" /\ c \in m.sharers /\ ~m.owner
          /\ m.wait = {"ack"} /\ "data" \notin m.upd
    /\ m.rtype # "CleanUnique" => "llc" \in m.wait \/ "mem" \in m.wait
    /\ m.resp_enq => m.rtype = "CleanUnique" /\ m.snp_need = {}
    /\ m.rtype \in {"ReadUnique", "CleanUnique"} =>
          /\ m.sharers \ {c} \subseteq m.snp_need
          /\ m.snp_need # {} => m.inv_snp
    /\ m.rtype = "ReadShared" =>
          /\ ~m.inv_snp
          /\ m.owner => m.sharers \ {c} \subseteq m.snp_need

\* The MSHR of a request.
LEMMA RequestMshr ==
  ASSUME ScuTypeOK, NEW c \in Cache, NEW full \in SUBSET Burst,
         NEW rtype \in {"ReadShared", "ReadUnique", "CleanUnique"}
  PROVE  FreshAsks(NewMshr(BlankMshr(rtype, c, full)), c, rtype)
<1> DEFINE m == BlankMshr(rtype, c, full)
<1>1. m \in Mshr
  BY EmptyEntryTypes DEF BlankMshr, Mshr, ScuTypeOK, Llc, ReqType
<1>2. /\ m.valid /\ m.cid = c /\ m.rtype = rtype /\ ~m.upd_enq
      /\ m.sharers = llc.sharers /\ m.owner = llc.owner
      /\ m.snp_need = {} /\ m.snp_sent = {} /\ m.snp_resp = {}
      /\ m.snp_data = {} /\ m.evict = {} /\ ~m.inv_snp /\ ~m.resp_enq
  BY DEF BlankMshr, NoMshr
<1>3. llc \in Llc
  BY DEF ScuTypeOK
<1> HIDE DEF m
<1>4. CASE ~llc.valid
  <2>1. /\ MissMshr(m).rtype = Promoted(rtype)
        /\ MissMshr(m).sharers = {} /\ ~MissMshr(m).owner
        /\ MissMshr(m).wait = {"mem", "ack"}
        /\ MissMshr(m).upd = {"data", "dir"}
        /\ MissMshr(m).valid /\ MissMshr(m).cid = c /\ ~MissMshr(m).upd_enq
        /\ MissMshr(m).snp_need = {} /\ MissMshr(m).snp_sent = {}
        /\ MissMshr(m).snp_resp = {} /\ MissMshr(m).snp_data = {}
        /\ MissMshr(m).evict = {} /\ ~MissMshr(m).inv_snp
        /\ ~MissMshr(m).resp_enq
    BY <1>1, <1>2 DEF MissMshr, Mshr
  <2>2. NewMshr(m) = MissMshr(m)
    BY <1>4 DEF NewMshr, DirHit, LlcHit
  <2> HIDE DEF m
  <2>3. FreshAsks(MissMshr(m), c, rtype)
    BY <1>4, <2>1 DEF FreshAsks, Fresh, Asks, Promoted
  <2>4. QED
    BY <2>2, <2>3 DEF m
<1>5. /\ LlcHitMshr(m).rtype = Promoted(rtype)
      /\ LlcHitMshr(m).sharers = llc.sharers
      /\ LlcHitMshr(m).owner = llc.owner
      /\ LlcHitMshr(m).wait = {"llc", "ack"} /\ LlcHitMshr(m).upd = {"dir"}
      /\ LlcHitMshr(m).valid /\ LlcHitMshr(m).cid = c
      /\ ~LlcHitMshr(m).upd_enq
      /\ LlcHitMshr(m).snp_need = {} /\ LlcHitMshr(m).snp_sent = {}
      /\ LlcHitMshr(m).snp_resp = {} /\ LlcHitMshr(m).snp_data = {}
      /\ LlcHitMshr(m).evict = {} /\ ~LlcHitMshr(m).inv_snp
      /\ ~LlcHitMshr(m).resp_enq /\ LlcHitMshr(m) \in Mshr
  BY <1>1, <1>2 DEF LlcHitMshr, Mshr, Promoted, ReqType
<1>6. ASSUME llc.valid,
             rtype = "ReadShared" => ~llc.owner \/ llc.sharers = {},
             rtype # "ReadShared" => llc.sharers = {}
      PROVE  FreshAsks(LlcHitMshr(m), c, rtype)
  BY <1>5, <1>6 DEF FreshAsks, Fresh, Asks, Promoted
<1>7. ASSUME llc.valid, rtype # "ReadShared"
      PROVE  FreshAsks(UniqueMshr(m), c, rtype)
  <2> DEFINE u == [m EXCEPT !.wait = {"llc", "ack"}, !.upd = {"dir"},
                            !.rtype = Promoted(@)]
  <2>1. /\ u \in Mshr /\ u.rtype = "ReadUnique" /\ u.sharers = llc.sharers
        /\ u.owner = llc.owner /\ u.wait = {"llc", "ack"}
        /\ u.upd = {"dir"} /\ u.valid /\ u.cid = c /\ ~u.upd_enq
        /\ u.snp_sent = {} /\ u.snp_resp = {} /\ u.snp_data = {}
        /\ u.evict = {} /\ ~u.resp_enq
    BY <1>1, <1>2, <1>7 DEF Mshr, Promoted, ReqType
  <2>2. UniqueMshr(m) = SnoopingMshr(u, TRUE)
    BY DEF UniqueMshr
  <2> HIDE DEF u
  <2>3. UniqueMshr(m) = [u EXCEPT !.snp_need = u.sharers \ {u.cid},
                                  !.inv_snp = TRUE]
    BY <2>2 DEF SnoopingMshr
  <2>4. /\ UniqueMshr(m).rtype = "ReadUnique"
        /\ UniqueMshr(m).sharers = llc.sharers
        /\ UniqueMshr(m).owner = llc.owner
        /\ UniqueMshr(m).wait = {"llc", "ack"}
        /\ UniqueMshr(m).upd = {"dir"} /\ UniqueMshr(m).valid
        /\ UniqueMshr(m).cid = c /\ ~UniqueMshr(m).upd_enq
        /\ UniqueMshr(m).snp_need = llc.sharers \ {c}
        /\ UniqueMshr(m).inv_snp
        /\ UniqueMshr(m).snp_sent = {} /\ UniqueMshr(m).snp_resp = {}
        /\ UniqueMshr(m).snp_data = {} /\ UniqueMshr(m).evict = {}
        /\ ~UniqueMshr(m).resp_enq
    BY <2>1, <2>3 DEF Mshr
  <2>5. QED
    BY <1>7, <2>4 DEF FreshAsks, Fresh, Asks
<1>8. ASSUME llc.valid, ~llc.owner, c \in llc.sharers, rtype = "CleanUnique"
      PROVE  FreshAsks(UpgradeMshr(m), c, rtype)
  <2> DEFINE u == [m EXCEPT !.wait = {"ack"}, !.upd = {"dir"}]
  <2>1. /\ u \in Mshr /\ u.rtype = "CleanUnique" /\ u.sharers = llc.sharers
        /\ u.owner = llc.owner /\ u.wait = {"ack"}
        /\ u.upd = {"dir"} /\ u.valid /\ u.cid = c /\ ~u.upd_enq
        /\ u.snp_need = {}
        /\ u.snp_sent = {} /\ u.snp_resp = {} /\ u.snp_data = {}
        /\ u.evict = {} /\ ~u.resp_enq
    BY <1>1, <1>2, <1>8 DEF Mshr
  <2>2. UpgradeMshr(m) = IF m.sharers = {m.cid}
                         THEN [u EXCEPT !.resp_enq = TRUE]
                         ELSE SnoopingMshr(u, TRUE)
    BY DEF UpgradeMshr
  <2> HIDE DEF u
  <2>3. CASE llc.sharers = {c}
    <3>1. UpgradeMshr(m) = [u EXCEPT !.resp_enq = TRUE]
      BY <1>2, <2>2, <2>3
    <3>2. /\ UpgradeMshr(m).rtype = "CleanUnique"
          /\ UpgradeMshr(m).sharers = llc.sharers
          /\ UpgradeMshr(m).owner = llc.owner
          /\ UpgradeMshr(m).wait = {"ack"}
          /\ UpgradeMshr(m).upd = {"dir"} /\ UpgradeMshr(m).valid
          /\ UpgradeMshr(m).cid = c /\ ~UpgradeMshr(m).upd_enq
          /\ UpgradeMshr(m).snp_need = {}
          /\ UpgradeMshr(m).snp_sent = {} /\ UpgradeMshr(m).snp_resp = {}
          /\ UpgradeMshr(m).snp_data = {} /\ UpgradeMshr(m).evict = {}
      BY <2>1, <3>1 DEF Mshr
    <3>3. QED
      BY <1>8, <2>3, <3>2 DEF FreshAsks, Fresh, Asks
  <2>4. CASE llc.sharers # {c}
    <3>1. UpgradeMshr(m) = [u EXCEPT !.snp_need = u.sharers \ {u.cid},
                                     !.inv_snp = TRUE]
      BY <1>2, <2>2, <2>4 DEF SnoopingMshr
    <3>2. /\ UpgradeMshr(m).rtype = "CleanUnique"
          /\ UpgradeMshr(m).sharers = llc.sharers
          /\ UpgradeMshr(m).owner = llc.owner
          /\ UpgradeMshr(m).wait = {"ack"}
          /\ UpgradeMshr(m).upd = {"dir"} /\ UpgradeMshr(m).valid
          /\ UpgradeMshr(m).cid = c /\ ~UpgradeMshr(m).upd_enq
          /\ UpgradeMshr(m).snp_need = llc.sharers \ {c}
          /\ UpgradeMshr(m).inv_snp
          /\ UpgradeMshr(m).snp_sent = {} /\ UpgradeMshr(m).snp_resp = {}
          /\ UpgradeMshr(m).snp_data = {} /\ UpgradeMshr(m).evict = {}
          /\ ~UpgradeMshr(m).resp_enq
      BY <2>1, <3>1 DEF Mshr
    <3>3. QED
      BY <1>8, <3>2 DEF FreshAsks, Fresh, Asks
  <2>5. QED
    BY <2>3, <2>4
<1>9. ASSUME llc.valid, rtype = "ReadShared"
      PROVE  FreshAsks(SnoopingMshr(LlcHitMshr(m), FALSE), c, rtype)
  <2> DEFINE s == SnoopingMshr(LlcHitMshr(m), FALSE)
  <2>1. /\ s.rtype = "ReadShared" /\ s.sharers = llc.sharers
        /\ s.owner = llc.owner /\ s.wait = {"llc", "ack"}
        /\ s.upd = {"dir"} /\ s.valid /\ s.cid = c /\ ~s.upd_enq
        /\ s.snp_need = llc.sharers \ {c} /\ ~s.inv_snp
        /\ s.snp_sent = {} /\ s.snp_resp = {} /\ s.snp_data = {}
        /\ s.evict = {} /\ ~s.resp_enq
    BY <1>5, <1>9 DEF SnoopingMshr, Mshr, Promoted
  <2> HIDE DEF s
  <2>2. FreshAsks(s, c, rtype)
    BY <1>9, <2>1 DEF FreshAsks, Fresh, Asks
  <2>3. QED
    BY <2>2 DEF s
<1>10. CASE llc.valid /\ llc.sharers = {}
  <2>1. NewMshr(m) = LlcHitMshr(m)
    BY <1>10 DEF NewMshr, DirHit, LlcHit
  <2>2. QED
    BY <1>6, <1>10, <2>1 DEF m
<1>11. CASE llc.valid /\ llc.sharers # {} /\ ~llc.owner
  <2>1. NewMshr(m) = SharedMshr(m)
    BY <1>11 DEF NewMshr, DirHit, LlcHit
  <2>2. CASE rtype = "ReadShared"
    <3>1. SharedMshr(m) = LlcHitMshr(m)
      BY <1>2, <2>2 DEF SharedMshr
    <3>2. QED
      BY <1>6, <1>11, <2>1, <2>2, <3>1 DEF m
  <2>3. CASE rtype = "CleanUnique" /\ c \in llc.sharers
    <3>1. SharedMshr(m) = UpgradeMshr(m)
      BY <1>2, <2>3 DEF SharedMshr
    <3>2. QED
      BY <1>8, <1>11, <2>1, <2>3, <3>1 DEF m
  <2>4. CASE \/ rtype = "ReadUnique"
             \/ rtype = "CleanUnique" /\ c \notin llc.sharers
    <3>1. SharedMshr(m) = UniqueMshr(m)
      BY <1>2, <2>4 DEF SharedMshr
    <3>2. QED
      BY <1>7, <1>11, <2>1, <2>4, <3>1 DEF m
  <2>5. QED
    BY <2>2, <2>3, <2>4
<1>12. CASE llc.valid /\ llc.sharers # {} /\ llc.owner
  <2>1. NewMshr(m) = OwnedMshr(m)
    BY <1>12 DEF NewMshr, DirHit, LlcHit
  <2>2. CASE rtype = "ReadShared"
    <3>1. OwnedMshr(m) = SnoopingMshr(LlcHitMshr(m), FALSE)
      BY <1>2, <2>2 DEF OwnedMshr
    <3>2. QED
      BY <1>9, <1>12, <2>1, <2>2, <3>1 DEF m
  <2>3. CASE rtype \in {"ReadUnique", "CleanUnique"}
    <3>1. OwnedMshr(m) = UniqueMshr(m)
      BY <1>2, <2>3 DEF OwnedMshr
    <3>2. QED
      BY <1>7, <1>12, <2>1, <2>3, <3>1 DEF m
  <2>4. QED
    BY <2>2, <2>3
<1>13. QED
  BY <1>3, <1>4, <1>10, <1>11, <1>12 DEF Llc

\* Nobody is snooped, awaited or served while no entry holds the line.
LEMMA QuietLine ==
  ASSUME ScuInv, SetFree, NEW x \in Cache, CacheInv(x)
  PROVE  /\ mshr = NoMshr /\ repl = NoRepl /\ respq = 0 /\ ~dataq /\ ~replResp
         /\ snp[x].rtype = "None" /\ snpAck[x].rtype = "None"
         /\ ~Awaited(x) /\ ~ack[x] /\ comp[x].rtype = "None"
         /\ mreq[x].phase # "refilled" /\ ~wbData[x].vld
         /\ mreq[x].phase = "sent" => req[x].rtype # "None"
         /\ ewrq[x].phase # "acked"
         /\ Present(x) <=> llc.valid /\ x \in llc.sharers
         /\ Owns(x) => llc.owner /\ llc.valid /\ llc.sharers = {x}
<1>1. ~mshr.valid /\ ~repl.valid
  BY DEF SetFree
<1>2. mshr = NoMshr /\ repl = NoRepl /\ respq = 0 /\ ~dataq /\ ~replResp
  BY <1>1 DEF ScuInv, FreeEntries
<1>3. ~Outstanding(mshr, x) /\ ~Outstanding(repl, x)
      /\ ~Awaiting(mshr, x) /\ ~Awaiting(repl, x) /\ ~Served(x)
  BY <1>1 DEF Outstanding, Awaiting, Served
<1>4. snp[x].rtype = "None" /\ snpAck[x].rtype = "None"
  BY <1>3 DEF CacheInv, SnoopInv, OutstandingAt
<1>5. /\ ~ack[x] /\ comp[x].rtype = "None" /\ mreq[x].phase # "refilled"
      /\ mreq[x].phase = "sent" => req[x].rtype # "None"
  BY <1>3 DEF CacheInv, MissInv, Open
<1>6. ~Awaited(x) /\ ~wbData[x].vld /\ ewrq[x].phase # "acked"
  BY <1>3 DEF CacheInv, EvictInv, Awaited, AwaitingAt
<1>7. /\ Present(x) <=> llc.valid /\ x \in llc.sharers
      /\ Owns(x) => llc.owner /\ llc.valid /\ llc.sharers = {x}
  BY <1>1 DEF CacheInv, DirInv, Hot
<1>8. QED
  BY <1>2, <1>4, <1>5, <1>6, <1>7

\* A request is accepted: the entry starts from the directory, and the miss
\* that asked is the one it will answer.
LEMMA AcceptReqStep ==
  ASSUME TypeOK, LineInOnePlace, ScuInv, \A x \in Cache : CacheInv(x),
         UNCHANGED l1Vars, NEW c \in Cache, AcceptReq(c)
  PROVE  ScuInv' /\ \A x \in Cache : CacheInv(x)'
<1>a. req \in [Cache -> ReqMsg] /\ llc \in Llc /\ ScuTypeOK
  BY DEF TypeOK, ChanTypeOK, ScuTypeOK
<1>b. BankInv(c) /\ MissInv(c) /\ EvictInv(c) /\ SnoopInv(c) /\ DirInv(c)
  BY DEF CacheInv
<1> DEFINE m == NewMshr(BlankMshr(req[c].rtype, c, req[c].full))
<1>1. /\ req[c].rtype # "None" /\ SetFree
      /\ mshr' = m /\ respq' = RespAtAlloc(m)
      /\ req' = [req EXCEPT ![c] = NoReq]
      /\ UNCHANGED <<dataq, repl, replResp, llc>>
      /\ UNCHANGED <<evt, snpAck, ack, wbData, snp, comp, wbAck>>
  BY DEF AcceptReq, Allocate
<1>2. FreshAsks(m, c, req[c].rtype)
  <2>1. req[c].full \in SUBSET Burst /\ req[c].rtype \in ReqType
    BY <1>a DEF ReqMsg
  <2>2. QED
    BY <1>a, <1>1, <2>1, RequestMshr DEF ReqType
<1> HIDE DEF m
<1>3. FreshAsks(mshr', c, req[c].rtype)
  BY <1>1, <1>2
<1>4. UNCHANGED <<st, drt, mreq, vic, ewrq>>
  BY DEF l1Vars
<1>5. /\ req'[c] = NoReq /\ \A x \in Cache : x # c => SameAt(x)
  BY <1>a, <1>1, <1>4 DEF SameAt
<1>6. /\ mshr = NoMshr /\ repl = NoRepl /\ ~dataq' /\ ~replResp'
      /\ repl' = NoRepl
  BY <1>1, QuietLine
<1>7. respq' \in {0, 1} /\ (respq' = 1 <=> mshr'.resp_enq)
  BY <1>1, <1>3 DEF RespAtAlloc, FreshAsks
<1>8. ScuInv'
  <2>1. FreeEntries'
    BY <1>3, <1>6 DEF FreeEntries, FreshAsks, Fresh, NoRepl
  <2>2. SnoopLists'
    BY <1>3, <1>6 DEF SnoopLists, FreshAsks, Fresh, NoRepl, Answered
  <2>3. Kinds'
    BY <1>3 DEF Kinds, FreshAsks, Fresh, Asks, Leaves
  <2>4. Stages'
    BY <1>3 DEF Stages, FreshAsks, Fresh, AllAnswered
  <2>5. Fifos'
    BY <1>3, <1>6, <1>7 DEF Fifos, FreshAsks, NoRepl
  <2>6. QED
    BY <2>1, <2>2, <2>3, <2>4, <2>5 DEF ScuInv
<1>9. /\ mshr'.valid /\ mshr'.cid = c /\ "dir" \in mshr'.upd
      /\ mshr'.sharers = IF llc.valid THEN llc.sharers ELSE {}
      /\ mshr'.owner <=> llc.valid /\ llc.owner
      /\ Answered(mshr)' = {} /\ mshr'.snp_sent = {}
      /\ "ack" \in mshr'.wait /\ "wb" \notin mshr'.wait /\ mshr'.evict = {}
      /\ Asks(mshr') /\ ~Leaves(mshr')
  BY <1>3 DEF FreshAsks, Fresh, Answered, Asks, Leaves
<1>10. /\ Answered(repl)' = {} /\ ~repl'.valid /\ repl'.snp_sent = {}
  BY <1>6 DEF NoRepl, Answered
<1>11. ASSUME NEW x \in Cache
       PROVE  /\ EvictInv(x)' /\ SnoopInv(x)' /\ ~Awaited(x)'
              /\ (Present(x)' <=> Present(x)) /\ (Owns(x)' <=> Owns(x))
  <2>a. EvictInv(x) /\ SnoopInv(x)
    BY DEF CacheInv
  <2>1. /\ st'[x] = st[x] /\ evt'[x] = evt[x] /\ ewrq'[x] = ewrq[x]
        /\ snp'[x] = snp[x] /\ snpAck'[x] = snpAck[x]
        /\ wbAck'[x] = wbAck[x] /\ wbData'[x] = wbData[x]
    BY <1>1, <1>4
  <2>2. ~Awaiting(mshr, x)' /\ ~Awaiting(repl, x)'
    BY <1>9, <1>10 DEF Awaiting
  <2>3. /\ snp[x].rtype = "None" /\ snpAck[x].rtype = "None"
        /\ ~Awaiting(mshr, x) /\ ~Awaiting(repl, x)
        /\ ~wbData[x].vld /\ ewrq[x].phase # "acked"
    BY <1>1, QuietLine DEF Awaited
  <2>4. EvictInv(x)'
    BY <2>a, <2>1, <2>2, <2>3 DEF EvictInv, AwaitingAt, Awaited, AckToSend
  <2>5. SnoopInv(x)'
    BY <2>1, <2>3, <1>9, <1>10 DEF SnoopInv
  <2>6. QED
    BY <2>1, <2>2, <2>4, <2>5 DEF Awaited, Present, Owns
<1>12. ASSUME NEW x \in Cache PROVE DirInv(x)'
  <2>1. /\ Present(x) <=> llc.valid /\ x \in llc.sharers
        /\ Owns(x) => llc.owner /\ llc.valid /\ llc.sharers = {x}
        /\ ~ack[x] /\ mreq[x].phase # "refilled"
    BY <1>1, QuietLine
  <2>2. ~Consumed(x)'
    BY <2>1, <1>1, <1>4, <1>9 DEF Consumed
  <2>3. /\ (Present(x)' <=> Present(x)) /\ (Hot(x)' <=> Owns(x))
    BY <1>11 DEF Hot
  <2>4. QED
    BY <1>9, <2>1, <2>2, <2>3 DEF DirInv
<1>13. ASSUME NEW x \in Cache, x # c PROVE BankInv(x)' /\ MissInv(x)'
  <2>a. BankInv(x) /\ MissInv(x) /\ SameAt(x)
    BY <1>5, <1>13 DEF CacheInv
  <2>1. /\ ~ack[x] /\ mreq[x].phase # "refilled" /\ comp[x].rtype = "None"
        /\ mreq[x].phase = "sent" => req[x].rtype # "None"
    BY <1>1, QuietLine
  <2>2. ~Open(x)'
    BY <1>9, <1>13 DEF Open, Served
  <2>3. QED
    BY <2>a, <2>1, <2>2 DEF BankInv, MissInv, SameAt
<1>14. BankInv(c)' /\ MissInv(c)'
  <2>1. /\ mreq[c].phase = "sent" /\ req[c] = ReqOf(mreq[c])
    BY <1>b, <1>1 DEF MissInv
  <2>2. ~ack[c] /\ comp[c].rtype = "None"
        /\ (Present(c) <=> llc.valid /\ c \in llc.sharers)
    BY <1>1, QuietLine
  <2>3. Open(c)'
    BY <2>2, <1>1, <1>9 DEF Open, Served
  <2>4. /\ req[c].rtype = "ReadShared" <=> ~mreq[c].store
        /\ req[c].rtype = "CleanUnique" => mreq[c].perm
    BY <2>1 DEF ReqOf
  <2>5. ASSUME mshr'.rtype = "CleanUnique" PROVE mreq[c].perm /\ st[c] = "S"
    <3>1. req[c].rtype = "CleanUnique" /\ Present(c)
      BY <1>3, <1>9, <2>2, <2>5 DEF FreshAsks
    <3>2. ewrq[c].phase = "none" /\ (st[c] = "I" \/ st[c] = "S")
      BY <2>1 DEF LineInOnePlace
    <3>3. evt[c] = "None"
      BY <1>b, <3>2 DEF EvictInv
    <3>4. QED
      BY <2>4, <3>1, <3>2, <3>3 DEF Present
  <2>6. mshr'.rtype = "ReadShared" <=> ~mreq[c].store
    BY <1>3, <2>4 DEF FreshAsks
  <2>7. BankInv(c)'
    BY <1>b, <1>1, <1>4, <1>5 DEF BankInv
  <2>8. MissInv(c)'
    BY <2>1, <2>2, <2>3, <2>5, <2>6, <1>1, <1>4, <1>5 DEF MissInv, NoReq
  <2>9. QED
    BY <2>7, <2>8
<1>15. QED
  BY <1>8, <1>11, <1>12, <1>13, <1>14 DEF CacheInv

\* The MSHR of an eviction.
LEMMA EvictionMshr ==
  ASSUME ScuTypeOK, NEW c \in Cache,
         NEW rtype \in {"Evict", "WriteBackPartial"},
         llc.valid, c \in llc.sharers,
         rtype = "WriteBackPartial" => llc.owner
  PROVE  LET m == NewMshr(BlankMshr(rtype, c, {}))
         IN  /\ Fresh(m, c) /\ m.rtype = rtype /\ m.snp_need = {}
             /\ m.evict = {c} /\ ~m.resp_enq
             /\ m.wait = IF rtype = "Evict" THEN {} ELSE {"llc", "wb"}
             /\ rtype = "Evict" => "data" \notin m.upd
             /\ rtype # "Evict" => m.wb_cid = c
<1> DEFINE m == BlankMshr(rtype, c, {})
<1>1. m \in Mshr
  BY EmptyEntryTypes DEF BlankMshr, Mshr, ScuTypeOK, Llc, EvictType
<1>2. /\ m.valid /\ m.cid = c /\ m.rtype = rtype /\ ~m.upd_enq
      /\ m.sharers = llc.sharers /\ m.owner = llc.owner
      /\ m.snp_need = {} /\ m.snp_sent = {} /\ m.snp_resp = {}
      /\ m.snp_data = {} /\ ~m.resp_enq /\ m.wait = {}
  BY DEF BlankMshr, NoMshr
<1> HIDE DEF m
<1>3. DirHit
  BY DEF DirHit
<1>4. CASE rtype = "Evict"
  <2>1. SharedMshr(m) = EvictMshr(m) /\ OwnedMshr(m) = EvictMshr(m)
    BY <1>2, <1>4 DEF SharedMshr, OwnedMshr
  <2>2. NewMshr(m) = EvictMshr(m)
    BY <1>3, <2>1 DEF NewMshr
  <2>3. /\ EvictMshr(m).valid /\ EvictMshr(m).cid = c
        /\ EvictMshr(m).rtype = "Evict" /\ ~EvictMshr(m).upd_enq
        /\ EvictMshr(m).sharers = llc.sharers
        /\ EvictMshr(m).owner = llc.owner
        /\ EvictMshr(m).snp_need = {} /\ EvictMshr(m).snp_sent = {}
        /\ EvictMshr(m).snp_resp = {} /\ EvictMshr(m).snp_data = {}
        /\ ~EvictMshr(m).resp_enq /\ EvictMshr(m).wait = {}
        /\ EvictMshr(m).upd = {"dir"} /\ EvictMshr(m).evict = {c}
    BY <1>1, <1>2, <1>4 DEF EvictMshr, Mshr
  <2>4. QED
    BY <1>4, <2>2, <2>3 DEF Fresh, m
<1>5. CASE rtype = "WriteBackPartial"
  <2>1. ~LlcHit
    BY <1>5 DEF LlcHit
  <2>2. OwnedMshr(m) = WriteBackMshr(m)
    BY <1>2, <1>5 DEF OwnedMshr
  <2>3. NewMshr(m) = WriteBackMshr(m)
    BY <1>3, <2>1, <2>2 DEF NewMshr
  <2>4. /\ WriteBackMshr(m).valid /\ WriteBackMshr(m).cid = c
        /\ WriteBackMshr(m).rtype = rtype /\ ~WriteBackMshr(m).upd_enq
        /\ WriteBackMshr(m).sharers = llc.sharers
        /\ WriteBackMshr(m).owner = llc.owner
        /\ WriteBackMshr(m).snp_need = {} /\ WriteBackMshr(m).snp_sent = {}
        /\ WriteBackMshr(m).snp_resp = {} /\ WriteBackMshr(m).snp_data = {}
        /\ ~WriteBackMshr(m).resp_enq
        /\ WriteBackMshr(m).wait = {"llc", "wb"}
        /\ WriteBackMshr(m).upd = {"data", "dir"}
        /\ WriteBackMshr(m).evict = {c} /\ WriteBackMshr(m).wb_cid = c
    BY <1>1, <1>2 DEF WriteBackMshr, Mshr
  <2>5. QED
    BY <1>5, <2>3, <2>4 DEF Fresh, m
<1>6. QED
  BY <1>4, <1>5

\* The eviction that is taken from the FIFO: where the line was, and where
\* it is now.
LEMMA TakenEviction ==
  ASSUME TypeOK, LineInOnePlace, NEW c \in Cache, CacheInv(c),
         UNCHANGED l1Vars, EvictTaken(c)
  PROVE  /\ evt[c] \in {"Evict", "WriteBackPartial"} /\ evt'[c] = "None"
         /\ ewrq[c].phase = "sent" /\ st[c] = "I" /\ mreq[c].phase = "idle"
         /\ ~wbAck[c].vld /\ ~Awaited(c)
         /\ Present(c) /\ ~Present(c)' /\ (Owns(c)' <=> Owns(c))
         /\ IsWriteBack(c) <=> ewrq[c].wb
         /\ IsWriteBack(c) => wbAck'[c] = wbAck[c] /\ Owns(c)
         /\ ~IsWriteBack(c) => wbAck'[c].vld
         /\ \A x \in Cache : x # c => SameAt(x)
         /\ UNCHANGED <<req, snpAck, ack, wbData, snp, comp>>
         /\ UNCHANGED <<st, drt, mreq, vic, ewrq>>
<1>a. evt \in [Cache -> EvictType] /\ wbAck \in [Cache -> WbAckMsg]
  BY DEF TypeOK, ChanTypeOK
<1>b. EvictInv(c)
  BY DEF CacheInv
<1>1. /\ evt[c] # "None" /\ evt' = [evt EXCEPT ![c] = "None"]
      /\ wbAck' = IF evt[c] = "Evict"
                  THEN [wbAck EXCEPT ![c] = [vld |-> TRUE, tid |-> "mshr"]]
                  ELSE wbAck
      /\ UNCHANGED <<req, snpAck, ack, wbData, snp, comp>>
  BY DEF EvictTaken, EvictAnswer
<1>2. UNCHANGED <<st, drt, mreq, vic, ewrq>>
  BY DEF l1Vars
<1>3. evt[c] \in {"Evict", "WriteBackPartial"} /\ evt'[c] = "None"
  BY <1>a, <1>1 DEF EvictType
<1>4. /\ ewrq[c].phase = "sent" /\ ~wbAck[c].vld /\ ~Awaited(c)
      /\ IsWriteBack(c) <=> ewrq[c].wb
  BY <1>b, <1>1 DEF EvictInv, IsWriteBack
<1>5. st[c] = "I" /\ mreq[c].phase = "idle"
  BY <1>4 DEF LineInOnePlace
<1>6. Present(c) /\ ~Present(c)' /\ (Owns(c)' <=> Owns(c))
  BY <1>1, <1>2, <1>3, <1>4, <1>5 DEF Present, Owns
<1>7. /\ IsWriteBack(c) => wbAck'[c] = wbAck[c] /\ Owns(c)
      /\ ~IsWriteBack(c) => wbAck'[c].vld
  BY <1>a, <1>1, <1>3, <1>4 DEF IsWriteBack, Owns
<1>8. \A x \in Cache : x # c => SameAt(x)
  BY <1>a, <1>1, <1>2 DEF SameAt
<1>9. QED
  BY <1>1, <1>2, <1>3, <1>4, <1>5, <1>6, <1>7, <1>8

\* An eviction gets an entry of its own.
LEMMA EvictNewStep ==
  ASSUME TypeOK, LineInOnePlace, ScuInv, \A x \in Cache : CacheInv(x),
         UNCHANGED l1Vars, NEW c \in Cache, EvictNew(c)
  PROVE  ScuInv' /\ \A x \in Cache : CacheInv(x)'
<1>a. ScuTypeOK
  BY DEF TypeOK
<1>b. BankInv(c) /\ MissInv(c) /\ EvictInv(c) /\ SnoopInv(c) /\ DirInv(c)
  BY DEF CacheInv
<1> DEFINE m == NewMshr(BlankMshr(evt[c], c, {}))
<1>1. /\ SetFree /\ EvictTaken(c)
      /\ mshr' = m /\ respq' = RespAtAlloc(m)
      /\ UNCHANGED <<dataq, repl, replResp, llc>>
  BY DEF EvictNew, Allocate
<1> HIDE DEF m
<1>2. /\ evt[c] \in {"Evict", "WriteBackPartial"} /\ evt'[c] = "None"
      /\ ewrq[c].phase = "sent" /\ st[c] = "I" /\ mreq[c].phase = "idle"
      /\ ~wbAck[c].vld
      /\ Present(c) /\ ~Present(c)' /\ (Owns(c)' <=> Owns(c))
      /\ IsWriteBack(c) <=> ewrq[c].wb
      /\ IsWriteBack(c) => wbAck'[c] = wbAck[c] /\ Owns(c)
      /\ ~IsWriteBack(c) => wbAck'[c].vld
  BY <1>1, TakenEviction
<1>3. /\ \A x \in Cache : x # c => SameAt(x)
      /\ UNCHANGED <<req, snpAck, ack, wbData, snp, comp>>
      /\ UNCHANGED <<st, drt, mreq, vic, ewrq>>
  BY <1>1, TakenEviction
<1>4. llc.valid /\ c \in llc.sharers /\ (IsWriteBack(c) => llc.owner)
  BY <1>1, <1>2, QuietLine
<1>5. /\ Fresh(mshr', c) /\ mshr'.rtype = evt[c] /\ mshr'.snp_need = {}
      /\ mshr'.evict = {c} /\ ~mshr'.resp_enq
      /\ mshr'.wait = IF evt[c] = "Evict" THEN {} ELSE {"llc", "wb"}
      /\ evt[c] = "Evict" => "data" \notin mshr'.upd
      /\ evt[c] # "Evict" => mshr'.wb_cid = c
  BY <1>a, <1>1, <1>2, <1>4, EvictionMshr DEF m, IsWriteBack
<1>6. /\ repl = NoRepl /\ mshr = NoMshr /\ ~dataq' /\ ~replResp'
      /\ repl' = NoRepl
  BY <1>1, QuietLine
<1>7. respq' = IF evt[c] = "Evict" THEN 0 ELSE 1
  BY <1>1, <1>5 DEF RespAtAlloc
<1>8. ScuInv'
  <2>1. FreeEntries'
    BY <1>5, <1>6 DEF FreeEntries, Fresh, NoRepl
  <2>2. SnoopLists'
    BY <1>5, <1>6 DEF SnoopLists, Fresh, NoRepl, Answered
  <2>3. Kinds'
    BY <1>2, <1>4, <1>5 DEF Kinds, Fresh, Asks, Leaves
  <2>4. Stages'
    BY <1>2, <1>5 DEF Stages, Fresh, AllAnswered, Asks
  <2>5. Fifos'
    BY <1>2, <1>5, <1>6, <1>7 DEF Fifos, NoRepl
  <2>6. QED
    BY <2>1, <2>2, <2>3, <2>4, <2>5 DEF ScuInv
<1>9. /\ mshr'.valid /\ mshr'.cid = c /\ "dir" \in mshr'.upd
      /\ mshr'.sharers = llc.sharers /\ (mshr'.owner <=> llc.owner)
      /\ Answered(mshr)' = {} /\ mshr'.snp_sent = {}
      /\ "ack" \notin mshr'.wait /\ ("wb" \in mshr'.wait <=> IsWriteBack(c))
      /\ ~Asks(mshr') /\ Leaves(mshr')
  BY <1>2, <1>4, <1>5 DEF Fresh, Answered, Asks, Leaves, IsWriteBack
<1>10. /\ Answered(repl)' = {} /\ ~repl'.valid /\ repl'.snp_sent = {}
  BY <1>6 DEF NoRepl, Answered
<1>11. ASSUME NEW x \in Cache
       PROVE  /\ BankInv(x)' /\ MissInv(x)' /\ SnoopInv(x)'
  <2>a. BankInv(x) /\ MissInv(x)
    BY DEF CacheInv
  <2>1. /\ ~ack[x] /\ mreq[x].phase # "refilled" /\ comp[x].rtype = "None"
        /\ mreq[x].phase = "sent" => req[x].rtype # "None"
        /\ snp[x].rtype = "None" /\ snpAck[x].rtype = "None"
    BY <1>1, QuietLine
  <2>2. ~Open(x)'
    BY <1>9 DEF Open, Served
  <2>3. BankInv(x)' /\ MissInv(x)'
    BY <2>a, <2>1, <2>2, <1>3 DEF BankInv, MissInv
  <2>4. SnoopInv(x)'
    BY <2>1, <1>3, <1>9, <1>10 DEF SnoopInv
  <2>5. QED
    BY <2>3, <2>4
<1>12. ASSUME NEW x \in Cache, x # c PROVE EvictInv(x)' /\ DirInv(x)'
  <2>a. EvictInv(x) /\ SameAt(x)
    BY <1>3, <1>12 DEF CacheInv
  <2>1. /\ ~Awaiting(mshr, x) /\ ~Awaiting(repl, x)
        /\ ~wbData[x].vld /\ ewrq[x].phase # "acked"
        /\ Present(x) <=> llc.valid /\ x \in llc.sharers
        /\ Owns(x) => llc.owner /\ llc.valid /\ llc.sharers = {x}
    BY <1>1, QuietLine DEF Awaited
  <2>2. ~Awaiting(mshr, x)' /\ ~Awaiting(repl, x)'
    BY <1>2, <1>5, <1>10, <1>12 DEF Awaiting
  <2>3. EvictInv(x)'
    BY <2>a, <2>1, <2>2 DEF EvictInv, SameAt, AwaitingAt, Awaited, AckToSend
  <2>4. /\ (Present(x)' <=> Present(x)) /\ (Hot(x)' <=> Owns(x))
    BY <2>a, <2>2 DEF Present, Owns, Hot, Awaited, SameAt
  <2>5. DirInv(x)'
    BY <1>4, <1>5, <1>9, <1>12, <2>1, <2>4 DEF DirInv
  <2>6. QED
    BY <2>3, <2>5
<1>13. EvictInv(c)' /\ DirInv(c)'
  <2>1. /\ ~wbData[c].vld /\ snpAck[c].rtype = "None"
    BY <1>1, QuietLine
  <2>2. Awaiting(mshr, c)' <=> IsWriteBack(c)
    BY <1>2, <1>5, <1>9 DEF Awaiting, IsWriteBack
  <2>3. ~Awaiting(repl, c)'
    BY <1>10 DEF Awaiting
  <2>4. EvictInv(c)'
    BY <1>2, <1>3, <2>1, <2>2, <2>3 DEF EvictInv, AwaitingAt, Awaited,
       AckToSend
  <2>5. ~Consumed(c)'
    BY <1>9 DEF Consumed
  <2>6. DirInv(c)'
    BY <1>2, <1>9, <2>5 DEF DirInv
  <2>7. QED
    BY <2>4, <2>6
<1>14. QED
  BY <1>8, <1>11, <1>12, <1>13 DEF CacheInv

\* A write-back that meets the entry of another cache's transaction comes
\* from the only sharer that the transaction started from, while its snoop
\* is under way: neither the answer nor the update has been queued.
LEMMA WriteBackMeets ==
  ASSUME TypeOK, OneAgent, LineInOnePlace, ScuInv,
         \A x \in Cache : CacheInv(x), NEW c \in Cache,
         mshr.valid, "dir" \in mshr.upd, mshr.cid # c,
         evt[c] = "WriteBackPartial"
  PROVE  /\ mshr.owner /\ mshr.sharers = {c} /\ Asks(mshr)
         /\ mshr.rtype # "CleanUnique" /\ ~mshr.resp_enq
         /\ "ack" \in mshr.wait /\ "wb" \notin mshr.wait
         /\ respq = 0 /\ ~mshr.upd_enq
<1>a. BankInv(c) /\ MissInv(c) /\ EvictInv(c) /\ SnoopInv(c) /\ DirInv(c)
  BY DEF CacheInv
<1>b. FreeEntries /\ SnoopLists /\ Kinds /\ Stages /\ Fifos
  BY DEF ScuInv
<1>1. Owns(c) /\ Hot(c) /\ ~Awaited(c)
  BY <1>a DEF EvictInv, Owns, Hot
<1>2. mshr.owner /\ mshr.sharers = {c}
  BY <1>a, <1>1 DEF DirInv
<1>3. Asks(mshr) /\ mshr.rtype # "CleanUnique"
  BY <1>b, <1>2 DEF Kinds
<1>4. c \in mshr.snp_need
  BY <1>b, <1>2, <1>3 DEF Kinds, Asks
<1>5. ~AllAnswered(mshr)
  <2>1. c \notin Answered(mshr)
    BY <1>a, <1>1 DEF SnoopInv
  <2>2. QED
    BY <1>4, <2>1 DEF AllAnswered, Answered
<1>6. ~mshr.resp_enq /\ "ack" \in mshr.wait /\ ~mshr.upd_enq
  BY <1>b, <1>3, <1>5 DEF Stages
<1>7. ASSUME "wb" \in mshr.wait PROVE FALSE
  <2>1. mshr.wb_cid \in Cache /\ mshr.wb_cid # mshr.cid
    BY <1>b, <1>3, <1>7 DEF Fifos, Asks
  <2>2. Awaited(mshr.wb_cid)
    BY <1>7 DEF Awaited, Awaiting
  <2>3. mshr.wb_cid = c
    BY <1>1, <2>1, <2>2, OwnerAlone DEF Hot
  <2>4. QED
    BY <1>1, <2>2, <2>3
<1>8. respq = 0
  BY <1>b, <1>3, <1>7 DEF Fifos
<1>9. QED
  BY <1>2, <1>3, <1>6, <1>7, <1>8

\* An eviction is recorded in the entry of another cache's transaction.
LEMMA EvictToMshrStep ==
  ASSUME TypeOK, OneAgent, LineInOnePlace, ScuInv,
         \A x \in Cache : CacheInv(x), UNCHANGED l1Vars, NEW c \in Cache,
         EvictToMshr(c), mshr.cid # c
  PROVE  ScuInv' /\ \A x \in Cache : CacheInv(x)'
<1>a. mshr \in Mshr /\ respq \in Nat
  BY DEF TypeOK, ScuTypeOK
<1>b. FreeEntries /\ SnoopLists /\ Kinds /\ Stages /\ Fifos
  BY DEF ScuInv
<1>c. BankInv(c) /\ MissInv(c) /\ EvictInv(c) /\ SnoopInv(c) /\ DirInv(c)
  BY DEF CacheInv
<1>1. /\ mshr.valid /\ "dir" \in mshr.upd /\ ~mshr.upd_enq /\ EvictTaken(c)
      /\ mshr' = GotEvict(mshr, c)
      /\ respq' = IF IsWriteBack(c) THEN respq + 1 ELSE respq
      /\ UNCHANGED <<dataq, repl, replResp, llc>>
  BY DEF EvictToMshr, TakesEvict
<1>2. /\ evt[c] \in {"Evict", "WriteBackPartial"} /\ evt'[c] = "None"
      /\ ewrq[c].phase = "sent" /\ st[c] = "I" /\ mreq[c].phase = "idle"
      /\ ~wbAck[c].vld /\ ~Awaited(c)
      /\ Present(c) /\ ~Present(c)' /\ (Owns(c)' <=> Owns(c))
      /\ IsWriteBack(c) <=> ewrq[c].wb
      /\ IsWriteBack(c) => wbAck'[c] = wbAck[c] /\ Owns(c)
      /\ ~IsWriteBack(c) => wbAck'[c].vld
  BY <1>1, TakenEviction
<1>3. /\ \A x \in Cache : x # c => SameAt(x)
      /\ UNCHANGED <<req, snpAck, ack, wbData, snp, comp>>
      /\ UNCHANGED <<st, drt, mreq, vic, ewrq>>
  BY <1>1, TakenEviction
<1>4. /\ ConfKept /\ mshr'.evict = mshr.evict \cup {c}
      /\ mshr'.snp_sent = mshr.snp_sent /\ mshr'.snp_resp = mshr.snp_resp
      /\ mshr'.snp_data = mshr.snp_data /\ mshr'.upd = mshr.upd
      /\ mshr'.resp_enq = mshr.resp_enq /\ mshr'.upd_enq = mshr.upd_enq
      /\ mshr'.data_valid = mshr.data_valid
      /\ mshr'.wait = IF IsWriteBack(c) THEN mshr.wait \cup {"wb"}
                      ELSE mshr.wait
      /\ mshr'.wb_cid = IF IsWriteBack(c) THEN c ELSE mshr.wb_cid
  <2>1. CASE IsWriteBack(c)
    BY <1>a, <1>1, <2>1 DEF GotEvict, Mshr, ConfKept
  <2>2. CASE ~IsWriteBack(c)
    BY <1>a, <1>1, <2>2 DEF GotEvict, Mshr, ConfKept
  <2>3. QED
    BY <2>1, <2>2
<1>5. IsWriteBack(c) =>
        /\ mshr.owner /\ mshr.sharers = {c} /\ Asks(mshr)
        /\ mshr.rtype # "CleanUnique" /\ ~mshr.resp_enq
        /\ "ack" \in mshr.wait /\ "wb" \notin mshr.wait
        /\ respq = 0
  BY <1>1, WriteBackMeets DEF IsWriteBack
<1>6. ~repl.valid /\ ~replResp
  BY <1>b, <1>1 DEF OneAgent, FreeEntries
<1>7. ScuInv'
  <2>1. FreeEntries' /\ SnoopLists'
    BY <1>b, <1>1, <1>4 DEF FreeEntries, SnoopLists, ConfKept, Answered
  <2>2. Kinds'
    BY <1>b, <1>1, <1>4, <1>5 DEF Kinds, ConfKept, Asks, Leaves
  <2>3. Stages'
    BY <1>b, <1>1, <1>4, <1>5 DEF Stages, ConfKept, Asks, AllAnswered
  <2>4. Fifos'
    <3>1. CASE IsWriteBack(c)
      BY <1>b, <1>1, <1>4, <1>5, <3>1 DEF Fifos, ConfKept
    <3>2. CASE ~IsWriteBack(c)
      BY <1>b, <1>1, <1>4, <3>2 DEF Fifos, ConfKept
    <3>3. QED
      BY <3>1, <3>2
  <2>5. QED
    BY <2>1, <2>2, <2>3, <2>4 DEF ScuInv
<1>8. ASSUME NEW x \in Cache, x # c PROVE CacheInv(x)'
  <2>1. CASE IsWriteBack(c)
    <3>1. ~Awaiting(mshr, x) /\ ~Awaiting(mshr, x)'
      BY <1>4, <1>5, <1>8, <2>1 DEF Awaiting
    <3>2. "ack" \in mshr'.wait <=> "ack" \in mshr.wait
      BY <1>4
    <3>3. Queued' <=> Queued
      BY <1>1, <1>4, <1>5, <2>1 DEF Queued, ConfKept
    <3>4. AckToSend(x)' <=> AckToSend(x)
      BY <1>1, <1>6, <3>1 DEF AckToSend, Awaiting
    <3>5. ViewKept(x)
      BY <1>1, <1>4, <1>8, <3>1, <3>2, <3>3, <3>4 DEF ViewKept, Answered,
         Awaiting
    <3>6. QED
      BY <1>3, <1>8, <3>5, ViewStep
  <2>2. CASE ~IsWriteBack(c)
    <3>1. ViewKept(x)
      BY <1>1, <1>4, <1>8, <2>2 DEF ViewKept, ConfKept, Answered, Awaiting,
         AckToSend, Queued
    <3>2. QED
      BY <1>3, <1>8, <3>1, ViewStep
  <2>3. QED
    BY <2>1, <2>2
<1>9. CacheInv(c)'
  <2>1. ~Served(c) /\ ~Open(c) /\ ~Open(c)' /\ BankInv(c)'
    BY <1>c, <1>1, <1>3, <1>4 DEF Open, Served, ConfKept, BankInv
  <2>2. MissInv(c)'
    BY <1>c, <1>2, <1>3, <2>1 DEF MissInv
  <2>3. /\ Awaiting(mshr, c)' <=> IsWriteBack(c)
        /\ ~Awaiting(repl, c)' /\ ~Awaiting(mshr, c) /\ ~Awaiting(repl, c)
    BY <1>1, <1>2, <1>4, <1>6 DEF Awaiting, Awaited, ConfKept
  <2>4. ~wbData[c].vld
    BY <1>c, <1>2 DEF EvictInv
  <2>5. IsWriteBack(c) => snpAck[c].rtype # "FoundM"
    BY <1>c, <1>2 DEF SnoopInv
  <2>6. EvictInv(c)'
    BY <1>2, <1>3, <2>3, <2>4, <2>5 DEF EvictInv, AwaitingAt, Awaited,
       AckToSend
  <2>7. SnoopInv(c)'
    BY <1>c, <1>1, <1>2, <1>3, <1>4 DEF SnoopInv, OutstandingAt, Outstanding,
       Answered, ConfKept
  <2>8. Hot(c)' => mshr.owner /\ mshr.sharers = {c}
    <3>1. Hot(c)' => Hot(c) \/ IsWriteBack(c)
      BY <1>2, <2>3 DEF Hot, Awaited
    <3>2. Hot(c) => mshr.owner /\ mshr.sharers = {c}
      BY <1>c, <1>1 DEF DirInv
    <3>3. QED
      BY <1>5, <3>1, <3>2
  <2>9. DirInv(c)'
    BY <1>1, <1>2, <1>4, <2>8 DEF DirInv, ConfKept
  <2>10. QED
    BY <2>1, <2>2, <2>6, <2>7, <2>9 DEF CacheInv
<1>10. QED
  BY <1>7, <1>8, <1>9

\* An eviction is recorded in the replacement MSHR of the line.
LEMMA EvictToReplStep ==
  ASSUME TypeOK, OneAgent, LineInOnePlace, ScuInv,
         \A x \in Cache : CacheInv(x), UNCHANGED l1Vars, NEW c \in Cache,
         EvictToRepl(c)
  PROVE  ScuInv' /\ \A x \in Cache : CacheInv(x)'
<1>a. repl \in Repl /\ replResp \in BOOLEAN
  BY DEF TypeOK, ScuTypeOK
<1>b. FreeEntries /\ SnoopLists /\ Kinds /\ Stages /\ Fifos
  BY DEF ScuInv
<1>c. BankInv(c) /\ MissInv(c) /\ EvictInv(c) /\ SnoopInv(c) /\ DirInv(c)
  BY DEF CacheInv
<1>1. /\ ~mshr.valid /\ repl.valid /\ EvictTaken(c)
      /\ repl' = GotEvict(repl, c)
      /\ replResp' = (replResp \/ IsWriteBack(c))
      /\ UNCHANGED <<mshr, respq, dataq, llc>>
  BY DEF EvictToRepl
<1>2. /\ evt[c] \in {"Evict", "WriteBackPartial"} /\ evt'[c] = "None"
      /\ ewrq[c].phase = "sent" /\ st[c] = "I" /\ mreq[c].phase = "idle"
      /\ ~wbAck[c].vld /\ ~Awaited(c)
      /\ Present(c) /\ ~Present(c)' /\ (Owns(c)' <=> Owns(c))
      /\ IsWriteBack(c) <=> ewrq[c].wb
      /\ IsWriteBack(c) => wbAck'[c] = wbAck[c] /\ Owns(c)
      /\ ~IsWriteBack(c) => wbAck'[c].vld
  BY <1>1, TakenEviction
<1>3. /\ \A x \in Cache : x # c => SameAt(x)
      /\ UNCHANGED <<req, snpAck, ack, wbData, snp, comp>>
      /\ UNCHANGED <<st, drt, mreq, vic, ewrq>>
  BY <1>1, TakenEviction
<1>4. /\ ConfKept /\ repl'.evict = repl.evict \cup {c}
      /\ repl'.snp_sent = repl.snp_sent /\ repl'.snp_resp = repl.snp_resp
      /\ repl'.snp_data = repl.snp_data
      /\ repl'.wait = IF IsWriteBack(c) THEN repl.wait \cup {"wb"}
                      ELSE repl.wait
      /\ repl'.wb_cid = IF IsWriteBack(c) THEN c ELSE repl.wb_cid
  <2>1. CASE IsWriteBack(c)
    BY <1>a, <1>1, <2>1 DEF GotEvict, Repl, ConfKept
  <2>2. CASE ~IsWriteBack(c)
    BY <1>a, <1>1, <2>2 DEF GotEvict, Repl, ConfKept
  <2>3. QED
    BY <2>1, <2>2
<1>5. IsWriteBack(c) => "wb" \notin repl.wait /\ ~replResp
                        /\ repl.snp_need = {c}
  <2> SUFFICES ASSUME IsWriteBack(c)
               PROVE  "wb" \notin repl.wait /\ ~replResp
                      /\ repl.snp_need = {c}
    OBVIOUS
  <2>1. Hot(c)
    BY <1>2 DEF Hot
  <2>2. repl.snp_need = {c}
    BY <1>c, <1>1, <2>1 DEF DirInv
  <2>3. ASSUME "wb" \in repl.wait PROVE FALSE
    <3>1. repl.wb_cid \in Cache
      BY <1>b, <2>3 DEF Fifos
    <3>2. Awaited(repl.wb_cid)
      BY <1>1, <2>3 DEF Awaited, Awaiting
    <3>3. repl.wb_cid = c
      BY <1>1, <2>1, <3>1, <3>2, OwnerAlone DEF Hot
    <3>4. QED
      BY <1>2, <3>2, <3>3
  <2>4. QED
    BY <1>b, <2>2, <2>3 DEF Fifos
<1>6. ScuInv'
  <2>1. FreeEntries' /\ SnoopLists' /\ Kinds' /\ Stages'
    BY <1>b, <1>1, <1>4 DEF FreeEntries, SnoopLists, ConfKept, Answered,
       Kinds, Stages
  <2>2. Fifos'
    <3>1. CASE IsWriteBack(c)
      BY <1>b, <1>1, <1>4, <3>1 DEF Fifos
    <3>2. CASE ~IsWriteBack(c)
      BY <1>b, <1>1, <1>4, <3>2 DEF Fifos
    <3>3. QED
      BY <3>1, <3>2
  <2>3. QED
    BY <2>1, <2>2 DEF ScuInv
<1>7. ASSUME NEW x \in Cache, x # c PROVE CacheInv(x)'
  <2>1. CASE IsWriteBack(c)
    <3>1. ~Awaiting(repl, x) /\ ~Awaiting(repl, x)'
      BY <1>4, <1>5, <1>7, <2>1 DEF Awaiting
    <3>2. AckToSend(x)' <=> AckToSend(x)
      BY <1>1, <3>1 DEF AckToSend, Awaiting
    <3>3. ViewKept(x)
      BY <1>1, <1>4, <1>7, <3>1, <3>2 DEF ViewKept, Answered, Awaiting, Queued
    <3>4. QED
      BY <1>3, <1>7, <3>3, ViewStep
  <2>2. CASE ~IsWriteBack(c)
    <3>1. ViewKept(x)
      BY <1>1, <1>4, <1>7, <2>2 DEF ViewKept, ConfKept, Answered, Awaiting,
         AckToSend, Queued
    <3>2. QED
      BY <1>3, <1>7, <3>1, ViewStep
  <2>3. QED
    BY <2>1, <2>2
<1>8. CacheInv(c)'
  <2>1. ~Served(c) /\ ~Open(c) /\ ~Open(c)' /\ BankInv(c)'
    BY <1>c, <1>1, <1>3 DEF Open, Served, BankInv
  <2>2. MissInv(c)'
    BY <1>c, <1>2, <1>3, <2>1 DEF MissInv
  <2>3. /\ Awaiting(repl, c)' <=> IsWriteBack(c)
        /\ ~Awaiting(mshr, c)' /\ ~Awaiting(mshr, c) /\ ~Awaiting(repl, c)
    BY <1>1, <1>2, <1>4 DEF Awaiting, Awaited, ConfKept
  <2>4. ~wbData[c].vld
    BY <1>c, <1>2 DEF EvictInv
  <2>5. IsWriteBack(c) => snpAck[c].rtype # "FoundM"
    BY <1>c, <1>2 DEF SnoopInv
  <2>6. EvictInv(c)'
    BY <1>2, <1>3, <2>3, <2>4, <2>5 DEF EvictInv, AwaitingAt, Awaited,
       AckToSend
  <2>7. SnoopInv(c)'
    BY <1>c, <1>1, <1>2, <1>3, <1>4 DEF SnoopInv, OutstandingAt, Outstanding,
       Answered, ConfKept
  <2>8. Hot(c)' => repl.snp_need = {c}
    <3>1. Hot(c)' => Hot(c) \/ IsWriteBack(c)
      BY <1>2, <2>3 DEF Hot, Awaited
    <3>2. Hot(c) => repl.snp_need = {c}
      BY <1>c, <1>1 DEF DirInv
    <3>3. QED
      BY <1>5, <3>1, <3>2
  <2>9. DirInv(c)'
    BY <1>1, <1>2, <1>4, <2>8 DEF DirInv, ConfKept
  <2>10. QED
    BY <2>1, <2>2, <2>6, <2>7, <2>9 DEF CacheInv
<1>9. QED
  BY <1>6, <1>7, <1>8

\* No write-back of another cache reaches the entry as it queues its update.
LEMMA NoLateWriteBack ==
  ASSUME TypeOK, OneAgent, LineInOnePlace, ScuInv,
         \A x \in Cache : CacheInv(x), NEW c \in Cache, mshr.cid # c
  PROVE  ~FinalEnqueueWithWriteBack(c)
BY WriteBackMeets DEF FinalEnqueueWithWriteBack, NeedsUpdate, RespFinished,
   TakesEvict, IsWriteBack

-----------------------------------------------------------------------------
\* The inductive invariant.

\* The files and every cache; with Base below it is inductive.
CohInv == ScuInv /\ \A c \in Cache : CacheInv(c)

\* Everything is empty at reset.
LEMMA InitCoherent == Init => CohInv
<1> SUFFICES ASSUME Init PROVE CohInv
  OBVIOUS
<1>1. /\ mshr = NoMshr /\ repl = NoRepl /\ respq = 0 /\ ~dataq /\ ~replResp
      /\ ~llc.valid
  BY DEF Init, ScuInit
<1>2. ScuInv
  BY <1>1 DEF ScuInv, FreeEntries, SnoopLists, Kinds, Stages, Fifos, NoMshr,
     NoRepl, Answered
<1>3. ASSUME NEW c \in Cache PROVE CacheInv(c)
  <2>1. /\ st[c] = "I" /\ drt[c] = {} /\ mreq[c] = NoMiss /\ vic[c] = "none"
        /\ ewrq[c] = NoEwrq
    BY DEF Init, L1Init
  <2>2. /\ req[c] = NoReq /\ evt[c] = "None" /\ snpAck[c] = NoSnpAck
        /\ ack[c] = FALSE /\ wbData[c] = NoWbData /\ snp[c] = NoSnp
        /\ comp[c] = NoComp /\ wbAck[c] = NoWbAck
    BY DEF Init, ChanInit
  <2>3. BankInv(c)
    BY <2>1, <2>2 DEF BankInv
  <2>4. MissInv(c)
    BY <1>1, <2>1, <2>2 DEF MissInv, NoReq, NoMiss, NoComp, Open, Served,
       NoMshr
  <2>5. EvictInv(c)
    BY <1>1, <2>1, <2>2 DEF EvictInv, NoEwrq, NoWbAck, NoWbData, Awaited,
       Awaiting, AckToSend, NoMshr, NoRepl
  <2>6. SnoopInv(c)
    BY <1>1, <2>2 DEF SnoopInv, NoSnp, NoSnpAck, Answered, NoMshr, NoRepl
  <2>7. DirInv(c)
    BY <1>1, <2>1, <2>2 DEF DirInv, Present, Hot, Owns, Awaited, Awaiting,
       NoMshr, NoRepl, NoEwrq, NoSnpAck
  <2>8. QED
    BY <2>3, <2>4, <2>5, <2>6, <2>7 DEF CacheInv
<1>4. QED
  BY <1>2, <1>3 DEF CohInv

\* Every step of the SCU.
LEMMA ScuCoherent ==
  ASSUME Overtake = FALSE, TypeOK, RequestorKnown, LineInOnePlace, OneAgent,
         WritesOwned, CohInv, ScuNext, UNCHANGED l1Vars
  PROVE  CohInv'
<1> USE DEF CohInv
<1>1. ASSUME NEW c \in Cache, AcceptReq(c) PROVE CohInv'
  BY <1>1, AcceptReqStep
<1>2. ASSUME NEW c \in Cache, EvictToMshr(c) PROVE CohInv'
  <2>1. mshr.cid # c
    BY <1>2 DEF EvictToMshr
  <2>2. QED
    BY <1>2, <2>1, EvictToMshrStep
<1>3. ASSUME NEW c \in Cache, EvictToRepl(c) PROVE CohInv'
  BY <1>3, EvictToReplStep
<1>4. ASSUME NEW c \in Cache, EvictNew(c) PROVE CohInv'
  BY <1>4, EvictNewStep
<1>5. ASSUME NEW c \in Cache, SendSnp(c) \/ ReplSendSnp(c) PROVE CohInv'
  BY <1>5, SendSnpStep
<1>6. ASSUME NEW c \in Cache, RecvSnpAck(c) PROVE CohInv'
  BY <1>6, RecvSnpAckStep
<1>7. ASSUME NEW c \in Cache, RecvWbData(c) PROVE CohInv'
  BY <1>7, RecvWbDataStep
<1>8. ASSUME NEW c \in Cache, RecvAck(c) PROVE CohInv'
  BY <1>8, RecvAckStep
<1>9. ASSUME NEW c \in Cache, FinalEnqueueWithWriteBack(c) PROVE CohInv'
  <2>1. mshr.cid # c
    BY <1>9 DEF FinalEnqueueWithWriteBack
  <2>2. QED
    BY <1>9, <2>1, NoLateWriteBack
<1>10. CASE MemRead \/ LlcRead \/ FinalEnqueue \/ DataWrite
            \/ ReplLlcRead \/ ReplMemEnqueue \/ ReplMemWrite
  BY <1>10, DataStep
<1>11. CASE EnqueueResp
  BY <1>11, EnqueueRespStep
<1>12. CASE SendResp \/ ReplSendResp
  BY <1>12, SendRespStep
<1>13. CASE SendData
  BY <1>13, SendDataStep
<1>14. CASE TagWrite
  BY <1>14, TagWriteStep
<1>15. CASE Dealloc \/ ReplDealloc
  BY <1>15, DeallocStep
<1>16. CASE ReplStart
  BY <1>16, ReplStartStep
<1>17. QED
  BY <1>1, <1>2, <1>3, <1>4, <1>5, <1>6, <1>7, <1>8, <1>9, <1>10, <1>11,
     <1>12, <1>13, <1>14, <1>15, <1>16 DEF ScuNext

\* Every step of the system.
LEMMA CoherentStep ==
  ASSUME Overtake = FALSE, TypeOK, RequestorKnown, LineInOnePlace, OneAgent,
         WritesOwned, CohInv, NoStaleVictim, [Next]_vars
  PROVE  CohInv'
<1>1. CASE L1Next /\ UNCHANGED scuVars
  <2>1. \A x \in Cache : CacheInv(x)'
    BY <1>1, L1Step1 DEF CohInv
  <2>2. ScuInv'
    BY <1>1 DEF CohInv, ScuInv, scuVars, FreeEntries, SnoopLists, Kinds,
       Stages, Fifos, Answered, Asks, Leaves, AllAnswered
  <2>3. QED
    BY <2>1, <2>2 DEF CohInv
<1>2. CASE ScuNext /\ UNCHANGED l1Vars
  BY <1>2, ScuCoherent
<1>3. CASE UNCHANGED vars
  <2>1. UNCHANGED scuVars /\ \A x \in Cache : SameAt(x)
    BY <1>3 DEF vars, l1Vars, chanVars, SameAt
  <2>2. \A x \in Cache : CacheInv(x)'
    BY <2>1, FrameStep DEF CohInv
  <2>3. ScuInv'
    BY <2>1 DEF CohInv, ScuInv, scuVars, FreeEntries, SnoopLists, Kinds,
       Stages, Fifos, Answered, Asks, Leaves, AllAnswered
  <2>4. QED
    BY <2>2, <2>3 DEF CohInv
<1>4. QED
  BY <1>1, <1>2, <1>3 DEF Next

-----------------------------------------------------------------------------
\* What the invariant says of the properties of CoherentCache.

\* A cache whose miss the SCU serves has no right to write the line before
\* it has used the answer.
LEMMA UnansweredReads ==
  ASSUME TypeOK, LineInOnePlace, CohInv, NEW c \in Cache, mshr.valid,
         mshr.cid = c, Asks(mshr), ~Consumed(c)
  PROVE  st[c] \in {"I", "S"}
<1>1. MissInv(c) /\ Stages
  BY DEF CohInv, CacheInv, ScuInv
<1>2. "ack" \in mshr.wait /\ ~ack[c]
  BY <1>1 DEF Stages, Consumed, MissInv
<1>3. Open(c)
  BY <1>2 DEF Open, Served
<1>4. mreq[c].phase = "sent"
  BY <1>1, <1>2, <1>3 DEF MissInv, Consumed
<1>5. QED
  BY <1>4 DEF LineInOnePlace

\* Single writer or many readers follows: whichever entry of the directory
\* counts, the cache that may write is alone in it.
LEMMA CoherentSWMR ==
  ASSUME TypeOK, RequestorKnown, LineInOnePlace, OneAgent, CohInv
  PROVE  SWMR
<1> SUFFICES ASSUME NEW c \in Cache, NEW d \in Cache, c # d,
                    st[c] \in {"E", "M"}, st[d] # "I"
             PROVE  FALSE
  BY DEF SWMR
<1>a. ScuInv /\ DirInv(c) /\ DirInv(d) /\ SnoopInv(c) /\ SnoopInv(d)
  BY DEF CohInv, CacheInv
<1>b. Kinds /\ Stages
  BY <1>a DEF ScuInv
<1>1. Present(c) /\ Present(d) /\ Owns(c) /\ Hot(c)
  BY DEF Present, Owns, Hot
<1>2. CASE mshr.valid /\ "dir" \in mshr.upd
  <2>1. Asks(mshr) \/ Leaves(mshr)
    BY <1>b, <1>2 DEF Kinds
  <2>2. CASE c # mshr.cid
    <3>1. mshr.owner /\ mshr.sharers = {c}
      BY <1>a, <1>1, <1>2, <2>2 DEF DirInv
    <3>2. d = mshr.cid /\ Asks(mshr) /\ Consumed(d)
      BY <1>a, <1>1, <1>2, <2>1, <3>1 DEF DirInv
    <3>3. AllAnswered(mshr) /\ c \in mshr.snp_need
      BY <1>b, <1>2, <2>2, <3>1, <3>2 DEF Stages, Kinds, Consumed, Asks
    <3>4. c \in Answered(mshr)
      BY <3>3 DEF AllAnswered, Answered
    <3>5. QED
      BY <1>a, <1>1, <3>4 DEF SnoopInv
  <2>3. CASE c = mshr.cid
    <3>1. d # mshr.cid /\ d \in mshr.sharers /\ Asks(mshr)
      BY <1>a, <1>1, <1>2, <2>1, <2>3 DEF DirInv
    <3>2. Consumed(c)
      BY <1>2, <2>3, <3>1, UnansweredReads
    <3>3. mshr.rtype \in {"ReadUnique", "CleanUnique"}
      BY <1>a, <1>1, <1>2, <2>3, <3>1, <3>2 DEF DirInv, Asks
    <3>4. AllAnswered(mshr) /\ d \in mshr.snp_need /\ mshr.inv_snp
      BY <1>b, <1>2, <3>1, <3>2, <3>3 DEF Stages, Kinds, Consumed
    <3>5. d \in Answered(mshr)
      BY <3>4 DEF AllAnswered, Answered
    <3>6. QED
      BY <1>a, <1>1, <3>4, <3>5 DEF SnoopInv
  <2>4. QED
    BY <2>2, <2>3
<1>3. CASE ~(mshr.valid /\ "dir" \in mshr.upd)
  BY <1>a, <1>1, <1>3 DEF DirInv
<1>4. QED
  BY <1>2, <1>3

\* The directory is right when no entry is active (DirectoryCovers).
LEMMA CoherentDirectory ==
  ASSUME CohInv PROVE DirectoryCovers
<1> SUFFICES ASSUME Quiet, NEW c \in Cache
             PROVE  /\ st[c] # "I" \/ Leaving(c)
                          => llc.valid /\ c \in llc.sharers
                    /\ st[c] \in {"E", "M"} => llc.owner /\ llc.sharers = {c}
  BY DEF DirectoryCovers
<1>1. DirInv(c) /\ ~mshr.valid /\ ~repl.valid
  BY DEF CohInv, CacheInv, Quiet
<1>2. QED
  BY <1>1 DEF DirInv, Present, Leaving, Hot, Owns

\* Answers find the entry and the miss that wait for them, the response FIFO
\* has room, an eviction finds its cache in the directory (ArrivalsExpected).
LEMMA CoherentArrivals ==
  ASSUME CohInv PROVE ArrivalsExpected
<1>1. AnswersFindEntry
  BY DEF CohInv, CacheInv, SnoopInv, EvictInv, MissInv, OutstandingAt,
         AwaitingAt, Served, AnswersFindEntry
<1>2. CompFindsMiss
  BY DEF CohInv, CacheInv, MissInv, CompFindsMiss
<1>3. RespFifoFits
  BY DEF CohInv, ScuInv, FreeEntries, Fifos, RespFifoFits
<1>4. EvictExpected
  <2> SUFFICES ASSUME Quiet, NEW c \in Cache, evt[c] # "None"
               PROVE  /\ DirHit /\ c \in llc.sharers
                      /\ evt[c] = "WriteBackPartial" => ~LlcHit
    BY DEF EvictExpected
  <2>1. DirInv(c) /\ EvictInv(c) /\ ~mshr.valid /\ ~repl.valid
    BY DEF CohInv, CacheInv, Quiet
  <2>2. Present(c) /\ (evt[c] = "WriteBackPartial" => Hot(c))
    BY <2>1 DEF Present, Hot, Owns, EvictInv
  <2>3. llc.valid /\ c \in llc.sharers
    BY <2>1, <2>2 DEF DirInv
  <2>4. Hot(c) => llc.owner /\ llc.sharers = {c}
    BY <2>1 DEF DirInv
  <2>5. QED
    BY <2>2, <2>3, <2>4 DEF DirHit, LlcHit
<1>5. QED
  BY <1>1, <1>2, <1>3, <1>4 DEF ArrivalsExpected

\* The data RAM is written with whole lines only (RamWriteComplete).
LEMMA CoherentRamWrite ==
  ASSUME CohInv, WritesOwned PROVE RamWriteComplete
BY DEF CohInv, ScuInv, Kinds, Stages, WritesOwned, RamWriteComplete

\* A step sends a message only where the last of its kind has been taken; the
\* assumption of one register per channel rests on that (NoOverrun).
LEMMA CoherentSends ==
  ASSUME TypeOK, RequestorKnown, OneAgent, CohInv, [Next]_vars, NEW c \in Cache
  PROVE  /\ KeptOrTaken(req[c], req'[c], NoReq)
         /\ KeptOrTaken(evt[c], evt'[c], "None")
         /\ KeptOrTaken(snpAck[c], snpAck'[c], NoSnpAck)
         /\ KeptOrTaken(wbData[c], wbData'[c], NoWbData)
         /\ KeptOrTaken(snp[c], snp'[c], NoSnp)
         /\ KeptOrTaken(comp[c], comp'[c], NoComp)
<1>a. ChanTypeOK
  BY DEF TypeOK
<1>b. BankInv(c) /\ MissInv(c) /\ EvictInv(c) /\ SnoopInv(c)
  BY DEF CohInv, CacheInv
<1>c. FreeEntries /\ SnoopLists /\ Fifos
  BY DEF CohInv, ScuInv
<1> USE DEF KeptOrTaken
<1>1. ASSUME NEW x \in Cache,
             \/ \E mask \in StoreMask, v \in Val : StoreHit(x, mask, v)
             \/ \E mask \in StoreMask, v \in Val : StoreMiss(x, mask, v)
             \/ LoadMiss(x) \/ VictimPeek(x) \/ VictimEvict(x)
      PROVE  UNCHANGED chanVars
  BY <1>1 DEF StoreHit, StoreMiss, LoadMiss, VictimPeek, VictimEvict
<1>2. ASSUME NEW x \in Cache, SendReq(x)
      PROVE  /\ KeptOrTaken(req[c], req'[c], NoReq)
             /\ UNCHANGED <<evt, snpAck, wbData, snp, comp>>
  BY <1>a, <1>b, <1>2 DEF SendReq, ChanTypeOK, MissInv, BankInv
<1>3. ASSUME NEW x \in Cache, EwrqSend(x)
      PROVE  /\ KeptOrTaken(evt[c], evt'[c], "None")
             /\ UNCHANGED <<req, snpAck, wbData, snp, comp>>
  BY <1>a, <1>b, <1>3 DEF EwrqSend, ChanTypeOK, EvictInv
<1>4. ASSUME NEW x \in Cache, EwrqData(x)
      PROVE  /\ KeptOrTaken(wbData[c], wbData'[c], NoWbData)
             /\ UNCHANGED <<req, evt, snpAck, snp, comp>>
  BY <1>a, <1>b, <1>4 DEF EwrqData, ChanTypeOK, EvictInv, BankInv
<1>5. ASSUME NEW x \in Cache, Snoop(x)
      PROVE  /\ KeptOrTaken(snpAck[c], snpAck'[c], NoSnpAck)
             /\ KeptOrTaken(snp[c], snp'[c], NoSnp)
             /\ UNCHANGED <<req, evt, wbData, comp>>
  BY <1>a, <1>b, <1>5 DEF Snoop, ChanTypeOK, SnoopInv, BankInv
<1>6. ASSUME NEW x \in Cache, Refill(x) \/ FinishAck(x) \/ EwrqAck(x)
      PROVE  /\ KeptOrTaken(comp[c], comp'[c], NoComp)
             /\ UNCHANGED <<req, evt, snpAck, wbData, snp>>
  BY <1>a, <1>6 DEF Refill, FinishAck, EwrqAck, ChanTypeOK
<1>7. ASSUME NEW x \in Cache, AcceptReq(x)
      PROVE  /\ KeptOrTaken(req[c], req'[c], NoReq)
             /\ UNCHANGED <<evt, snpAck, wbData, snp, comp>>
  BY <1>a, <1>7 DEF AcceptReq, ChanTypeOK
<1>8. ASSUME NEW x \in Cache, EvictTaken(x)
      PROVE  /\ KeptOrTaken(evt[c], evt'[c], "None")
             /\ UNCHANGED <<req, snpAck, wbData, snp, comp>>
  BY <1>a, <1>8 DEF EvictTaken, ChanTypeOK
<1>9. ASSUME NEW x \in Cache, SendSnp(x)
      PROVE  /\ KeptOrTaken(snp[c], snp'[c], NoSnp)
             /\ UNCHANGED <<req, evt, snpAck, wbData, comp>>
  <2>1. /\ x \in mshr.snp_need \ mshr.snp_sent
        /\ UNCHANGED <<req, evt, snpAck, wbData, comp>>
        /\ c # x => snp'[c] = snp[c]
    BY <1>a, <1>9 DEF SendSnp, SnpToSend, ChanTypeOK
  <2>2. mshr.valid /\ ~repl.valid
    BY <2>1, ValidEntry DEF CohInv, OneAgent
  <2>3. c = x => snp[c] = NoSnp
    BY <1>b, <2>1, <2>2 DEF SnoopInv, BankInv, OutstandingAt, Outstanding
  <2>4. QED
    BY <2>1, <2>3
<1>10. ASSUME NEW x \in Cache, ReplSendSnp(x)
      PROVE  /\ KeptOrTaken(snp[c], snp'[c], NoSnp)
             /\ UNCHANGED <<req, evt, snpAck, wbData, comp>>
  <2>1. /\ x \in repl.snp_need \ repl.snp_sent
        /\ UNCHANGED <<req, evt, snpAck, wbData, comp>>
        /\ c # x => snp'[c] = snp[c]
    BY <1>a, <1>10 DEF ReplSendSnp, SnpToSend, ChanTypeOK
  <2>2. repl.valid /\ ~mshr.valid
    BY <2>1, ValidEntry DEF CohInv, OneAgent
  <2>3. c = x => snp[c] = NoSnp
    BY <1>b, <2>1, <2>2 DEF SnoopInv, BankInv, OutstandingAt, Outstanding
  <2>4. QED
    BY <2>1, <2>3
<1>11. ASSUME NEW x \in Cache, RecvSnpAck(x) \/ RecvWbData(x) \/ RecvAck(x)
      PROVE  /\ KeptOrTaken(snpAck[c], snpAck'[c], NoSnpAck)
             /\ KeptOrTaken(wbData[c], wbData'[c], NoWbData)
             /\ UNCHANGED <<req, evt, snp, comp>>
  BY <1>a, <1>11 DEF RecvSnpAck, RecvWbData, RecvAck, ChanTypeOK
<1>12. ASSUME SendResp \/ SendData
      PROVE  /\ KeptOrTaken(comp[c], comp'[c], NoComp)
             /\ UNCHANGED <<req, evt, snpAck, wbData, snp>>
  <2>1. /\ UNCHANGED <<req, evt, snpAck, wbData, snp>>
        /\ c # mshr.cid => comp'[c] = comp[c]
        /\ comp' = comp \/ dataq \/ (respq = 1 /\ "wb" \notin mshr.wait)
    BY <1>a, <1>12, <1>c DEF SendResp, SendData, ChanTypeOK, RespValid, Fifos
  <2>2. comp' = comp \/ Queued
    BY <1>c, <2>1 DEF Fifos, Queued
  <2>3. Queued => comp[c] = NoComp
    BY <1>b DEF MissInv, BankInv
  <2>4. QED
    BY <2>1, <2>2, <2>3
<1>13. ASSUME \/ MemRead \/ LlcRead \/ EnqueueResp \/ FinalEnqueue \/ TagWrite
              \/ DataWrite \/ Dealloc \/ ReplStart \/ ReplLlcRead
              \/ ReplMemEnqueue \/ ReplMemWrite \/ ReplDealloc
       PROVE  UNCHANGED chanVars
  BY <1>13 DEF MemRead, LlcRead, EnqueueResp, FinalEnqueue, TagWrite,
     DataWrite, Dealloc, ReplStart, ReplLlcRead, ReplMemEnqueue, ReplMemWrite,
     ReplDealloc
<1>14. ASSUME ReplSendResp
       PROVE  UNCHANGED <<req, evt, snpAck, wbData, snp, comp>>
  BY <1>14 DEF ReplSendResp
<1>15. CASE L1Next
  BY <1>1, <1>2, <1>3, <1>4, <1>5, <1>6, <1>15 DEF L1Next, chanVars
<1>16. CASE ScuNext
  BY <1>7, <1>8, <1>9, <1>10, <1>11, <1>12, <1>13, <1>14, <1>16
     DEF ScuNext, chanVars, EvictToMshr, EvictToRepl, EvictNew,
         FinalEnqueueWithWriteBack
<1>17. CASE UNCHANGED vars
  BY <1>17 DEF vars, chanVars
<1>18. QED
  BY <1>15, <1>16, <1>17 DEF Next

-----------------------------------------------------------------------------
\* A workload without stale victims.

\* If a cache both stores the line and evicts it, no other cache loads it: then
\* no SnpShared meets a dirty victim.  A workload in which nobody does both, or
\* nobody loads, is not restricted.
NoForeignLoads == \A c \in Storers \cap Evictors, d \in Loaders : d = c

\* Who does what: the rights that caches and messages carry stem from the
\* workload.
Roles ==
    /\ \A c \in Cache :
          /\ st[c] = "M" => c \in Storers
          /\ vic[c] # "none" => c \in Evictors
          /\ mreq[c].phase # "idle" =>
                IF mreq[c].store THEN c \in Storers ELSE c \in Loaders
    /\ mshr.valid /\ mshr.rtype = "ReadShared" => mshr.cid \in Loaders

\* Every step keeps the roles, and under them no victim becomes stale.
LEMMA RolesStep ==
  ASSUME NoForeignLoads, TypeOK, LineInOnePlace, OneAgent, CohInv, Roles,
         NoStaleVictim, [Next]_vars
  PROVE  Roles' /\ NoStaleVictim'
<1>a. ScuInv /\ \A c \in Cache : CacheInv(c)
  BY DEF CohInv
<1>b. L1TypeOK /\ ScuTypeOK /\ ChanTypeOK
  BY DEF TypeOK
<1> DEFINE RolesAt(c) ==
      /\ st[c] = "M" => c \in Storers
      /\ vic[c] # "none" => c \in Evictors
      /\ mreq[c].phase # "idle" =>
            IF mreq[c].store THEN c \in Storers ELSE c \in Loaders
      /\ vic[c] = "dirty" => st[c] \in {"M", "I"}
<1>c. \A c \in Cache : RolesAt(c)
  BY DEF Roles, NoStaleVictim
<1>1. CASE L1Next /\ UNCHANGED scuVars
  <2>1. PICK c \in Cache :
         \/ \E mask \in StoreMask, v \in Val : StoreHit(c, mask, v)
         \/ \E mask \in StoreMask, v \in Val : StoreMiss(c, mask, v)
         \/ LoadMiss(c) \/ SendReq(c) \/ Refill(c) \/ FinishAck(c)
         \/ VictimPeek(c) \/ VictimEvict(c) \/ EwrqSend(c) \/ EwrqAck(c)
         \/ EwrqData(c) \/ Snoop(c)
    BY <1>1 DEF L1Next
  <2>2. \A x \in Cache : x # c => RolesAt(x)'
    BY <1>c, <2>1, BankLocal DEF SameAt
  <2>3. RolesAt(c)'
    <3>a. RolesAt(c) /\ mreq[c] \in Miss
      BY <1>b, <1>c DEF L1TypeOK
    <3>1. CASE \E mask \in StoreMask, v \in Val :
                  StoreHit(c, mask, v) \/ StoreMiss(c, mask, v)
      BY <3>1, <3>a, <1>b DEF StoreHit, StoreMiss, CoreReady, L1TypeOK
    <3>2. CASE LoadMiss(c) \/ SendReq(c) \/ FinishAck(c)
      BY <3>2, <3>a, <1>b DEF LoadMiss, SendReq, FinishAck, L1TypeOK, NoMiss,
                              Miss
    <3>3. CASE Refill(c)
      <4>1. /\ mreq[c].phase = "sent" /\ vic[c] = "none"
            /\ comp[c].rtype # "None" /\ vic' = vic
            /\ st'[c] = RefillState(mreq[c], comp[c])
            /\ mreq'[c].phase = "refilled" /\ mreq'[c].store = mreq[c].store
        BY <3>3, <3>a, <1>b DEF Refill, L1TypeOK, Miss, LineInOnePlace
      <4>2. MissInv(c)
        BY <1>a DEF CacheInv
      <4>3. ~mreq[c].store => comp[c].rtype \in {"CompData_SC", "CompData_UC"}
        BY <4>1, <4>2 DEF MissInv
      <4>4. st'[c] = "M" => mreq[c].store
        BY <4>1, <4>3 DEF RefillState
      <4>5. QED
        BY <3>a, <4>1, <4>4
    <3>4. CASE VictimPeek(c) \/ VictimEvict(c)
      BY <3>4, <3>a, <1>b DEF VictimPeek, VictimEvict, L1TypeOK
    <3>5. CASE EwrqSend(c) \/ EwrqAck(c) \/ EwrqData(c)
      BY <3>5, <3>a DEF EwrqSend, EwrqAck, EwrqData
    <3>6. CASE Snoop(c)
      <4>1. /\ UNCHANGED <<mreq, vic>> /\ snp[c].rtype # "None"
            /\ st'[c] = SnoopedState(st[c], snp[c].rtype)
        BY <3>6, <1>b DEF Snoop, L1TypeOK
      <4>2. st'[c] \in {"I", "S"}
            /\ (st'[c] = "S" => snp[c].rtype = "SnpShared" /\ st[c] # "I")
        BY <4>1 DEF SnoopedState
      <4>3. ASSUME vic[c] = "dirty", st'[c] = "S" PROVE FALSE
        <5>1. c \in Storers \cap Evictors
          BY <3>a, <4>2, <4>3
        <5>2. /\ OutstandingAt(snp[c].tid, c)
              /\ snp[c].tid # "repl" /\ ~mshr.inv_snp
          BY <1>a, <4>1, <4>2, <4>3 DEF CacheInv, SnoopInv
        <5>3. snp[c] \in SnpMsg
          BY <1>b DEF ChanTypeOK
        <5>4. Outstanding(mshr, c)
          BY <5>2, <5>3 DEF SnpMsg, ScuTid, OutstandingAt
        <5>5. mshr.valid /\ c \in mshr.snp_need /\ c # mshr.cid
          BY <1>a, <5>4 DEF ScuInv, SnoopLists, Outstanding
        <5>6. mshr.rtype = "ReadShared"
          BY <1>a, <5>2, <5>5 DEF ScuInv, Kinds, Asks
        <5>7. QED
          BY <5>1, <5>5, <5>6 DEF Roles, NoForeignLoads
      <4>4. QED
        BY <3>a, <4>1, <4>2, <4>3
    <3>7. QED
      BY <2>1, <3>1, <3>2, <3>3, <3>4, <3>5, <3>6
  <2>4. \A x \in Cache : RolesAt(x)'
    BY <2>2, <2>3
  <2>5. UNCHANGED mshr
    BY <1>1 DEF scuVars
  <2>6. QED
    BY <2>4, <2>5 DEF Roles, NoStaleVictim
<1>2. CASE ScuNext /\ UNCHANGED l1Vars
  <2>1. UNCHANGED <<st, vic, mreq>>
    BY <1>2 DEF l1Vars
  <2> DEFINE Role == mshr.valid /\ mshr.rtype = "ReadShared"
                        => mshr.cid \in Loaders
  <2>a. mshr \in Mshr /\ Role
    BY <1>b DEF ScuTypeOK, Roles
  <2>2. ASSUME NEW c \in Cache, AcceptReq(c) PROVE Role'
    <3>1. /\ req[c].rtype # "None"
          /\ mshr' = NewMshr(BlankMshr(req[c].rtype, c, req[c].full))
      BY <2>2 DEF AcceptReq, Allocate
    <3>2. req[c].full \in SUBSET Burst /\ req[c].rtype \in ReqType
      BY <1>b DEF ChanTypeOK, ReqMsg
    <3>3. FreshAsks(mshr', c, req[c].rtype)
      BY <1>b, <3>1, <3>2, RequestMshr DEF ReqType
    <3>4. mreq[c].phase = "sent" /\ req[c] = ReqOf(mreq[c])
      BY <1>a, <3>1 DEF CacheInv, MissInv
    <3>5. req[c].rtype = "ReadShared" => c \in Loaders
      BY <3>4 DEF ReqOf, Roles
    <3>6. QED
      BY <3>3, <3>5 DEF FreshAsks, Fresh
  <2>3. ASSUME NEW c \in Cache, EvictNew(c) PROVE Role'
    <3>1. /\ SetFree /\ evt[c] # "None"
          /\ mshr' = NewMshr(BlankMshr(evt[c], c, {}))
      BY <2>3 DEF EvictNew, Allocate, EvictTaken
    <3>2. evt[c] \in {"Evict", "WriteBackPartial"}
      BY <1>b, <3>1 DEF ChanTypeOK, EvictType
    <3>3. Present(c) /\ (evt[c] = "WriteBackPartial" => Owns(c))
      BY <1>a, <3>1 DEF Present, Owns, CacheInv, EvictInv
    <3>4. llc.valid /\ c \in llc.sharers
          /\ (evt[c] = "WriteBackPartial" => llc.owner)
      BY <1>a, <3>1, <3>3, QuietLine
    <3>5. mshr'.rtype = evt[c]
      BY <1>b, <3>1, <3>2, <3>4, EvictionMshr
    <3>6. QED
      BY <3>2, <3>5
  <2> DEFINE Kept == mshr'.valid => /\ mshr.valid /\ mshr'.rtype = mshr.rtype
                                    /\ mshr'.cid = mshr.cid
  <2>4. Kept => Role'
    BY <2>a
  <2>5. ASSUME NEW c \in Cache,
               \/ EvictToMshr(c) \/ EvictToRepl(c) \/ SendSnp(c)
               \/ RecvSnpAck(c) \/ RecvWbData(c) \/ RecvAck(c)
               \/ FinalEnqueueWithWriteBack(c) \/ ReplSendSnp(c)
        PROVE  Kept
    <3>1. /\ GotEvict(mshr, c).valid = mshr.valid
          /\ GotEvict(mshr, c).rtype = mshr.rtype
          /\ GotEvict(mshr, c).cid = mshr.cid /\ GotEvict(mshr, c) \in Mshr
      BY <2>a DEF GotEvict, Mshr
    <3>2. CASE EvictToMshr(c) \/ EvictToRepl(c)
      BY <3>1, <3>2 DEF EvictToMshr, EvictToRepl
    <3>3. CASE FinalEnqueueWithWriteBack(c)
      <4>1. mshr' = [GotEvict(mshr, c) EXCEPT !.upd_enq = TRUE]
        BY <3>3 DEF FinalEnqueueWithWriteBack
      <4>2. QED
        BY <3>1, <4>1 DEF Mshr
    <3>4. CASE SendSnp(c) \/ RecvAck(c) \/ ReplSendSnp(c)
      BY <2>a, <3>4 DEF SendSnp, RecvAck, ReplSendSnp, Mshr
    <3>5. CASE RecvSnpAck(c)
      <4> DEFINE a == snpAck[c]
                 g == GotSnpAck(mshr, c, a)
      <4>1. /\ g.valid = mshr.valid /\ g.rtype = mshr.rtype
            /\ g.cid = mshr.cid
        BY <2>a DEF GotSnpAck, GotData, Mshr
      <4>2. /\ WithDataUpdate(g).valid = g.valid
            /\ WithDataUpdate(g).rtype = g.rtype
            /\ WithDataUpdate(g).cid = g.cid
        BY DEF WithDataUpdate
      <4>3. mshr' \in {mshr, g, WithDataUpdate(g)}
        BY <3>5 DEF RecvSnpAck
      <4>4. QED
        BY <4>1, <4>2, <4>3
    <3>6. CASE RecvWbData(c)
      BY <2>a, <3>6 DEF RecvWbData, WithDataUpdate, GotData, Mshr
    <3>7. QED
      BY <2>5, <3>2, <3>3, <3>4, <3>5, <3>6
  <2>6. ASSUME \/ MemRead \/ LlcRead \/ EnqueueResp \/ FinalEnqueue
               \/ TagWrite \/ DataWrite
        PROVE  Role'
    <3>1. CASE MemRead \/ LlcRead
      BY <2>a, <2>4, <3>1 DEF MemRead, LlcRead, GotLlcData, Mshr
    <3>2. CASE EnqueueResp \/ FinalEnqueue
      BY <2>a, <2>4, <3>2 DEF EnqueueResp, FinalEnqueue, Mshr
    <3>3. CASE TagWrite \/ DataWrite
      BY <2>a, <2>4, <3>3 DEF TagWrite, DataWrite, Mshr
    <3>4. QED
      BY <2>6, <3>1, <3>2, <3>3
  <2>7. ASSUME \/ Dealloc \/ SendResp \/ SendData \/ ReplStart
               \/ ReplLlcRead \/ ReplSendResp \/ ReplMemEnqueue
               \/ ReplMemWrite \/ ReplDealloc
        PROVE  Role'
    <3>1. mshr' = mshr \/ mshr' = NoMshr
      BY <2>7 DEF Dealloc, SendResp, SendData, ReplStart, ReplLlcRead,
         ReplSendResp, ReplMemEnqueue, ReplMemWrite, ReplDealloc
    <3>2. QED
      BY <2>4, <3>1 DEF NoMshr
  <2> HIDE DEF Role, Kept
  <2>8. Role'
    BY <1>2, <2>2, <2>3, <2>4, <2>5, <2>6, <2>7 DEF ScuNext
  <2> USE DEF Role
  <2>9. QED
    BY <2>1, <2>8 DEF Roles, NoStaleVictim
<1>3. CASE UNCHANGED vars
  BY <1>3 DEF vars, l1Vars, scuVars, Roles, NoStaleVictim
<1>4. QED
  BY <1>1, <1>2, <1>3 DEF Next

-----------------------------------------------------------------------------
\* Coherence: the theorems.

\* The facts about single components that the invariant builds on ...
Base == TypeOK /\ RequestorKnown /\ LineInOnePlace /\ OneAgent /\ WritesOwned

\* ... hold in every execution, with or without stale victims.
LEMMA BaseInvariant == Spec => []Base
BY Requestors, OnePlace, EntryInvariant, PTL DEF Base

\* The invariant of the control holds in every execution in which the update of
\* an MSHR does not overtake a write-back and no victim is stale.
LEMMA CoherentInvariant ==
  ASSUME Overtake = FALSE
  PROVE  Spec /\ []NoStaleVictim => []CohInv
<1>1. Base /\ CohInv /\ NoStaleVictim /\ [Next]_vars => CohInv'
  BY CoherentStep DEF Base
<1>2. QED
  BY InitCoherent, <1>1, BaseInvariant, PTL DEF Spec

\* One writer or many readers: for any number of caches, any workload, any
\* order of messages and any race of an eviction or a replacement with a snoop,
\* the MESI states that two banks hold of one line are compatible.
THEOREM SingleWriter ==
  ASSUME Overtake = FALSE
  PROVE  Spec /\ []NoStaleVictim => []SWMR
<1>1. Base /\ CohInv => SWMR
  BY CoherentSWMR DEF Base
<1>2. QED
  BY <1>1, CoherentInvariant, BaseInvariant, PTL

\* Every answer, acknowledgement and piece of data that arrives at an MSHR file
\* finds the entry that waits for it, every Comp finds its miss, the response
\* FIFO has room, and the directory lists the cache an eviction comes from
\* (asserted at rvh_scu.sv 972-976).
THEOREM ArrivalsMeet ==
  ASSUME Overtake = FALSE
  PROVE  Spec /\ []NoStaleVictim => []ArrivalsExpected
<1>1. Base /\ CohInv => ArrivalsExpected
  BY CoherentArrivals DEF Base
<1>2. QED
  BY <1>1, CoherentInvariant, BaseInvariant, PTL

\* The final-write stage of an MSHR writes the data RAM only when every burst
\* of the line is valid (the comment at rvh_scu_mshr.sv 302).
THEOREM RamWritesWhole ==
  ASSUME Overtake = FALSE
  PROVE  Spec /\ []NoStaleVictim => []RamWriteComplete
<1>1. Base /\ CohInv => RamWriteComplete
  BY CoherentRamWrite DEF Base
<1>2. QED
  BY <1>1, CoherentInvariant, BaseInvariant, PTL

\* No message is sent over one of its kind that has not been taken, so one cell
\* for each channel and cache loses nothing.
THEOREM SentOnce ==
  ASSUME Overtake = FALSE
  PROVE  Spec /\ []NoStaleVictim => NoOverrun
<1>1. Base /\ CohInv /\ [Next]_vars =>
        [\A c \in Cache :
         /\ KeptOrTaken(req[c], req'[c], NoReq)
         /\ KeptOrTaken(evt[c], evt'[c], "None")
         /\ KeptOrTaken(snpAck[c], snpAck'[c], NoSnpAck)
         /\ KeptOrTaken(wbData[c], wbData'[c], NoWbData)
         /\ KeptOrTaken(snp[c], snp'[c], NoSnp)
         /\ KeptOrTaken(comp[c], comp'[c], NoComp)]_vars
  BY CoherentSends DEF Base
<1>2. QED
  BY <1>1, CoherentInvariant, BaseInvariant, PTL DEF Spec, NoOverrun

\* The hypothesis of these theorems is a fact for every workload in which the
\* lines a cache writes and gives up are not loaded by another: what was found
\* at the peek at a victim is still true when the victim leaves.
THEOREM VictimsCurrent ==
  ASSUME Overtake = FALSE, NoForeignLoads
  PROVE  Spec => []NoStaleVictim
<1>1. Init => Roles /\ NoStaleVictim
  BY DEF Init, L1Init, ScuInit, Roles, NoStaleVictim, NoMiss, NoMshr
<1>2. Base /\ CohInv /\ Roles /\ NoStaleVictim /\ [Next]_vars
        => CohInv' /\ Roles' /\ NoStaleVictim'
  BY CoherentStep, RolesStep DEF Base
<1>3. QED
  BY InitCoherent, <1>1, <1>2, BaseInvariant, PTL DEF Spec

-----------------------------------------------------------------------------
\* Where the value of the line is.

\* a and b agree on the bytes of burst p.
Same(a, b, p) == \A x \in p : a[x] = b[x]

\* What the SCU would supply of burst p.
LowOf(p) ==
    IF p \in mshr.data_valid THEN mshr.data
    ELSE IF p \in repl.data_valid THEN repl.data
    ELSE IF llc.valid \/ repl.valid THEN llc.data ELSE mem

\* The bursts that cache c, or a message of it, holds newer than the SCU.
Carries(c, p) ==
    \/ st[c] = "M" /\ p \in drt[c]
    \/ ewrq[c].wb /\ p \in ewrq[c].dirty
    \/ snpAck[c].rtype = "FoundM" /\ p \in snpAck[c].dirty
    \/ wbData[c].vld /\ p \in wbData[c].dirty

-----------------------------------------------------------------------------
\* The inductive invariant of the data.

\* A burst that no cache or message holds newer is right in the SCU.
Covered ==
    \A p \in Burst :
      (\A c \in Cache : ~Carries(c, p)) => Same(LowOf(p), latest, p)

\* Answers of type r carry data.
HasData(r) == r \in {"CompData_SC", "CompData_UC", "CompData_UD"}

\* Copies in cache c and data it has sent are the current value; the SCU leaves
\* out of the data for c only bursts the missed store overwrites, and what it
\* sends is current.
CopyInv(c) ==
    /\ st[c] # "I" => dat[c] = latest
    /\ ewrq[c].wb => ewrq[c].data = latest
    /\ snpAck[c].rtype = "FoundM" => snpAck[c].data = latest
    /\ wbData[c].vld => wbData[c].data = latest
    /\ Open(c) /\ mreq[c].phase = "sent" /\ mreq[c].store =>
         mshr.full \subseteq FullyIn(mreq[c].mask)
    /\ HasData(comp[c].rtype) =>
         \A p \in Burst :
            IF p \in comp[c].valid THEN Same(comp[c].data, latest, p)
            ELSE mreq[c].store /\ p \subseteq mreq[c].mask

\* The data an MSHR starts from.
Start == IF llc.valid THEN llc.data ELSE mem

\* While an MSHR collects data: it reads memory only for a line the LLC does
\* not have, it has the dirty bit as it was at allocation, and what it holds is
\* either newer data of a cache or what it started from.
FetchInv ==
    mshr.valid /\ "dir" \in mshr.upd =>
      /\ mshr.upd_enq => tagq
      /\ "mem" \in mshr.wait =>
            ~llc.valid /\ mshr.sharers = {} /\ mshr.data_valid = {}
      /\ "llc" \in mshr.wait => llc.valid
      /\ "data" \notin mshr.upd => llc.valid /\ mshr.data_dirty = {}
      /\ mshr.dirty <=> llc.valid /\ llc.dirty
      /\ \A p \in mshr.data_valid \ mshr.data_dirty : Same(mshr.data, Start, p)

\* Between the writes of directory and data RAM the MSHR still has the data,
\* and a line marked clean is that of memory.
UpdateInv ==
    mshr.valid /\ "dir" \notin mshr.upd =>
      /\ "data" \notin mshr.upd =>
            \A p \in mshr.data_valid : Same(mshr.data, llc.data, p)
      /\ ~llc.dirty =>
            \A p \in Burst :
              Same(IF "data" \in mshr.upd THEN mshr.data ELSE llc.data, mem, p)

\* Otherwise a clean line of the LLC is that of memory.
CleanInv ==
    (mshr.valid => "dir" \in mshr.upd) /\ llc.valid /\ ~llc.dirty
       => \A p \in Burst : Same(llc.data, mem, p)

\* A replacement has the whole line before it ends, writes it to memory if it
\* is dirty, and only after every answer.
ReplInv ==
    repl.valid =>
      /\ "llc" \in repl.wait \/ repl.data_valid = Burst
      /\ repl.data_dirty = {} =>
            /\ \A p \in Burst : Same(llc.data, mem, p)
            /\ \A p \in repl.data_valid : Same(repl.data, llc.data, p)
      /\ repl.mem # "idle" => repl.wait = {} /\ AllAnswered(repl)
      /\ repl.mem = "done" => \A p \in Burst : Same(repl.data, mem, p)

\* The invariant of the data.
DataInv ==
    /\ Covered /\ FetchInv /\ UpdateInv /\ CleanInv /\ ReplInv
    /\ \A c \in Cache : CopyInv(c)

-----------------------------------------------------------------------------
\* Lines and bursts.

\* Lines that agree on every burst are equal.
LEMMA SameLines ==
  ASSUME NEW a \in Line, NEW b \in Line, \A p \in Burst : Same(a, b, p)
  PROVE  a = b
<1>1. \A x \in Byte : a[x] = b[x]
  BY BurstAssumption DEF Same
<1>2. QED
  BY <1>1 DEF Line

\* The bursts are a partition: merging one leaves the others alone.
LEMMA MergedBursts ==
  ASSUME NEW a, NEW b, NEW bursts \in SUBSET Burst, NEW p \in Burst
  PROVE  /\ p \in bursts => Same(MergeBursts(a, b, bursts), b, p)
         /\ p \notin bursts => Same(MergeBursts(a, b, bursts), a, p)
<1>1. \A x \in p : x \in Byte
  BY BurstAssumption
<1>2. \A q \in bursts : q # p => \A x \in p : x \notin q
  BY BurstAssumption
<1>3. QED
  BY <1>1, <1>2 DEF MergeBursts, Same

\* A store changes only the bursts it touches.
LEMMA StoredBursts ==
  ASSUME NEW a, NEW mask \in SUBSET Byte, NEW v, NEW p \in Burst
  PROVE  p \notin TouchedBy(mask) => Same(MergeStore(a, mask, v), a, p)
<1>1. \A x \in p : x \in Byte
  BY BurstAssumption
<1>2. QED
  BY <1>1 DEF MergeStore, Same, TouchedBy

\* Agreement on a burst is an equivalence.
LEMMA SameIsEquivalence ==
  /\ \A a, p : Same(a, a, p)
  /\ \A a, b, p : Same(a, b, p) => Same(b, a, p)
  /\ \A a, b, c, p : Same(a, b, p) /\ Same(b, c, p) => Same(a, c, p)
BY DEF Same

-----------------------------------------------------------------------------
\* Who may hold newer data than the SCU.

\* Newer data are with an owner or on the way to an entry that awaits them.
LEMMA CarriesHot ==
  ASSUME CohInv, NEW c \in Cache, NEW p, Carries(c, p)
  PROVE  Hot(c)
<1>1. EvictInv(c) /\ ScuInv
  BY DEF CohInv, CacheInv
<1>2. wbData[c].vld => Awaited(c)
  BY <1>1 DEF EvictInv, AwaitingAt, Awaited
<1>3. QED
  BY <1>2 DEF Carries, Hot, Owns

\* The requestor of a transaction has no newer data than the SCU until it
\* has used the answer.
LEMMA RequestorClean ==
  ASSUME TypeOK, LineInOnePlace, OneAgent, CohInv, NEW c \in Cache,
         mshr.valid, "dir" \in mshr.upd, mshr.cid = c, Asks(mshr), ~Consumed(c)
  PROVE  ~Hot(c)
<1>1. MissInv(c) /\ SnoopInv(c) /\ Stages /\ SnoopLists /\ Fifos /\ ~repl.valid
  BY DEF CohInv, CacheInv, ScuInv, OneAgent
<1>2. "ack" \in mshr.wait /\ ~ack[c]
  BY <1>1 DEF Stages, Consumed, MissInv
<1>3. Open(c)
  BY <1>2 DEF Open, Served
<1>4. mreq[c].phase = "sent"
  BY <1>1, <1>2, <1>3 DEF MissInv, Consumed
<1>5. st[c] \in {"I", "S"} /\ ewrq[c].phase = "none"
  BY <1>4 DEF LineInOnePlace
<1>6. ~ewrq[c].wb
  BY <1>5 DEF CohInv, CacheInv, BankInv, NoEwrq
<1>7. snpAck[c].rtype = "None"
  BY <1>1 DEF SnoopInv, OutstandingAt, Outstanding, SnoopLists
<1>8. ~Awaited(c)
  BY <1>1 DEF Fifos, Awaited, Awaiting, Asks
<1>9. QED
  BY <1>5, <1>6, <1>7, <1>8 DEF Hot, Owns

\* At most one cache does.
LEMMA OneHot ==
  ASSUME TypeOK, RequestorKnown, LineInOnePlace, OneAgent, CohInv,
         NEW c \in Cache, NEW d \in Cache, Hot(c), Hot(d)
  PROVE  c = d
<1> SUFFICES ASSUME c # d PROVE FALSE
  OBVIOUS
<1>a. /\ ScuInv /\ DirInv(c) /\ DirInv(d) /\ SnoopInv(c) /\ SnoopInv(d)
      /\ Kinds /\ Stages /\ CacheInv(c) /\ CacheInv(d)
  BY DEF CohInv, CacheInv, ScuInv
<1>1. ASSUME NEW x \in Cache, NEW y \in Cache, Hot(x), Hot(y), x # y,
             mshr.valid, "dir" \in mshr.upd, y = mshr.cid,
             CacheInv(x), CacheInv(y)
      PROVE  FALSE
  <2>1. mshr.owner /\ mshr.sharers = {x}
    BY <1>1 DEF CacheInv, DirInv
  <2>2. Asks(mshr) /\ x \in mshr.snp_need
    BY <1>a, <1>1, <2>1 DEF Kinds, Asks
  <2>3. Consumed(y)
    BY <1>1, <2>2, RequestorClean
  <2>4. AllAnswered(mshr) /\ "wb" \notin mshr.wait
    BY <1>a, <1>1, <2>3 DEF Stages, Consumed
  <2>5. x \in Answered(mshr)
    BY <2>2, <2>4 DEF AllAnswered, Answered
  <2>6. ~Awaited(x)
    BY <1>1, <2>4 DEF Awaited, Awaiting, OneAgent
  <2>7. QED
    BY <1>1, <2>5, <2>6 DEF CacheInv, SnoopInv, Hot
<1>2. CASE mshr.valid /\ "dir" \in mshr.upd
  BY <1>a, <1>1, <1>2, OwnerAlone
<1>3. CASE ~(mshr.valid /\ "dir" \in mshr.upd)
  BY <1>a, <1>3 DEF DirInv
<1>4. QED
  BY <1>2, <1>3

\* When the answer to a request is on its way, nobody does.
LEMMA AnsweredClean ==
  ASSUME TypeOK, RequestorKnown, LineInOnePlace, OneAgent, CohInv,
         NEW d \in Cache, Open(d), mshr.resp_enq, mreq[d].phase = "sent",
         NEW c \in Cache
  PROVE  /\ ~Hot(c)
         /\ mshr.rtype # "ReadShared" /\ c # d => ~Present(c)
         /\ mshr.rtype # "ReadShared" => mshr.inv_snp \/ mshr.snp_need = {}
<1>a. /\ ScuInv /\ DirInv(c) /\ SnoopInv(c) /\ MissInv(d)
      /\ Kinds /\ Stages
  BY DEF CohInv, CacheInv, ScuInv
<1>1. /\ mshr.valid /\ mshr.cid = d /\ "ack" \in mshr.wait /\ ~ack[d]
  BY DEF Open, Served
<1>2. Asks(mshr) /\ "dir" \in mshr.upd /\ AllAnswered(mshr)
      /\ "wb" \notin mshr.wait
  BY <1>a, <1>1 DEF Kinds, Stages
<1>3. ~Consumed(d)
  BY <1>1 DEF Consumed
<1>4. mshr.snp_need = Answered(mshr)
  BY <1>2 DEF AllAnswered, Answered
<1>5. CASE c = d
  BY <1>1, <1>2, <1>3, <1>4, <1>5, <1>a, RequestorClean DEF Kinds, Asks
<1>6. CASE c # d
  <2>1. ~Awaited(c)
    BY <1>1, <1>2 DEF Awaited, Awaiting, OneAgent
  <2>2. ASSUME Owns(c) PROVE FALSE
    <3>1. mshr.owner /\ mshr.sharers = {c}
      BY <1>a, <1>1, <1>2, <1>6, <2>2 DEF DirInv, Hot
    <3>2. c \in mshr.snp_need
      BY <1>a, <1>1, <1>2, <1>6, <3>1 DEF Kinds, Asks
    <3>3. QED
      BY <1>a, <1>4, <2>2, <3>2 DEF SnoopInv
  <2>3. ASSUME mshr.rtype # "ReadShared", Present(c) PROVE FALSE
    <3>1. c \in mshr.sharers
      BY <1>a, <1>1, <1>2, <1>6, <2>3 DEF DirInv
    <3>2. c \in mshr.snp_need /\ mshr.inv_snp
      BY <1>a, <1>1, <1>2, <1>6, <2>3, <3>1 DEF Kinds, Asks
    <3>3. QED
      BY <1>a, <1>4, <2>3, <3>2 DEF SnoopInv
  <2>4. QED
    BY <1>a, <1>1, <1>2, <2>1, <2>2, <2>3 DEF Hot, Kinds, Asks
<1>7. QED
  BY <1>5, <1>6

-----------------------------------------------------------------------------
\* Steps of a private cache.

\* A step that performs no store and moves no newer burst out of sight.
LEMMA DataFrame ==
  ASSUME DataInv, UNCHANGED scuVars, latest' = latest, NEW c \in Cache,
         \A x \in Cache : x # c => SameAt(x) /\ dat'[x] = dat[x],
         CopyInv(c)', \A p \in Burst : Carries(c, p) => Carries(c, p)'
  PROVE  DataInv'
<1>a. UNCHANGED <<mshr, tagq, repl, llc, mem>>
  BY DEF scuVars
<1>1. \A x \in Cache, p \in Burst : Carries(x, p) => Carries(x, p)'
  BY DEF Carries, SameAt
<1>2. Covered'
  BY <1>a, <1>1 DEF DataInv, Covered, LowOf, Same
<1>3. FetchInv' /\ UpdateInv' /\ CleanInv' /\ ReplInv'
  BY <1>a DEF DataInv, FetchInv, UpdateInv, CleanInv, ReplInv, Same, Start,
              AllAnswered
<1>4. ASSUME NEW x \in Cache, x # c PROVE CopyInv(x)'
  <2>1. CopyInv(x) /\ SameAt(x) /\ dat'[x] = dat[x]
    BY <1>4 DEF DataInv
  <2>2. QED
    BY <1>a, <2>1 DEF CopyInv, SameAt, Open, Served, HasData, Same
<1>5. QED
  BY <1>2, <1>3, <1>4 DEF DataInv

\* Misses, requests, acknowledgements and victim marks move no data.
LEMMA CoreData ==
  ASSUME TypeOK, CohInv, DataInv, UNCHANGED scuVars, NEW c \in Cache,
         \/ \E mask \in StoreMask, v \in Val : StoreMiss(c, mask, v)
         \/ LoadMiss(c) \/ SendReq(c) \/ FinishAck(c) \/ VictimPeek(c)
  PROVE  DataInv'
<1>a. L1TypeOK /\ ChanTypeOK /\ MissInv(c) /\ CopyInv(c)
  BY DEF TypeOK, CohInv, CacheInv, DataInv
<1>b. UNCHANGED <<mshr, tagq, repl, llc, mem>>
  BY DEF scuVars
<1>1. \A x \in Cache : x # c => SameAt(x)
  BY BankLocal
<1>2. UNCHANGED <<st, dat, drt, ewrq, snpAck, wbData, comp, latest>>
  BY DEF StoreMiss, LoadMiss, SendReq, FinishAck, VictimPeek, chanVars
<1>3. \/ mreq'[c] = mreq[c] /\ ack'[c] = ack[c]
      \/ comp[c].rtype = "None" /\ mreq'[c].phase # "sent"
      \/ comp[c].rtype = "None" /\ ~Open(c) /\ ack'[c] = ack[c]
  <2>1. CASE SendReq(c)
    BY <2>1, <1>a DEF SendReq, MissInv
  <2>2. CASE \E mask \in StoreMask, v \in Val : StoreMiss(c, mask, v)
    BY <2>2, <1>a DEF StoreMiss, CoreReady, MissInv, L1TypeOK
  <2>3. CASE LoadMiss(c)
    BY <2>3, <1>a DEF LoadMiss, CoreReady, MissInv, L1TypeOK, NoMiss
  <2>4. CASE FinishAck(c)
    BY <2>4, <1>a DEF FinishAck, MissInv, L1TypeOK, NoMiss
  <2>5. CASE VictimPeek(c)
    BY <2>5 DEF VictimPeek, chanVars
  <2>6. QED
    BY <2>1, <2>2, <2>3, <2>4, <2>5
<1>4. CopyInv(c)'
  BY <1>a, <1>b, <1>2, <1>3 DEF CopyInv, HasData, Same, Open, Served
<1>5. \A p \in Burst : Carries(c, p) => Carries(c, p)'
  BY <1>2 DEF Carries
<1>6. QED
  BY <1>1, <1>2, <1>4, <1>5, DataFrame

\* A store that hits: the cache is the only one that has anything to do with
\* the line's value, and every burst that changes becomes dirty.
LEMMA StoreHitData ==
  ASSUME TypeOK, RequestorKnown, LineInOnePlace, OneAgent, CohInv, DataInv,
         UNCHANGED scuVars, NEW c \in Cache, NEW mask \in StoreMask,
         NEW v \in Val, StoreHit(c, mask, v)
  PROVE  DataInv'
<1>a. /\ L1TypeOK /\ ChanTypeOK /\ CacheInv(c) /\ CopyInv(c)
      /\ mask \in SUBSET Byte
  BY MaskAssumption DEF TypeOK, CohInv, DataInv
<1>b. UNCHANGED <<mshr, tagq, repl, llc, mem>>
  BY DEF scuVars
<1>1. /\ st[c] \in {"E", "M"} /\ st'[c] = "M"
      /\ dat'[c] = MergeStore(dat[c], mask, v)
      /\ drt'[c] = DirtyAfter(drt[c], mask)
      /\ latest' = MergeStore(latest, mask, v)
      /\ mreq[c].phase = "idle" /\ ewrq[c].phase = "none"
      /\ UNCHANGED <<mreq, vic, ewrq, req, evt, snpAck, ack, wbData, snp,
                     comp, wbAck>>
      /\ \A x \in Cache : x # c => /\ st'[x] = st[x] /\ drt'[x] = drt[x]
                                   /\ dat'[x] = dat[x]
  BY <1>a DEF StoreHit, CoreReady, L1TypeOK, chanVars
<1>2. dat[c] = latest /\ dat'[c] = latest'
  BY <1>a, <1>1 DEF CopyInv
<1>3. Owns(c) /\ Hot(c)
  BY <1>1 DEF Owns, Hot
<1>4. ~ewrq[c].wb
  BY <1>a, <1>1 DEF CacheInv, BankInv, NoEwrq
<1>5. snpAck[c].rtype = "None" /\ ~wbData[c].vld /\ comp[c].rtype = "None"
  <2>1. wbData[c].vld => Awaited(c)
    BY <1>a DEF CacheInv, EvictInv, AwaitingAt, Awaited
  <2>2. QED
    BY <1>a, <1>1, <2>1 DEF CacheInv, SnoopInv, EvictInv, MissInv
<1>6. ASSUME NEW x \in Cache, x # c
      PROVE  /\ st[x] = "I" /\ ~ewrq[x].wb /\ snpAck[x].rtype # "FoundM"
             /\ ~wbData[x].vld /\ comp[x].rtype = "None"
  <2>1. ~Hot(x)
    BY <1>3, <1>6, OneHot
  <2>2. st[x] = "I"
    BY <1>1, <1>6, CoherentSWMR DEF SWMR
  <2>3. CacheInv(x)
    BY DEF CohInv
  <2>4. wbData[x].vld => Awaited(x)
    BY <2>3 DEF CacheInv, EvictInv, AwaitingAt, Awaited
  <2>5. comp[x].rtype # "None" =>
          Open(x) /\ mshr.resp_enq /\ mreq[x].phase = "sent"
    BY <2>3 DEF CacheInv, MissInv
  <2>6. comp[x].rtype = "None"
    BY <1>3, <2>5, AnsweredClean
  <2>7. QED
    BY <2>1, <2>2, <2>4, <2>6 DEF Hot, Owns
<1>7. CopyInv(c)'
  BY <1>1, <1>2, <1>4, <1>5 DEF CopyInv, HasData
<1>8. ASSUME NEW x \in Cache, x # c PROVE CopyInv(x)'
  <2>1. Open(x)' <=> Open(x)
    BY <1>b, <1>1 DEF Open, Served
  <2>2. CopyInv(x)
    BY DEF DataInv
  <2>3. QED
    BY <1>b, <1>1, <1>6, <1>8, <2>1, <2>2 DEF CopyInv, HasData
<1>9. Covered'
  <2> SUFFICES ASSUME NEW p \in Burst, \A x \in Cache : ~Carries(x, p)'
               PROVE  Same(LowOf(p), latest, p)'
    BY DEF Covered
  <2>1. p \notin drt'[c]
    BY <1>1 DEF Carries
  <2>2. p \notin drt[c] /\ p \notin TouchedBy(mask)
    BY <1>1, <2>1 DEF DirtyAfter
  <2>3. \A x \in Cache : ~Carries(x, p)
    BY <1>4, <1>5, <1>6, <2>2 DEF Carries
  <2>4. Same(LowOf(p), latest, p)
    BY <2>3 DEF DataInv, Covered
  <2>5. Same(latest', latest, p)
    BY <1>a, <1>1, <2>2, StoredBursts
  <2>6. LowOf(p)' = LowOf(p)
    BY <1>b DEF LowOf
  <2>7. QED
    BY <2>4, <2>5, <2>6 DEF Same
<1>10. FetchInv' /\ UpdateInv' /\ CleanInv' /\ ReplInv'
  BY <1>b DEF DataInv, FetchInv, UpdateInv, CleanInv, ReplInv, Same, Start,
              AllAnswered
<1>11. QED
  BY <1>7, <1>8, <1>9, <1>10 DEF DataInv

\* When a refill is due, no cache has a burst the SCU has not.
LEMMA RefillSupply ==
  ASSUME TypeOK, RequestorKnown, LineInOnePlace, OneAgent, CohInv, DataInv,
         NEW c \in Cache, comp[c].rtype # "None"
  PROVE  /\ mreq[c].phase = "sent" /\ Open(c) /\ mshr.resp_enq
         /\ \A x \in Cache : ~Hot(x)
         /\ mreq[c].store => \A x \in Cache : x # c => ~Present(x)
         /\ \A p \in Burst : Same(LowOf(p), latest, p)
         /\ \A x \in Cache : x # c => comp[x].rtype = "None"
         /\ mreq[c].store => comp[c].rtype \in {"Comp_UD", "CompData_UD"}
         /\ ~mreq[c].store => comp[c].rtype \in {"CompData_SC", "CompData_UC"}
         /\ comp[c].rtype = "Comp_UD" => st[c] = "S"
<1>1. MissInv(c) /\ Kinds
  BY DEF CohInv, CacheInv, ScuInv
<1>2. mreq[c].phase = "sent" /\ Open(c) /\ mshr.resp_enq
  BY <1>1 DEF MissInv
<1>3. \A x \in Cache : ~Hot(x)
  BY <1>2, AnsweredClean
<1>4. mreq[c].store => mshr.rtype # "ReadShared"
  BY <1>1, <1>2 DEF MissInv
<1>5. mreq[c].store => \A x \in Cache : x # c => ~Present(x)
  BY <1>2, <1>4, AnsweredClean
<1>6. \A p \in Burst : Same(LowOf(p), latest, p)
  BY <1>3, CarriesHot DEF DataInv, Covered
<1>7. ASSUME NEW x \in Cache, x # c PROVE comp[x].rtype = "None"
  BY <1>2, <1>7 DEF CohInv, CacheInv, MissInv, Open, Served
<1>8. /\ mreq[c].store => comp[c].rtype \in {"Comp_UD", "CompData_UD"}
      /\ ~mreq[c].store => comp[c].rtype \in {"CompData_SC", "CompData_UC"}
      /\ comp[c].rtype = "Comp_UD" => st[c] = "S"
  <2>1. Asks(mshr)
    BY <1>1, <1>2 DEF Kinds, Open, Served
  <2>2. QED
    BY <1>1, <1>2, <2>1 DEF MissInv, Asks
<1>9. QED
  BY <1>2, <1>3, <1>5, <1>6, <1>7, <1>8

\* The refill of a load: every burst has come, and every one is current.
LEMMA RefillLoadData ==
  ASSUME TypeOK, TypeOK', RequestorKnown, LineInOnePlace, OneAgent, CohInv,
         DataInv, UNCHANGED scuVars, NEW c \in Cache, Refill(c), ~mreq[c].store
  PROVE  DataInv'
<1>a. /\ L1TypeOK /\ ChanTypeOK /\ CopyInv(c)
      /\ dat'[c] \in Line /\ latest \in Line
  BY DEF TypeOK, L1TypeOK, DataInv
<1>1. /\ comp[c].rtype # "None" /\ latest' = latest
      /\ st'[c] = RefillState(mreq[c], comp[c])
      /\ dat'[c] = RefillLine(mreq[c], dat[c], comp[c])
      /\ mreq'[c].phase = "refilled" /\ comp'[c] = NoComp
      /\ UNCHANGED <<ewrq, snpAck, wbData>>
      /\ \A x \in Cache : x # c => dat'[x] = dat[x]
  BY <1>a DEF Refill, L1TypeOK, ChanTypeOK
<1>2. /\ comp[c].rtype \in {"CompData_SC", "CompData_UC"}
      /\ \A x \in Cache : ~Hot(x)
  BY <1>1, RefillSupply
<1>3. dat'[c] = MergeBursts(AnyLine, comp[c].data, comp[c].valid)
  BY <1>1, <1>2 DEF RefillLine
<1>4. ASSUME NEW p \in Burst PROVE Same(dat'[c], latest, p)
  <2>1. p \in comp[c].valid /\ Same(comp[c].data, latest, p)
    BY <1>a, <1>2, <1>4 DEF CopyInv, HasData
  <2>2. comp[c].valid \in SUBSET Burst
    BY <1>a DEF ChanTypeOK, CompMsg
  <2>3. Same(dat'[c], comp[c].data, p)
    BY <1>3, <2>1, <2>2, MergedBursts
  <2>4. QED
    BY <2>1, <2>3 DEF Same
<1>5. dat'[c] = latest
  BY <1>a, <1>4, SameLines
<1>6. CopyInv(c)'
  BY <1>a, <1>1, <1>5 DEF CopyInv, NoComp, HasData
<1>7. \A p \in Burst : ~Carries(c, p)
  BY <1>2, CarriesHot
<1>8. \A x \in Cache : x # c => SameAt(x)
  BY BankLocal
<1>9. QED
  BY <1>1, <1>6, <1>7, <1>8, DataFrame

\* The refill of a store: the bursts that have not come are overwritten, the
\* ones that change become dirty, and no other cache has the line.
LEMMA RefillStoreData ==
  ASSUME TypeOK, TypeOK', RequestorKnown, LineInOnePlace, OneAgent, CohInv,
         DataInv, UNCHANGED scuVars, NEW c \in Cache, Refill(c), mreq[c].store
  PROVE  DataInv'
<1> DEFINE mask == mreq[c].mask
           v == mreq[c].val
           base == IF comp[c].rtype = "Comp_UD" THEN dat[c]
                   ELSE MergeBursts(AnyLine, comp[c].data, comp[c].valid)
<1>a. /\ L1TypeOK /\ ChanTypeOK /\ CopyInv(c)
      /\ dat'[c] \in Line /\ latest' \in Line
      /\ mask \in SUBSET Byte /\ comp[c].valid \in SUBSET Burst
  BY DEF TypeOK, L1TypeOK, DataInv, Miss, ChanTypeOK, CompMsg
<1>b. UNCHANGED <<mshr, tagq, repl, llc, mem>>
  BY DEF scuVars
<1>1. /\ comp[c].rtype # "None" /\ latest' = MergeStore(latest, mask, v)
      /\ st'[c] = "M" /\ dat'[c] = MergeStore(base, mask, v)
      /\ drt'[c] = TouchedBy(mask)
      /\ mreq'[c].phase = "refilled" /\ comp'[c] = NoComp
      /\ UNCHANGED <<ewrq, snpAck, wbData, ack>>
      /\ \A x \in Cache : x # c => /\ dat'[x] = dat[x] /\ st'[x] = st[x]
                                   /\ mreq'[x] = mreq[x] /\ comp'[x] = comp[x]
                                   /\ drt'[x] = drt[x]
  <2>1. drt'[c] \in RefillDirty(mreq[c])
    BY <1>a DEF Refill, L1TypeOK
  <2>2. \A x \in Cache : x # c => drt'[x] = drt[x]
    BY <1>a DEF Refill, L1TypeOK
  <2>3. QED
    BY <1>a, <2>1, <2>2 DEF Refill, L1TypeOK, ChanTypeOK, RefillState,
       RefillLine, RefillDirty
<1>2. /\ \A x \in Cache : ~Hot(x)
      /\ \A x \in Cache : x # c => ~Present(x) /\ comp[x].rtype = "None"
      /\ \A p \in Burst : Same(LowOf(p), latest, p)
      /\ comp[c].rtype \in {"Comp_UD", "CompData_UD"}
      /\ comp[c].rtype = "Comp_UD" => st[c] = "S"
  BY <1>1, RefillSupply
<1>3. ASSUME NEW p \in Burst PROVE Same(dat'[c], latest', p)
  <2>1. \A x \in p : x \in Byte
    BY BurstAssumption
  <2>2. Same(base, latest, p) \/ p \subseteq mask
    <3>1. CASE comp[c].rtype = "Comp_UD"
      BY <1>a, <1>2, <3>1 DEF CopyInv, Same
    <3>2. CASE comp[c].rtype = "CompData_UD" /\ p \in comp[c].valid
      <4>1. Same(comp[c].data, latest, p)
        BY <1>a, <3>2 DEF CopyInv, HasData
      <4>2. Same(base, comp[c].data, p)
        BY <1>a, <3>2, MergedBursts
      <4>3. QED
        BY <4>1, <4>2 DEF Same
    <3>3. CASE comp[c].rtype = "CompData_UD" /\ p \notin comp[c].valid
      BY <1>a, <3>3 DEF CopyInv, HasData
    <3>4. QED
      BY <1>2, <3>1, <3>2, <3>3
  <2> HIDE DEF base, mask, v
  <2>3. QED
    BY <1>1, <2>1, <2>2 DEF Same, MergeStore
<1>4. dat'[c] = latest'
  BY <1>a, <1>3, SameLines
<1>5. \A x \in Cache : /\ ~ewrq[x].wb /\ snpAck[x].rtype # "FoundM"
                       /\ ~wbData[x].vld
  <2>1. \A x \in Cache : wbData[x].vld => Awaited(x)
    BY DEF CohInv, CacheInv, EvictInv, AwaitingAt, Awaited
  <2>2. QED
    BY <1>2, <2>1 DEF Hot, Owns
<1>6. CopyInv(c)'
  BY <1>1, <1>4, <1>5 DEF CopyInv, HasData, NoComp
<1>7. ASSUME NEW x \in Cache, x # c PROVE CopyInv(x)'
  <2>1. Open(x)' <=> Open(x)
    BY <1>b, <1>1 DEF Open, Served
  <2>2. CopyInv(x) /\ st[x] = "I" /\ comp[x].rtype = "None"
    BY <1>2, <1>7 DEF DataInv, Present
  <2>3. QED
    BY <1>b, <1>1, <1>5, <1>7, <2>1, <2>2 DEF CopyInv, HasData
<1>8. Covered'
  <2> SUFFICES ASSUME NEW p \in Burst, \A x \in Cache : ~Carries(x, p)'
               PROVE  Same(LowOf(p), latest, p)'
    BY DEF Covered
  <2>1. p \notin TouchedBy(mask)
    BY <1>1 DEF Carries
  <2>2. Same(latest', latest, p)
    BY <1>a, <1>1, <2>1, StoredBursts
  <2>3. LowOf(p)' = LowOf(p)
    BY <1>b DEF LowOf
  <2>4. QED
    BY <1>2, <2>2, <2>3 DEF Same
<1>9. FetchInv' /\ UpdateInv' /\ CleanInv' /\ ReplInv'
  BY <1>b DEF DataInv, FetchInv, UpdateInv, CleanInv, ReplInv, Same, Start,
              AllAnswered
<1>10. QED
  BY <1>6, <1>7, <1>8, <1>9 DEF DataInv

\* The evict queue and the write-back channel take the bursts on.
LEMMA LeaveData ==
  ASSUME TypeOK, LineInOnePlace, CohInv, NoStaleVictim, DataInv,
         UNCHANGED scuVars, NEW c \in Cache,
         VictimEvict(c) \/ EwrqSend(c) \/ EwrqAck(c) \/ EwrqData(c)
  PROVE  DataInv'
<1>a. L1TypeOK /\ ChanTypeOK /\ CopyInv(c) /\ CacheInv(c)
  BY DEF TypeOK, DataInv, CohInv
<1>b. UNCHANGED <<mshr, tagq, repl, llc, mem>>
  BY DEF scuVars
<1>1. \A x \in Cache : x # c => SameAt(x)
  BY BankLocal
<1>2. UNCHANGED <<dat, mreq, latest, snpAck, comp, ack>>
  BY DEF VictimEvict, EwrqSend, EwrqAck, EwrqData, chanVars
<1>3. Open(c)' <=> Open(c)
  BY <1>b, <1>2 DEF Open, Served
<1>4. CASE VictimEvict(c)
  <2>1. /\ vic[c] # "none" /\ st'[c] = "I" /\ wbData' = wbData
        /\ IF st[c] = "I" /\ drt[c] = {} THEN ewrq'[c] = ewrq[c]
           ELSE /\ ewrq'[c].wb <=> vic[c] = "dirty"
                /\ ewrq'[c].data = dat[c] /\ ewrq'[c].dirty = drt[c]
    BY <1>4, <1>a DEF VictimEvict, L1TypeOK, chanVars
  <2>2. /\ ~ewrq[c].wb
        /\ st[c] = "I" => drt[c] = {}
        /\ st[c] = "M" => vic[c] = "dirty"
        /\ vic[c] = "dirty" /\ st[c] # "I" => st[c] = "M"
    BY <1>a, <2>1 DEF CacheInv, BankInv, NoEwrq, LineInOnePlace,
                      NoStaleVictim, L1TypeOK
  <2>3. CopyInv(c)'
    BY <1>a, <1>b, <1>2, <1>3, <2>1, <2>2 DEF CopyInv, HasData, Same
  <2>4. st[c] = "M" => ewrq'[c].wb /\ ewrq'[c].dirty = drt[c]
    BY <2>1, <2>2
  <2>5. \A p \in Burst : Carries(c, p) => Carries(c, p)'
    BY <1>2, <2>1, <2>2, <2>4 DEF Carries
  <2>6. QED
    BY <1>1, <1>2, <2>3, <2>5, DataFrame
<1>5. CASE EwrqSend(c) \/ EwrqAck(c)
  <2>a. ewrq[c] \in Ewrq
    BY <1>a DEF L1TypeOK
  <2>1. /\ ewrq'[c].wb <=> ewrq[c].wb
        /\ ewrq[c].wb => /\ ewrq'[c].data = ewrq[c].data
                         /\ ewrq'[c].dirty = ewrq[c].dirty
        /\ UNCHANGED <<st, drt, wbData>>
    <3>1. CASE EwrqSend(c)
      BY <3>1, <1>a, <2>a DEF EwrqSend, L1TypeOK, Ewrq
    <3>2. CASE EwrqAck(c)
      <4>1. /\ ewrq'[c] = AckedEwrq(ewrq[c], wbAck[c].tid)
            /\ UNCHANGED <<st, drt, wbData>>
        BY <3>2, <1>a DEF EwrqAck, L1TypeOK
      <4>2. /\ AckedEwrq(ewrq[c], wbAck[c].tid).wb <=> ewrq[c].wb
            /\ ewrq[c].wb =>
                 /\ AckedEwrq(ewrq[c], wbAck[c].tid).data = ewrq[c].data
                 /\ AckedEwrq(ewrq[c], wbAck[c].tid).dirty = ewrq[c].dirty
        BY <2>a DEF AckedEwrq, Ewrq, NoEwrq
      <4>3. QED
        BY <4>1, <4>2
    <3>3. QED
      BY <1>5, <3>1, <3>2
  <2>2. CopyInv(c)'
    BY <1>a, <1>b, <1>2, <1>3, <2>1 DEF CopyInv, HasData, Same
  <2>3. \A p \in Burst : Carries(c, p) => Carries(c, p)'
    BY <1>2, <2>1 DEF Carries
  <2>4. QED
    BY <1>1, <1>2, <2>2, <2>3, DataFrame
<1>6. CASE EwrqData(c)
  <2>1. /\ ewrq[c].phase = "acked" /\ ewrq'[c] = NoEwrq
        /\ wbData'[c].vld /\ wbData'[c].data = ewrq[c].data
        /\ wbData'[c].dirty = ewrq[c].dirty
        /\ UNCHANGED <<st, drt>>
    BY <1>6, <1>a DEF EwrqData, L1TypeOK, ChanTypeOK
  <2>2. ewrq[c].wb /\ ~wbData[c].vld
    BY <1>a, <2>1 DEF CacheInv, EvictInv
  <2>3. CopyInv(c)'
    BY <1>a, <1>b, <1>2, <1>3, <2>1, <2>2 DEF CopyInv, HasData, Same, NoEwrq
  <2>4. \A p \in Burst : Carries(c, p) => Carries(c, p)'
    BY <1>2, <2>1, <2>2 DEF Carries
  <2>5. QED
    BY <1>1, <1>2, <2>3, <2>4, DataFrame
<1>7. QED
  BY <1>4, <1>5, <1>6

\* The snoop answer of a MODIFIED line takes its dirty bursts along.
LEMMA SnoopData ==
  ASSUME TypeOK, CohInv, DataInv, UNCHANGED scuVars, NEW c \in Cache, Snoop(c)
  PROVE  DataInv'
<1>a. L1TypeOK /\ ChanTypeOK /\ CopyInv(c) /\ CacheInv(c)
  BY DEF TypeOK, DataInv, CohInv
<1>b. UNCHANGED <<mshr, tagq, repl, llc, mem>>
  BY DEF scuVars
<1>1. \A x \in Cache : x # c => SameAt(x)
  BY BankLocal
<1>2. /\ UNCHANGED <<dat, mreq, latest, ewrq, wbData, comp, ack>>
      /\ snp[c].rtype # "None"
      /\ st'[c] = SnoopedState(st[c], snp[c].rtype)
      /\ snpAck'[c] = SnoopAnswer(st[c], dat[c], drt[c], snp[c].tid)
  BY <1>a DEF Snoop, L1TypeOK, ChanTypeOK
<1>3. snpAck[c].rtype = "None"
  BY <1>a, <1>2 DEF CacheInv, SnoopInv
<1>4. /\ st'[c] # "I" => st[c] # "I"
      /\ st'[c] # "M"
      /\ st[c] = "M" => /\ snpAck'[c].rtype = "FoundM"
                        /\ snpAck'[c].dirty = drt[c]
      /\ snpAck'[c].rtype = "FoundM" => st[c] = "M" /\ snpAck'[c].data = dat[c]
  BY <1>2 DEF SnoopedState, SnoopAnswer, NoSnpAck
<1>5. CopyInv(c)'
  BY <1>a, <1>b, <1>2, <1>4 DEF CopyInv, HasData, Same, Open, Served
<1>6. \A p \in Burst : Carries(c, p) => Carries(c, p)'
  BY <1>2, <1>3, <1>4 DEF Carries
<1>7. QED
  BY <1>1, <1>2, <1>5, <1>6, DataFrame

\* Every step of a private cache.
LEMMA L1Data ==
  ASSUME TypeOK, TypeOK', RequestorKnown, LineInOnePlace, OneAgent, CohInv,
         NoStaleVictim, DataInv, UNCHANGED scuVars, L1Next
  PROVE  DataInv'
BY CoreData, StoreHitData, RefillLoadData, RefillStoreData, LeaveData,
   SnoopData DEF L1Next

-----------------------------------------------------------------------------
\* Steps of the SCU.

\* A copy and the messages of its cache stay right while the SCU takes
\* messages and sends none with data.
LEMMA CopyFrame ==
  ASSUME NEW x \in Cache, CopyInv(x), UNCHANGED l1Vars,
         snpAck'[x] = snpAck[x] \/ snpAck'[x].rtype # "FoundM",
         wbData'[x] = wbData[x] \/ ~wbData'[x].vld,
         comp'[x] = comp[x] \/ ~HasData(comp'[x].rtype),
         Open(x)' => Open(x) /\ mshr'.full = mshr.full
  PROVE  CopyInv(x)'
<1>1. UNCHANGED <<st, dat, mreq, ewrq, latest>>
  BY DEF l1Vars
<1>2. /\ st'[x] # "I" => dat'[x] = latest'
      /\ ewrq'[x].wb => ewrq'[x].data = latest'
      /\ snpAck'[x].rtype = "FoundM" => snpAck'[x].data = latest'
      /\ wbData'[x].vld => wbData'[x].data = latest'
  BY <1>1 DEF CopyInv
<1>3. Open(x)' /\ mreq'[x].phase = "sent" /\ mreq'[x].store
        => mshr'.full \subseteq FullyIn(mreq'[x].mask)
  BY <1>1 DEF CopyInv
<1>4. HasData(comp'[x].rtype) =>
         \A p \in Burst :
            IF p \in comp'[x].valid THEN Same(comp'[x].data, latest', p)
            ELSE mreq'[x].store /\ p \subseteq mreq'[x].mask
  BY <1>1 DEF CopyInv
<1>5. QED
  BY <1>2, <1>3, <1>4 DEF CopyInv

\* What the SCU has of the line stays as it is.
SupplyKept ==
    /\ UNCHANGED <<llc, mem>>
    /\ mshr'.valid <=> mshr.valid
    /\ mshr'.full = mshr.full /\ mshr'.sharers = mshr.sharers
    /\ mshr'.dirty <=> mshr.dirty
    /\ mshr'.data = mshr.data /\ mshr'.data_valid = mshr.data_valid
    /\ mshr'.data_dirty = mshr.data_dirty /\ mshr'.upd = mshr.upd
    /\ "mem" \in mshr'.wait <=> "mem" \in mshr.wait
    /\ "llc" \in mshr'.wait <=> "llc" \in mshr.wait
    /\ mshr'.upd_enq /\ "dir" \in mshr'.upd =>
          tagq' \/ (tagq' = tagq /\ mshr.upd_enq)
    /\ repl'.valid <=> repl.valid
    /\ repl'.data = repl.data /\ repl'.data_valid = repl.data_valid
    /\ repl'.data_dirty = repl.data_dirty /\ repl'.mem = repl.mem
    /\ "llc" \in repl'.wait <=> "llc" \in repl.wait
    /\ repl.valid /\ repl.mem # "idle" => repl'.wait = {} /\ AllAnswered(repl')

\* Such a step, if it opens no miss and sends no data, keeps the invariant.
LEMMA SupplyFrame ==
  ASSUME DataInv, UNCHANGED l1Vars, SupplyKept, UNCHANGED wbData,
         \A x \in Cache :
            /\ \/ snpAck'[x] = snpAck[x]
               \/ snpAck[x].rtype # "FoundM" /\ snpAck'[x].rtype # "FoundM"
            /\ comp'[x] = comp[x] \/ ~HasData(comp'[x].rtype)
            /\ Open(x)' => Open(x)
  PROVE  DataInv'
<1>1. \A x \in Cache : CopyInv(x)'
  <2> SUFFICES ASSUME NEW x \in Cache PROVE CopyInv(x)'
    OBVIOUS
  <2>1. CopyInv(x) /\ (Open(x)' => Open(x) /\ mshr'.full = mshr.full)
    BY DEF DataInv, SupplyKept
  <2>2. QED
    BY <2>1, CopyFrame
<1>2. \A x \in Cache, p \in Burst : Carries(x, p) => Carries(x, p)'
  BY DEF Carries, l1Vars
<1>3. \A p \in Burst : LowOf(p)' = LowOf(p)
  BY DEF SupplyKept, LowOf
<1>4. Covered'
  BY <1>2, <1>3 DEF DataInv, Covered, Same, l1Vars
<1>5. FetchInv'
  BY DEF SupplyKept, DataInv, FetchInv, Start, Same
<1>6. UpdateInv' /\ CleanInv'
  BY DEF SupplyKept, DataInv, UpdateInv, CleanInv, Same
<1>7. ReplInv'
  BY DEF SupplyKept, DataInv, ReplInv, Same
<1>8. QED
  BY <1>1, <1>4, <1>5, <1>6, <1>7 DEF DataInv

\* A replacement that has given its data up expects nothing any more.
LEMMA ReplSettled ==
  ASSUME DataInv, ScuInv, repl.valid, repl.mem # "idle"
  PROVE  repl.wait = {} /\ repl.snp_need = repl.snp_sent
         /\ repl.snp_need = Answered(repl)
BY DEF DataInv, ReplInv, AllAnswered, Answered

\* Snoops, acknowledgements and answers without data.
LEMMA SnpData ==
  ASSUME TypeOK, OneAgent, CohInv, DataInv, UNCHANGED l1Vars, NEW c \in Cache,
         SendSnp(c) \/ ReplSendSnp(c)
  PROVE  DataInv'
<1>a. /\ mshr \in Mshr /\ repl \in Repl /\ ScuInv
      /\ repl.valid /\ repl.mem # "idle" => repl.wait = {} /\ AllAnswered(repl)
      /\ FetchInv
  BY DEF TypeOK, ScuTypeOK, CohInv, DataInv, ReplInv
<1>1. UNCHANGED <<llc, mem, tagq, wbData, snpAck, comp, ack>>
  BY DEF SendSnp, ReplSendSnp
<1>2. CASE SendSnp(c)
  <2>1. mshr' = [mshr EXCEPT !.snp_sent = @ \cup {c}] /\ repl' = repl
    BY <1>2 DEF SendSnp
  <2>2. SupplyKept
    BY <1>a, <1>1, <2>1 DEF SupplyKept, Mshr, AllAnswered
  <2>3. \A x \in Cache : Open(x)' <=> Open(x)
    BY <1>a, <1>1, <2>1 DEF Open, Served, Mshr
  <2>4. QED
    BY <1>1, <2>2, <2>3, SupplyFrame
<1>3. CASE ReplSendSnp(c)
  <2>1. /\ repl' = [repl EXCEPT !.snp_sent = @ \cup {c}] /\ mshr' = mshr
        /\ c \in repl.snp_need \ repl.snp_sent
    BY <1>3 DEF ReplSendSnp, SnpToSend
  <2>2. repl.valid => repl.mem = "idle"
    BY <1>a, <2>1, ReplSettled
  <2>3. SupplyKept
    BY <1>a, <1>1, <2>1, <2>2 DEF SupplyKept, Repl
  <2>4. \A x \in Cache : Open(x)' <=> Open(x)
    BY <1>1, <2>1 DEF Open, Served
  <2>5. QED
    BY <1>1, <2>3, <2>4, SupplyFrame
<1>4. QED
  BY <1>2, <1>3

\* Taking the acknowledgement of a requestor does.
LEMMA AckData ==
  ASSUME TypeOK, OneAgent, CohInv, DataInv, UNCHANGED l1Vars, NEW c \in Cache,
         RecvAck(c)
  PROVE  DataInv'
<1>a. /\ mshr \in Mshr /\ MissInv(c)
      /\ repl.valid /\ repl.mem # "idle" => repl.wait = {} /\ AllAnswered(repl)
  BY DEF TypeOK, ScuTypeOK, CohInv, CacheInv, DataInv, ReplInv
<1>1. /\ UNCHANGED <<llc, mem, tagq, repl, wbData, snpAck, comp>>
      /\ mshr' = [mshr EXCEPT !.wait = @ \ {"ack"}] /\ ack[c]
      /\ ack' = [ack EXCEPT ![c] = FALSE]
  BY DEF RecvAck
<1>2. SupplyKept
  BY <1>a, <1>1 DEF SupplyKept, Mshr
<1>3. \A x \in Cache : ~Open(x)'
  BY <1>a, <1>1 DEF Open, Served, Mshr
<1>4. QED
  BY <1>1, <1>2, <1>3, SupplyFrame

\* Queueing or sending an answer without data, and queueing the update, do.
LEMMA RespData ==
  ASSUME TypeOK, OneAgent, CohInv, DataInv, UNCHANGED l1Vars,
         EnqueueResp \/ SendResp \/ ReplSendResp \/ FinalEnqueue
  PROVE  DataInv'
<1>a. /\ mshr \in Mshr /\ comp \in [Cache -> CompMsg]
      /\ repl.valid /\ repl.mem # "idle" => repl.wait = {} /\ AllAnswered(repl)
  BY DEF TypeOK, ScuTypeOK, ChanTypeOK, DataInv, ReplInv
<1>1. UNCHANGED <<llc, mem, repl, wbData, snpAck, ack>>
  BY DEF EnqueueResp, SendResp, ReplSendResp, FinalEnqueue, chanVars
<1>2. CASE EnqueueResp
  <2>1. mshr' = [mshr EXCEPT !.resp_enq = TRUE] /\ UNCHANGED <<tagq, comp>>
    BY <1>2 DEF EnqueueResp, chanVars
  <2>2. SupplyKept
    BY <1>a, <1>1, <2>1 DEF SupplyKept, Mshr
  <2>3. \A x \in Cache : Open(x)' <=> Open(x)
    BY <1>a, <1>1, <2>1 DEF Open, Served, Mshr
  <2>4. QED
    BY <1>1, <2>1, <2>2, <2>3, SupplyFrame
<1>3. CASE SendResp \/ ReplSendResp
  <2>1. UNCHANGED <<mshr, tagq>>
    BY <1>3 DEF SendResp, ReplSendResp
  <2>2. SupplyKept
    BY <1>a, <1>1, <2>1 DEF SupplyKept
  <2>3. \A x \in Cache : Open(x)' <=> Open(x)
    BY <1>1, <2>1 DEF Open, Served
  <2>4. \A x \in Cache : comp'[x] = comp[x] \/ ~HasData(comp'[x].rtype)
    BY <1>3, <1>a DEF SendResp, ReplSendResp, HasData, NoComp
  <2>5. QED
    BY <1>1, <2>2, <2>3, <2>4, SupplyFrame
<1>4. CASE FinalEnqueue
  <2>1. /\ mshr' = [mshr EXCEPT !.upd_enq = TRUE] /\ UNCHANGED comp
        /\ tagq' = ("dir" \in mshr.upd)
    BY <1>4 DEF FinalEnqueue, QueueUpdate, chanVars
  <2>2. SupplyKept
    BY <1>a, <1>1, <2>1 DEF SupplyKept, Mshr
  <2>3. \A x \in Cache : Open(x)' <=> Open(x)
    BY <1>a, <1>1, <2>1 DEF Open, Served, Mshr
  <2>4. QED
    BY <1>1, <2>1, <2>2, <2>3, SupplyFrame
<1>5. QED
  BY <1>2, <1>3, <1>4

\* An eviction that an entry takes note of.
LEMMA TakeData ==
  ASSUME TypeOK, OneAgent, CohInv, DataInv, UNCHANGED l1Vars, NEW c \in Cache,
         EvictToMshr(c) \/ EvictToRepl(c)
  PROVE  DataInv'
<1>a. /\ mshr \in Mshr /\ repl \in Repl /\ ScuInv /\ DirInv(c)
      /\ repl.valid /\ repl.mem # "idle" => repl.wait = {} /\ AllAnswered(repl)
  BY DEF TypeOK, ScuTypeOK, CohInv, CacheInv, DataInv, ReplInv
<1>1. /\ UNCHANGED <<llc, mem, tagq, wbData, snpAck, comp, ack>>
      /\ evt[c] # "None"
  BY DEF EvictToMshr, EvictToRepl, EvictTaken
<1>2. CASE EvictToMshr(c)
  <2>1. mshr' = GotEvict(mshr, c) /\ repl' = repl
    BY <1>2 DEF EvictToMshr
  <2>2. /\ SupplyKept /\ mshr'.cid = mshr.cid
        /\ "ack" \in mshr'.wait <=> "ack" \in mshr.wait
    <3>1. CASE IsWriteBack(c)
      BY <1>a, <1>1, <2>1, <3>1 DEF SupplyKept, Mshr, GotEvict
    <3>2. CASE ~IsWriteBack(c)
      BY <1>a, <1>1, <2>1, <3>2 DEF SupplyKept, Mshr, GotEvict
    <3>3. QED
      BY <3>1, <3>2
  <2>3. \A x \in Cache : Open(x)' <=> Open(x)
    BY <1>1, <2>2 DEF Open, Served, SupplyKept
  <2>4. QED
    BY <1>1, <2>2, <2>3, SupplyFrame
<1>3. CASE EvictToRepl(c)
  <2>1. /\ repl' = GotEvict(repl, c) /\ mshr' = mshr
        /\ ~mshr.valid /\ repl.valid
    BY <1>3 DEF EvictToRepl
  <2>2. c \in repl.snp_need \ Answered(repl)
    BY <1>a, <1>1, <2>1 DEF DirInv, Present
  <2>3. repl.mem = "idle"
    BY <1>a, <2>1, <2>2, ReplSettled
  <2>4. SupplyKept
    <3>1. CASE IsWriteBack(c)
      BY <1>a, <1>1, <2>1, <2>3, <3>1 DEF SupplyKept, Repl, GotEvict
    <3>2. CASE ~IsWriteBack(c)
      BY <1>a, <1>1, <2>1, <2>3, <3>2 DEF SupplyKept, Repl, GotEvict
    <3>3. QED
      BY <3>1, <3>2
  <2>5. \A x \in Cache : Open(x)' <=> Open(x)
    BY <1>1, <2>1 DEF Open, Served
  <2>6. QED
    BY <1>1, <2>4, <2>5, SupplyFrame
<1>4. QED
  BY <1>2, <1>3

\* The bursts a cache supplies go over those the entry of the transaction has.
LEMMA MergedMshr ==
  ASSUME TypeOK, DataInv, UNCHANGED l1Vars, NEW d, d.data = latest,
         d.dirty \in SUBSET Burst, mshr.valid, "dir" \in mshr.upd,
         "mem" \notin mshr.wait, ~mshr'.upd_enq,
         mshr'.valid, mshr'.upd = mshr.upd \cup {"data"},
         mshr'.data = MergeBursts(mshr.data, d.data, d.dirty),
         mshr'.data_valid = mshr.data_valid \cup d.dirty,
         mshr'.data_dirty = mshr.data_dirty \cup d.dirty,
         mshr'.wait \subseteq mshr.wait,
         "llc" \in mshr'.wait <=> "llc" \in mshr.wait,
         mshr'.dirty <=> mshr.dirty, UNCHANGED <<llc, mem, repl>>,
         \A x \in Cache : CopyInv(x)',
         \A x \in Cache, p \in Burst \ d.dirty :
            Carries(x, p) => Carries(x, p)'
  PROVE  DataInv'
<1>a. /\ FetchInv /\ CleanInv /\ ReplInv /\ latest' = latest
      /\ mshr.data_valid \in SUBSET Burst
  BY DEF DataInv, l1Vars, TypeOK, ScuTypeOK, Mshr
<1>1. \A p \in Burst : /\ p \in d.dirty => Same(mshr'.data, latest, p)
                       /\ p \notin d.dirty => Same(mshr'.data, mshr.data, p)
  BY MergedBursts
<1>2. Covered'
  <2> SUFFICES ASSUME NEW p \in Burst, \A x \in Cache : ~Carries(x, p)'
               PROVE  Same(LowOf(p), latest, p)'
    BY DEF Covered
  <2>1. CASE p \in d.dirty
    <3>1. LowOf(p)' = mshr'.data
      BY <2>1 DEF LowOf
    <3>2. QED
      BY <1>a, <1>1, <2>1, <3>1 DEF Same
  <2>2. CASE p \notin d.dirty
    <3>1. Same(LowOf(p), latest, p)
      BY <2>2 DEF DataInv, Covered
    <3>2. Same(LowOf(p)', LowOf(p), p)
      BY <1>1, <2>2 DEF LowOf, Same
    <3>3. QED
      BY <1>a, <3>1, <3>2 DEF Same
  <2>3. QED
    BY <2>1, <2>2
<1>3. FetchInv'
  <2>1. Start' = Start
    BY DEF Start
  <2>2. \A p \in mshr'.data_valid \ mshr'.data_dirty :
          Same(mshr'.data, Start, p)
    BY <1>a, <1>1 DEF FetchInv, Same
  <2>3. QED
    BY <1>a, <2>1, <2>2 DEF FetchInv
<1>4. UpdateInv' /\ CleanInv' /\ ReplInv'
  BY <1>a DEF UpdateInv, CleanInv, ReplInv, Same, AllAnswered
<1>5. QED
  BY <1>2, <1>3, <1>4 DEF DataInv

\* The same for a replacement.
LEMMA MergedRepl ==
  ASSUME TypeOK, DataInv, UNCHANGED l1Vars, NEW d, d.data = latest,
         d.dirty \in SUBSET Burst, repl.valid, ~mshr.valid,
         mshr.data_valid = {}, repl.mem = "idle", repl'.mem = "idle",
         repl'.valid,
         repl'.data = MergeBursts(repl.data, d.data, d.dirty),
         repl'.data_valid = repl.data_valid \cup d.dirty,
         repl'.data_dirty = repl.data_dirty \cup d.dirty,
         "llc" \in repl'.wait <=> "llc" \in repl.wait,
         UNCHANGED <<mshr, llc, mem>>,
         \A x \in Cache : CopyInv(x)',
         \A x \in Cache, p \in Burst \ d.dirty :
            Carries(x, p) => Carries(x, p)'
  PROVE  DataInv'
<1>a. /\ ReplInv /\ CleanInv /\ latest' = latest
      /\ repl.data_valid \in SUBSET Burst
  BY DEF DataInv, l1Vars, TypeOK, ScuTypeOK, Repl
<1>1. \A p \in Burst : /\ p \in d.dirty => Same(repl'.data, latest, p)
                       /\ p \notin d.dirty => Same(repl'.data, repl.data, p)
  BY MergedBursts
<1>2. Covered'
  <2> SUFFICES ASSUME NEW p \in Burst, \A x \in Cache : ~Carries(x, p)'
               PROVE  Same(LowOf(p), latest, p)'
    BY DEF Covered
  <2>1. CASE p \in d.dirty
    <3>1. LowOf(p)' = repl'.data
      BY <2>1 DEF LowOf
    <3>2. QED
      BY <1>a, <1>1, <2>1, <3>1 DEF Same
  <2>2. CASE p \notin d.dirty
    <3>1. Same(LowOf(p), latest, p)
      BY <2>2 DEF DataInv, Covered
    <3>2. Same(LowOf(p)', LowOf(p), p)
      BY <1>1, <2>2 DEF LowOf, Same
    <3>3. QED
      BY <1>a, <3>1, <3>2 DEF Same
  <2>3. QED
    BY <2>1, <2>2
<1>3. ReplInv'
  <2>1. "llc" \in repl'.wait \/ repl'.data_valid = Burst
    BY <1>a DEF ReplInv
  <2>2. repl'.data_dirty = {} =>
            /\ \A p \in Burst : Same(llc'.data, mem', p)
            /\ \A p \in repl'.data_valid : Same(repl'.data, llc'.data, p)
    BY <1>a, <1>1 DEF ReplInv, Same
  <2>3. QED
    BY <2>1, <2>2 DEF ReplInv
<1>4. FetchInv' /\ UpdateInv' /\ CleanInv'
  BY <1>a DEF FetchInv, UpdateInv, CleanInv, Same
<1>5. QED
  BY <1>2, <1>3, <1>4 DEF DataInv

\* A snoop answer: with data, or without.
LEMMA SnpAckData ==
  ASSUME TypeOK, OneAgent, CohInv, DataInv, UNCHANGED l1Vars, NEW c \in Cache,
         RecvSnpAck(c)
  PROVE  DataInv'
<1> DEFINE a == snpAck[c]
<1>a. /\ mshr \in Mshr /\ repl \in Repl /\ a \in SnpAckMsg
      /\ snpAck \in [Cache -> SnpAckMsg]
  BY DEF TypeOK, ScuTypeOK, ChanTypeOK
<1>b. /\ ScuInv /\ SnoopInv(c) /\ FetchInv /\ SnoopLists /\ Stages
      /\ FreeEntries
  BY DEF CohInv, CacheInv, DataInv, ScuInv
<1>1. /\ UNCHANGED <<llc, mem, tagq, wbData, comp, ack>>
      /\ a.rtype # "None" /\ snpAck'[c] = NoSnpAck
      /\ \A x \in Cache : x # c => snpAck'[x] = snpAck[x]
  BY <1>a DEF RecvSnpAck
<1>2. /\ a.tid = "mshr" => Outstanding(mshr, c)
      /\ a.tid = "repl" => Outstanding(repl, c)
  BY <1>b, <1>1 DEF SnoopInv, OutstandingAt
<1>3. /\ a.rtype = "FoundM" => a.data = latest
      /\ a.dirty \in SUBSET Burst /\ a.tid \in {"mshr", "repl"}
  BY <1>a DEF DataInv, CopyInv, SnpAckMsg, ScuTid
<1>4. \A x \in Cache : snpAck'[x] = snpAck[x] \/ snpAck'[x].rtype # "FoundM"
  BY <1>1 DEF NoSnpAck
<1>5. ASSUME Open(c)' <=> Open(c), mshr'.full = mshr.full,
             \A x \in Cache : Open(x)' => Open(x)
      PROVE  \A x \in Cache : CopyInv(x)'
  BY <1>1, <1>4, <1>5, CopyFrame DEF DataInv
<1>6. \A x \in Cache, p \in Burst \ a.dirty : Carries(x, p) => Carries(x, p)'
  BY <1>1 DEF Carries, l1Vars
<1>7. CASE a.tid = "mshr"
  <2>1. /\ repl' = repl
        /\ mshr' = IF a.rtype = "FoundM"
                   THEN WithDataUpdate(GotSnpAck(mshr, c, a))
                   ELSE GotSnpAck(mshr, c, a)
    BY <1>7, <1>a DEF RecvSnpAck
  <2>2. /\ mshr.valid /\ c \in mshr.snp_sent /\ c \notin Answered(mshr)
        /\ c \in mshr.sharers
    BY <1>b, <1>2, <1>7 DEF Outstanding, Answered, SnoopLists
  <2>3. ~mshr.upd_enq /\ "dir" \in mshr.upd
    BY <1>b, <2>2 DEF Stages, AllAnswered, Answered
  <2>4. CASE a.rtype = "FoundM"
    <3>1. mshr' = WithDataUpdate([GotData(mshr, a) EXCEPT !.snp_data = {c}])
      BY <2>1, <2>4 DEF GotSnpAck
    <3>2. /\ mshr'.valid /\ ~mshr'.upd_enq
          /\ mshr'.upd = mshr.upd \cup {"data"}
          /\ mshr'.data = MergeBursts(mshr.data, a.data, a.dirty)
          /\ mshr'.data_valid = mshr.data_valid \cup a.dirty
          /\ mshr'.data_dirty = mshr.data_dirty \cup a.dirty
          /\ mshr'.wait = mshr.wait \ {"wb"}
          /\ mshr'.dirty <=> mshr.dirty
          /\ mshr'.full = mshr.full /\ mshr'.cid = mshr.cid
      BY <1>a, <2>2, <2>3, <3>1 DEF WithDataUpdate, GotData, Mshr
    <3>3. "mem" \notin mshr.wait
      BY <1>b, <2>2, <2>3 DEF FetchInv
    <3>4. \A x \in Cache : Open(x)' <=> Open(x)
      BY <1>1, <2>2, <3>2 DEF Open, Served
    <3>5. /\ mshr'.wait \subseteq mshr.wait
          /\ "llc" \in mshr'.wait <=> "llc" \in mshr.wait
      BY <3>2
    <3>6. QED
      BY <1>1, <1>3, <1>5, <1>6, <2>1, <2>2, <2>3, <2>4, <3>2, <3>3, <3>4,
         <3>5, MergedMshr
  <2>5. CASE a.rtype # "FoundM"
    <3>1. /\ SupplyKept /\ mshr'.cid = mshr.cid
          /\ "ack" \in mshr'.wait <=> "ack" \in mshr.wait
      <4>1. mshr' = GotSnpAck(mshr, c, a)
        BY <2>1, <2>5
      <4>2. repl.valid /\ repl.mem # "idle"
               => repl.wait = {} /\ AllAnswered(repl)
        BY DEF DataInv, ReplInv
      <4>3. /\ mshr'.valid <=> mshr.valid
            /\ mshr'.full = mshr.full /\ mshr'.sharers = mshr.sharers
            /\ mshr'.dirty <=> mshr.dirty
            /\ mshr'.data = mshr.data /\ mshr'.data_valid = mshr.data_valid
            /\ mshr'.data_dirty = mshr.data_dirty /\ mshr'.upd = mshr.upd
            /\ mshr'.wait = mshr.wait
            /\ mshr'.upd_enq <=> mshr.upd_enq
            /\ mshr'.cid = mshr.cid
        <5>1. CASE a.rtype = "FoundI"
          BY <1>a, <4>1, <5>1 DEF Mshr, GotSnpAck
        <5>2. CASE a.rtype # "FoundI"
          BY <1>a, <2>5, <4>1, <5>2 DEF Mshr, GotSnpAck
        <5>3. QED
          BY <5>1, <5>2
      <4>4. QED
        BY <1>1, <2>1, <4>2, <4>3 DEF SupplyKept
    <3>2. \A x \in Cache : Open(x)' <=> Open(x)
      BY <1>1, <3>1 DEF Open, Served, SupplyKept
    <3>3. \A x \in Cache : \/ snpAck'[x] = snpAck[x]
                           \/ /\ snpAck[x].rtype # "FoundM"
                              /\ snpAck'[x].rtype # "FoundM"
      BY <1>1, <1>4, <2>5
    <3>4. QED
      BY <1>1, <3>1, <3>2, <3>3, SupplyFrame
  <2>6. QED
    BY <2>4, <2>5
<1>8. CASE a.tid = "repl"
  <2>1. mshr' = mshr /\ repl' = GotSnpAck(repl, c, a)
    BY <1>8, <1>a DEF RecvSnpAck
  <2>2. /\ repl.valid /\ c \in repl.snp_sent /\ c \notin Answered(repl)
        /\ ~mshr.valid /\ mshr.data_valid = {}
    BY <1>b, <1>2, <1>8 DEF Outstanding, Answered, OneAgent, FreeEntries,
                            NoMshr
  <2>3. repl.mem = "idle"
    BY <1>b, <2>2, ReplSettled
  <2>4. \A x \in Cache : Open(x)' <=> Open(x)
    BY <1>1, <2>1 DEF Open, Served
  <2>5. CASE a.rtype = "FoundM"
    <3>1. repl' = [GotData(repl, a) EXCEPT !.snp_data = {c}]
      BY <2>1, <2>5 DEF GotSnpAck
    <3>2. /\ repl'.valid /\ repl'.mem = repl.mem
          /\ repl'.data = MergeBursts(repl.data, a.data, a.dirty)
          /\ repl'.data_valid = repl.data_valid \cup a.dirty
          /\ repl'.data_dirty = repl.data_dirty \cup a.dirty
          /\ "llc" \in repl'.wait <=> "llc" \in repl.wait
      BY <1>a, <2>2, <3>1 DEF GotData, Repl
    <3>3. QED
      BY <1>1, <1>3, <1>5, <1>6, <2>1, <2>2, <2>3, <2>4, <2>5, <3>2, MergedRepl
  <2>6. CASE a.rtype # "FoundM"
    <3>1. SupplyKept
      <4>1. CASE a.rtype = "FoundI"
        BY <1>a, <1>1, <2>1, <2>3, <4>1 DEF SupplyKept, Repl, GotSnpAck
      <4>2. CASE a.rtype # "FoundI"
        BY <1>a, <1>1, <2>1, <2>3, <2>6, <4>2 DEF SupplyKept, Repl, GotSnpAck
      <4>3. QED
        BY <4>1, <4>2
    <3>2. \A x \in Cache : \/ snpAck'[x] = snpAck[x]
                           \/ /\ snpAck[x].rtype # "FoundM"
                              /\ snpAck'[x].rtype # "FoundM"
      BY <1>1, <1>4, <2>6
    <3>3. QED
      BY <1>1, <2>4, <3>1, <3>2, SupplyFrame
  <2>7. QED
    BY <2>5, <2>6
<1>9. QED
  BY <1>3, <1>7, <1>8

\* Write-back data.
LEMMA WbDataData ==
  ASSUME TypeOK, OneAgent, CohInv, DataInv, UNCHANGED l1Vars, NEW c \in Cache,
         RecvWbData(c)
  PROVE  DataInv'
<1> DEFINE d == wbData[c]
<1>a. /\ mshr \in Mshr /\ repl \in Repl /\ d \in WbDataMsg
      /\ wbData \in [Cache -> WbDataMsg]
  BY DEF TypeOK, ScuTypeOK, ChanTypeOK
<1>b. /\ ScuInv /\ EvictInv(c) /\ DirInv(c) /\ FetchInv /\ Kinds /\ Stages
      /\ FreeEntries /\ Fifos
  BY DEF CohInv, CacheInv, DataInv, ScuInv
<1>1. /\ UNCHANGED <<llc, mem, tagq, snpAck, comp, ack>>
      /\ d.vld /\ wbData'[c] = NoWbData
      /\ \A x \in Cache : x # c => wbData'[x] = wbData[x]
  BY <1>a DEF RecvWbData
<1>2. /\ d.tid = "mshr" => Awaiting(mshr, c)
      /\ d.tid = "repl" => Awaiting(repl, c)
  BY <1>b, <1>1 DEF EvictInv, AwaitingAt
<1>3. /\ d.data = latest
      /\ d.dirty \in SUBSET Burst /\ d.tid \in {"mshr", "repl"}
  BY <1>a, <1>1 DEF DataInv, CopyInv, WbDataMsg, ScuTid
<1>4. \A x \in Cache : wbData'[x] = wbData[x] \/ ~wbData'[x].vld
  BY <1>1 DEF NoWbData
<1>5. ASSUME mshr'.full = mshr.full, \A x \in Cache : Open(x)' => Open(x)
      PROVE  \A x \in Cache : CopyInv(x)'
  BY <1>1, <1>4, <1>5, CopyFrame DEF DataInv
<1>6. \A x \in Cache, p \in Burst \ d.dirty : Carries(x, p) => Carries(x, p)'
  BY <1>1 DEF Carries, l1Vars
<1>7. CASE d.tid = "mshr"
  <2>1. repl' = repl /\ mshr' = WithDataUpdate(GotData(mshr, d))
    BY <1>7, <1>a DEF RecvWbData
  <2>2. mshr.valid /\ "wb" \in mshr.wait /\ mshr.wb_cid = c /\ Hot(c)
    BY <1>2, <1>7 DEF Awaiting, Hot, Awaited
  <2>3. ~mshr.upd_enq /\ "dir" \in mshr.upd
    BY <1>b, <2>2 DEF Stages
  <2>4. c \in mshr.sharers
    <3>1. CASE c # mshr.cid
      BY <1>b, <2>2, <2>3, <3>1 DEF DirInv
    <3>2. CASE c = mshr.cid
      BY <1>b, <2>2, <3>2 DEF Fifos, Kinds, Leaves
    <3>3. QED
      BY <3>1, <3>2
  <2>5. "mem" \notin mshr.wait
    BY <1>b, <2>2, <2>3, <2>4 DEF FetchInv
  <2>6. /\ mshr'.valid /\ ~mshr'.upd_enq
        /\ mshr'.upd = mshr.upd \cup {"data"}
        /\ mshr'.data = MergeBursts(mshr.data, d.data, d.dirty)
        /\ mshr'.data_valid = mshr.data_valid \cup d.dirty
        /\ mshr'.data_dirty = mshr.data_dirty \cup d.dirty
        /\ mshr'.wait = mshr.wait \ {"wb"}
        /\ mshr'.dirty <=> mshr.dirty
        /\ mshr'.full = mshr.full /\ mshr'.cid = mshr.cid
    BY <1>a, <2>1, <2>2, <2>3 DEF WithDataUpdate, GotData, Mshr
  <2>7. \A x \in Cache : Open(x)' <=> Open(x)
    BY <1>1, <2>2, <2>6 DEF Open, Served
  <2>8. /\ mshr'.wait \subseteq mshr.wait
        /\ "llc" \in mshr'.wait <=> "llc" \in mshr.wait
    BY <2>6
  <2>9. QED
    BY <1>1, <1>3, <1>5, <1>6, <2>1, <2>2, <2>3, <2>5, <2>6, <2>7, <2>8,
       MergedMshr
<1>8. CASE d.tid = "repl"
  <2>1. mshr' = mshr /\ repl' = GotData(repl, d)
    BY <1>8, <1>a DEF RecvWbData
  <2>2. /\ repl.valid /\ "wb" \in repl.wait
        /\ ~mshr.valid /\ mshr.data_valid = {}
    BY <1>b, <1>2, <1>8 DEF Awaiting, OneAgent, FreeEntries, NoMshr
  <2>3. repl.mem = "idle"
    BY <1>b, <2>2, ReplSettled
  <2>4. \A x \in Cache : Open(x)' <=> Open(x)
    BY <1>1, <2>1 DEF Open, Served
  <2>5. /\ repl'.valid /\ repl'.mem = repl.mem
        /\ repl'.data = MergeBursts(repl.data, d.data, d.dirty)
        /\ repl'.data_valid = repl.data_valid \cup d.dirty
        /\ repl'.data_dirty = repl.data_dirty \cup d.dirty
        /\ "llc" \in repl'.wait <=> "llc" \in repl.wait
    BY <1>a, <2>1, <2>2 DEF GotData, Repl
  <2>6. QED
    BY <1>1, <1>3, <1>5, <1>6, <2>1, <2>2, <2>3, <2>4, <2>5, MergedRepl
<1>9. QED
  BY <1>3, <1>7, <1>8

\* A step of the SCU that keeps the messages and the copies as they are.
LEMMA QuietCopies ==
  ASSUME DataInv, UNCHANGED l1Vars, UNCHANGED <<snpAck, wbData, comp>>,
         \A x \in Cache : Open(x)' => Open(x) /\ mshr'.full = mshr.full
  PROVE  /\ \A x \in Cache : CopyInv(x)'
         /\ \A x \in Cache, p \in Burst : Carries(x, p)' <=> Carries(x, p)
<1>1. \A x \in Cache : CopyInv(x)'
  BY CopyFrame DEF DataInv
<1>2. \A x \in Cache, p \in Burst : Carries(x, p)' <=> Carries(x, p)
  BY DEF Carries, l1Vars
<1>3. QED
  BY <1>1, <1>2

\* Then it is enough that the SCU's supply of each burst stays what it was.
LEMMA SupplySame ==
  ASSUME DataInv, UNCHANGED l1Vars,
         \A x \in Cache, p \in Burst : Carries(x, p)' <=> Carries(x, p),
         \A p \in Burst : (\A x \in Cache : ~Carries(x, p))
                             => Same(LowOf(p)', LowOf(p), p)
  PROVE  Covered'
<1> SUFFICES ASSUME NEW p \in Burst, \A x \in Cache : ~Carries(x, p)'
             PROVE  Same(LowOf(p), latest, p)'
  BY DEF Covered
<1>1. Same(LowOf(p), latest, p) /\ Same(LowOf(p)', LowOf(p), p)
  BY DEF DataInv, Covered
<1>2. QED
  BY <1>1 DEF Same, l1Vars

\* What memory or the data RAM supplies.
LEMMA ReadData ==
  ASSUME TypeOK, OneAgent, CohInv, DataInv, UNCHANGED l1Vars,
         MemRead \/ LlcRead
  PROVE  DataInv'
<1>a. /\ mshr \in Mshr /\ llc \in Llc /\ FetchInv /\ FreeEntries /\ Stages
      /\ CleanInv
  BY DEF TypeOK, ScuTypeOK, DataInv, CohInv, ScuInv
<1>1. UNCHANGED <<llc, mem, repl, tagq, snpAck, wbData, comp, ack>>
  BY DEF MemRead, LlcRead, chanVars
<1>2. mshr.wait # {}
  BY DEF MemRead, LlcRead
<1>3. /\ mshr.valid /\ ~repl.valid /\ repl.data_valid = {}
      /\ "dir" \in mshr.upd /\ ~mshr.upd_enq
  BY <1>a, <1>2 DEF FreeEntries, NoMshr, NoRepl, OneAgent, Stages
<1>4. /\ mshr'.valid /\ mshr'.upd = mshr.upd /\ ~mshr'.upd_enq
      /\ mshr'.data_valid = Burst /\ mshr'.data_dirty = mshr.data_dirty
      /\ mshr'.dirty <=> mshr.dirty
      /\ mshr'.full = mshr.full /\ mshr'.cid = mshr.cid
      /\ "ack" \in mshr'.wait <=> "ack" \in mshr.wait
      /\ mshr'.wait \subseteq mshr.wait
      /\ mshr'.sharers = mshr.sharers
  <2>1. CASE MemRead
    BY <1>a, <1>3, <2>1 DEF MemRead, Mshr
  <2>2. CASE LlcRead
    BY <1>a, <1>3, <2>2 DEF LlcRead, GotLlcData, Mshr
  <2>3. QED
    BY <2>1, <2>2
<1>5. \A p \in Burst : Same(mshr'.data, LowOf(p), p)
  <2>1. CASE MemRead
    <3>1. "mem" \in mshr.wait /\ mshr'.data = mem
      BY <1>a, <2>1 DEF MemRead, Mshr
    <3>2. mshr.data_valid = {} /\ ~llc.valid
      BY <1>a, <1>3, <3>1 DEF FetchInv
    <3>3. QED
      BY <1>3, <3>1, <3>2 DEF LowOf, Same
  <2>2. CASE LlcRead
    <3>1. /\ "llc" \in mshr.wait
          /\ mshr'.data = MergeBursts(mshr.data, llc.data,
                                      Burst \ mshr.data_valid)
      BY <1>a, <2>2 DEF LlcRead, GotLlcData, Mshr
    <3>2. llc.valid
      BY <1>a, <1>3, <3>1 DEF FetchInv
    <3>3. \A p \in Burst : IF p \in mshr.data_valid
                           THEN Same(mshr'.data, mshr.data, p)
                           ELSE Same(mshr'.data, llc.data, p)
      BY <3>1, MergedBursts
    <3>4. QED
      BY <1>3, <3>2, <3>3 DEF LowOf
  <2>3. QED
    BY <2>1, <2>2
<1>6. "mem" \notin mshr'.wait
  <2>1. CASE MemRead
    BY <1>a, <2>1 DEF MemRead, Mshr
  <2>2. CASE LlcRead
    BY <1>a, <1>3, <1>4, <2>2 DEF LlcRead, FetchInv
  <2>3. QED
    BY <2>1, <2>2
<1>7. \A x \in Cache : Open(x)' => Open(x) /\ mshr'.full = mshr.full
  BY <1>1, <1>3, <1>4 DEF Open, Served
<1>8. /\ \A x \in Cache : CopyInv(x)'
      /\ \A x \in Cache, p \in Burst : Carries(x, p)' <=> Carries(x, p)
  BY <1>1, <1>7, QuietCopies
<1>9. Covered'
  <2>1. \A p \in Burst : LowOf(p)' = mshr'.data
    BY <1>4 DEF LowOf
  <2>2. QED
    BY <1>5, <1>8, <2>1, SupplySame
<1>10. FetchInv'
  <2>1. Start' = Start
    BY <1>1 DEF Start
  <2>2. \A p \in Burst \ mshr.data_dirty : Same(LowOf(p), Start, p)
    BY <1>a, <1>3 DEF FetchInv, LowOf, Start, Same
  <2>3. \A p \in mshr'.data_valid \ mshr'.data_dirty :
          Same(mshr'.data, Start, p)
    BY <1>4, <1>5, <2>2 DEF Same
  <2>4. QED
    BY <1>a, <1>1, <1>3, <1>4, <1>6, <2>1, <2>3 DEF FetchInv
<1>11. UpdateInv' /\ CleanInv' /\ ReplInv'
  BY <1>a, <1>1, <1>3, <1>4 DEF UpdateInv, CleanInv, ReplInv, Same
<1>12. QED
  BY <1>8, <1>9, <1>10, <1>11 DEF DataInv

\* The data RAM read of a replacement.
LEMMA ReplReadData ==
  ASSUME TypeOK, OneAgent, CohInv, DataInv, UNCHANGED l1Vars, ReplLlcRead
  PROVE  DataInv'
<1>a. /\ repl \in Repl /\ FreeEntries /\ CleanInv /\ ReplInv
  BY DEF TypeOK, ScuTypeOK, DataInv, CohInv, ScuInv
<1>1. UNCHANGED <<mshr, llc, mem, tagq, snpAck, wbData, comp, ack>>
  BY DEF ReplLlcRead, chanVars
<1>2. "llc" \in repl.wait
  BY DEF ReplLlcRead
<1>3. /\ repl.valid /\ ~mshr.valid /\ mshr.data_valid = {} /\ repl.mem = "idle"
  BY <1>a, <1>2 DEF FreeEntries, NoMshr, NoRepl, OneAgent, ReplInv
<1>4. /\ repl'.valid /\ repl'.mem = "idle"
      /\ repl'.data_valid = Burst /\ repl'.data_dirty = repl.data_dirty
      /\ repl'.data = MergeBursts(repl.data, llc.data, Burst \ repl.data_valid)
  BY <1>a, <1>3 DEF ReplLlcRead, GotLlcData, Repl
<1>5. \A p \in Burst : IF p \in repl.data_valid
                       THEN Same(repl'.data, repl.data, p)
                       ELSE Same(repl'.data, llc.data, p)
  BY <1>4, MergedBursts
<1>6. \A p \in Burst : Same(repl'.data, LowOf(p), p)
  BY <1>3, <1>5 DEF LowOf
<1>7. \A x \in Cache : Open(x)' => Open(x) /\ mshr'.full = mshr.full
  BY <1>1 DEF Open, Served
<1>8. /\ \A x \in Cache : CopyInv(x)'
      /\ \A x \in Cache, p \in Burst : Carries(x, p)' <=> Carries(x, p)
  BY <1>1, <1>7, QuietCopies
<1>9. Covered'
  <2>1. \A p \in Burst : LowOf(p)' = repl'.data
    BY <1>1, <1>3, <1>4 DEF LowOf
  <2>2. QED
    BY <1>6, <1>8, <2>1, SupplySame
<1>10. ReplInv'
  <2>1. repl.data_dirty = {} =>
            /\ \A p \in Burst : Same(llc.data, mem, p)
            /\ \A p \in Burst : Same(repl'.data, llc.data, p)
    BY <1>a, <1>3, <1>5 DEF ReplInv, Same
  <2>2. QED
    BY <1>1, <1>4, <2>1 DEF ReplInv
<1>11. FetchInv' /\ UpdateInv' /\ CleanInv'
  BY <1>a, <1>1, <1>3 DEF FetchInv, UpdateInv, CleanInv, Same
<1>12. QED
  BY <1>8, <1>9, <1>10, <1>11 DEF DataInv

\* The data of an answer is current.
LEMMA SendDataData ==
  ASSUME TypeOK, RequestorKnown, LineInOnePlace, OneAgent, CohInv, DataInv,
         UNCHANGED l1Vars, SendData
  PROVE  DataInv'
<1>a. /\ comp \in [Cache -> CompMsg] /\ FreeEntries /\ Stages /\ Fifos
      /\ \A x \in Cache : CopyInv(x)
      /\ repl.valid /\ repl.mem # "idle" => repl.wait = {} /\ AllAnswered(repl)
  BY DEF TypeOK, ChanTypeOK, DataInv, CohInv, ScuInv, ReplInv
<1>1. /\ dataq /\ comp' = [comp EXCEPT ![mshr.cid] = CompOf(mshr)]
      /\ UNCHANGED <<mshr, llc, mem, repl, tagq, snpAck, wbData, ack>>
  BY DEF SendData
<1>2. /\ mshr.valid /\ mshr.rtype \in {"ReadShared", "ReadUnique"}
      /\ mshr.resp_enq /\ "ack" \in mshr.wait
  BY <1>a, <1>1 DEF FreeEntries, Fifos
<1>3. PICK c \in Cache : c = mshr.cid
  <2>1. mshr.rtype # "None"
    BY <1>2
  <2>2. QED
    BY <2>1 DEF RequestorKnown
<1>4. Open(c) /\ mreq[c].phase = "sent" /\ MissInv(c)
  <2>1. MissInv(c) /\ Queued
    BY <1>1, <1>3 DEF CohInv, CacheInv, Queued
  <2>2. QED
    BY <1>2, <1>3, <2>1 DEF MissInv, Open, Served
<1>5. \A x \in Cache : ~Hot(x)
  BY <1>2, <1>3, <1>4, AnsweredClean
<1>6. mshr.data_valid = Burst
  BY <1>a, <1>2 DEF Stages
<1>7. \A p \in Burst : Same(mshr.data, latest, p)
  BY <1>3, <1>5, <1>6, CarriesHot DEF DataInv, Covered, LowOf
<1>8. mshr.rtype = "ReadUnique" =>
         mreq[c].store /\ mshr.full \subseteq FullyIn(mreq[c].mask)
  BY <1>a, <1>3, <1>4 DEF MissInv, CopyInv
<1>9. CopyInv(c)'
  <2>1. comp'[c] = CompOf(mshr) /\ CopyInv(c)
    BY <1>a, <1>1, <1>3
  <2>2. UNCHANGED <<st, dat, mreq, ewrq, latest>>
    BY DEF l1Vars
  <2>3. ASSUME NEW p \in Burst
        PROVE  IF p \in comp'[c].valid THEN Same(comp'[c].data, latest, p)
               ELSE mreq[c].store /\ p \subseteq mreq[c].mask
    <3>1. comp'[c].data = mshr.data
      BY <2>1 DEF CompOf
    <3>2. CASE mshr.rtype = "ReadUnique"
      <4>1. comp'[c].valid = Burst \ mshr.full
        BY <1>6, <2>1, <3>2 DEF CompOf
      <4>2. QED
        BY <1>7, <1>8, <3>1, <3>2, <4>1 DEF FullyIn
    <3>3. CASE mshr.rtype = "ReadShared"
      <4>1. comp'[c].valid = Burst
        BY <1>6, <2>1, <3>3 DEF CompOf
      <4>2. QED
        BY <1>7, <3>1, <4>1
    <3>4. QED
      BY <1>2, <3>2, <3>3
  <2>4. Open(c)' <=> Open(c)
    BY <1>1 DEF Open, Served
  <2>5. /\ st'[c] # "I" => dat'[c] = latest'
        /\ ewrq'[c].wb => ewrq'[c].data = latest'
        /\ snpAck'[c].rtype = "FoundM" => snpAck'[c].data = latest'
        /\ wbData'[c].vld => wbData'[c].data = latest'
    BY <1>1, <2>1, <2>2 DEF CopyInv
  <2>6. Open(c)' /\ mreq'[c].phase = "sent" /\ mreq'[c].store
          => mshr'.full \subseteq FullyIn(mreq'[c].mask)
    BY <1>1, <2>1, <2>2, <2>4 DEF CopyInv
  <2>7. \A p \in Burst :
           IF p \in comp'[c].valid THEN Same(comp'[c].data, latest', p)
           ELSE mreq'[c].store /\ p \subseteq mreq'[c].mask
    BY <2>2, <2>3
  <2>8. QED
    BY <2>5, <2>6, <2>7 DEF CopyInv
<1>10. ASSUME NEW x \in Cache, x # c PROVE CopyInv(x)'
  <2>1. comp'[x] = comp[x] /\ CopyInv(x)
    BY <1>a, <1>1, <1>3, <1>10
  <2>2. Open(x)' <=> Open(x)
    BY <1>1 DEF Open, Served
  <2>3. QED
    BY <1>1, <2>1, <2>2, CopyFrame
<1>11. Covered'
  BY <1>1 DEF DataInv, Covered, Carries, LowOf, Same, l1Vars
<1>12. FetchInv' /\ UpdateInv' /\ CleanInv' /\ ReplInv'
  BY <1>1 DEF DataInv, FetchInv, UpdateInv, CleanInv, ReplInv, Start, Same,
              AllAnswered
<1>13. QED
  BY <1>9, <1>10, <1>11, <1>12 DEF DataInv

\* What a new entry knows of the data, whatever the case of the lookup: the
\* line is to be read from where it is, and the dirty bit is the LLC's.
FreshData(m, full) ==
    /\ m.full = full /\ m.data_valid = {} /\ m.data_dirty = {}
    /\ "mem" \in m.wait => ~llc.valid /\ m.sharers = {}
    /\ "llc" \in m.wait => llc.valid
    /\ "data" \notin m.upd => llc.valid
    /\ m.dirty <=> llc.valid /\ llc.dirty

\* The case statement of s2 makes such an entry (NewMshr).
LEMMA NewMshrData ==
  ASSUME ScuTypeOK, NEW c \in Cache, NEW full \in SUBSET Burst,
         NEW rtype \in (ReqType \cup EvictType) \ {"None"}
  PROVE  FreshData(NewMshr(BlankMshr(rtype, c, full)), full)
<1> DEFINE m == BlankMshr(rtype, c, full)
<1>1. m \in Mshr
  BY EmptyEntryTypes DEF BlankMshr, Mshr, ScuTypeOK, Llc, ReqType, EvictType
<1>2. /\ m.full = full /\ m.data_valid = {} /\ m.data_dirty = {}
      /\ m.wait = {} /\ m.dirty = llc.dirty /\ m.cid = c
  BY DEF BlankMshr, NoMshr
<1>3. llc \in Llc
  BY DEF ScuTypeOK
<1> HIDE DEF m
<1>4. CASE ~llc.valid
  <2>1. NewMshr(m) = MissMshr(m)
    BY <1>4 DEF NewMshr, DirHit, LlcHit
  <2>2. /\ MissMshr(m).full = full /\ MissMshr(m).data_valid = {}
        /\ MissMshr(m).data_dirty = {} /\ MissMshr(m).sharers = {}
        /\ MissMshr(m).wait = {"mem", "ack"}
        /\ MissMshr(m).upd = {"data", "dir"} /\ ~MissMshr(m).dirty
    BY <1>1, <1>2 DEF MissMshr, Mshr
  <2>3. QED
    BY <1>4, <2>1, <2>2 DEF FreshData, m
<1>5. CASE llc.valid
  <2> DEFINE Keeps(n) == /\ n.full = full /\ n.data_valid = {}
                         /\ n.data_dirty = {} /\ "mem" \notin n.wait
                         /\ n.dirty <=> llc.dirty
  <2>1. Keeps(m)
    BY <1>2
  <2>2. Keeps(LlcHitMshr(m))
    BY <1>1, <1>2 DEF LlcHitMshr, Mshr
  <2>3. Keeps(EvictMshr(m)) /\ Keeps(WriteBackMshr(m))
    BY <1>1, <1>2 DEF EvictMshr, WriteBackMshr, Mshr
  <2>4. Keeps(SnoopingMshr(LlcHitMshr(m), FALSE))
    BY <1>1, <1>2 DEF SnoopingMshr, LlcHitMshr, Mshr
  <2>5. Keeps(UniqueMshr(m))
    BY <1>1, <1>2 DEF UniqueMshr, SnoopingMshr, Mshr
  <2>6. Keeps(UpgradeMshr(m))
    <3>1. CASE m.sharers = {m.cid}
      BY <1>1, <1>2, <3>1 DEF UpgradeMshr, Mshr
    <3>2. CASE m.sharers # {m.cid}
      <4>1. UpgradeMshr(m) = SnoopingMshr([m EXCEPT !.wait = {"ack"},
                                                    !.upd = {"dir"}], TRUE)
        BY <3>2, <1>1 DEF UpgradeMshr, Mshr
      <4>2. QED
        BY <1>1, <1>2, <4>1 DEF SnoopingMshr, Mshr
    <3>3. QED
      BY <3>1, <3>2
  <2> HIDE DEF Keeps
  <2>7. Keeps(SharedMshr(m))
    BY <2>1, <2>2, <2>3, <2>5, <2>6 DEF SharedMshr
  <2>8. Keeps(OwnedMshr(m))
    BY <2>1, <2>3, <2>4, <2>5 DEF OwnedMshr
  <2>9. Keeps(NewMshr(m))
    BY <1>5, <2>2, <2>7, <2>8 DEF NewMshr, DirHit, LlcHit
  <2>10. QED
    BY <1>5, <2>9 DEF Keeps, FreshData, m
<1>6. QED
  BY <1>4, <1>5

\* Allocation moves no data.
LEMMA AllocData ==
  ASSUME TypeOK, TypeOK', CohInv, CohInv', DataInv, UNCHANGED l1Vars,
         NEW c \in Cache, AcceptReq(c) \/ EvictNew(c)
  PROVE  DataInv'
<1>a. /\ ScuTypeOK /\ ChanTypeOK /\ ScuInv /\ CleanInv
      /\ Kinds' /\ Stages'
      /\ MissInv(c) /\ SetFree /\ \A x \in Cache : MissInv(x)'
  BY DEF TypeOK, CohInv, ScuInv, DataInv, CacheInv, AcceptReq, EvictNew
<1>1. UNCHANGED <<llc, mem, repl, snpAck, wbData, comp, ack>>
  BY DEF AcceptReq, EvictNew, EvictTaken
<1>2. mshr = NoMshr /\ repl = NoRepl
  BY <1>a DEF ScuInv, FreeEntries, SetFree
<1>3. PICK full \in SUBSET Burst,
           rtype \in (ReqType \cup EvictType) \ {"None"} :
         /\ mshr' = NewMshr(BlankMshr(rtype, c, full))
         /\ AcceptReq(c) => /\ req[c].rtype # "None" /\ full = req[c].full
         /\ ~AcceptReq(c) =>
              rtype \in {"Evict", "WriteBackPartial"} /\ EvictNew(c)
  <2>1. CASE AcceptReq(c)
    BY <1>a, <2>1 DEF AcceptReq, Allocate, ChanTypeOK, ReqMsg
  <2>2. CASE ~AcceptReq(c)
    <3>1. evt[c] \in EvictType \ {"None"} /\ EvictNew(c)
      BY <1>a, <2>2 DEF EvictNew, EvictTaken, ChanTypeOK
    <3>2. mshr' = NewMshr(BlankMshr(evt[c], c, {}))
      BY <3>1 DEF EvictNew, Allocate
    <3>3. QED
      BY <2>2, <3>1, <3>2 DEF EvictType
  <2>3. QED
    BY <2>1, <2>2
<1>4. FreshData(mshr', full)
  BY <1>a, <1>3, NewMshrData
<1>5. /\ Fresh(mshr', c)
      /\ "ack" \in mshr'.wait => AcceptReq(c) /\ full = req[c].full
  <2>1. CASE AcceptReq(c)
    <3>1. /\ req[c].rtype # "None"
          /\ mshr' = NewMshr(BlankMshr(req[c].rtype, c, req[c].full))
      BY <2>1 DEF AcceptReq, Allocate
    <3>2. req[c].full \in SUBSET Burst /\ req[c].rtype \in ReqType
      BY <1>a DEF ChanTypeOK, ReqMsg
    <3>3. FreshAsks(mshr', c, req[c].rtype)
      BY <1>a, <3>1, <3>2, RequestMshr DEF ReqType
    <3>4. QED
      BY <1>3, <2>1, <3>3 DEF FreshAsks
  <2>2. CASE ~AcceptReq(c)
    <3>1. /\ SetFree /\ evt[c] # "None"
          /\ mshr' = NewMshr(BlankMshr(evt[c], c, {}))
      BY <2>2 DEF EvictNew, Allocate, EvictTaken
    <3>2. evt[c] \in {"Evict", "WriteBackPartial"}
      BY <1>a, <3>1 DEF ChanTypeOK, EvictType
    <3>3. Present(c) /\ (evt[c] = "WriteBackPartial" => Owns(c))
      BY <3>1 DEF Present, Owns, CohInv, CacheInv, EvictInv
    <3>4. llc.valid /\ c \in llc.sharers
          /\ (evt[c] = "WriteBackPartial" => llc.owner)
      BY <3>1, <3>3, QuietLine DEF CohInv
    <3>5. /\ Fresh(mshr', c)
          /\ mshr'.wait = IF evt[c] = "Evict" THEN {} ELSE {"llc", "wb"}
      BY <1>a, <3>1, <3>2, <3>4, EvictionMshr
    <3>6. QED
      BY <3>5
  <2>3. QED
    BY <2>1, <2>2
<1>6. \A x \in Cache : Open(x)' => x = c /\ AcceptReq(c) /\ full = req[c].full
  BY <1>5 DEF Open, Served, Fresh
<1>7. ASSUME NEW x \in Cache PROVE CopyInv(x)'
  <2>1. CopyInv(x) /\ MissInv(c)
    BY DEF DataInv, CohInv, CacheInv
  <2>2. UNCHANGED <<st, dat, mreq, ewrq, latest>>
    BY DEF l1Vars
  <2>3. /\ st'[x] # "I" => dat'[x] = latest'
        /\ ewrq'[x].wb => ewrq'[x].data = latest'
        /\ snpAck'[x].rtype = "FoundM" => snpAck'[x].data = latest'
        /\ wbData'[x].vld => wbData'[x].data = latest'
    BY <1>1, <2>1, <2>2 DEF CopyInv
  <2>4. Open(x)' /\ mreq'[x].phase = "sent" /\ mreq'[x].store
          => mshr'.full \subseteq FullyIn(mreq'[x].mask)
    <3> SUFFICES ASSUME Open(x)', mreq'[x].store
                 PROVE  mshr'.full \subseteq FullyIn(mreq'[x].mask)
      OBVIOUS
    <3>1. x = c /\ AcceptReq(c) /\ full = req[c].full
      BY <1>6
    <3>2. req[c] = ReqOf(mreq[c])
      BY <2>1, <3>1 DEF AcceptReq, MissInv
    <3>3. req[c].full \subseteq FullyIn(mreq[c].mask)
      BY <2>2, <3>1, <3>2 DEF ReqOf
    <3>4. QED
      BY <1>4, <2>2, <3>1, <3>3 DEF FreshData
  <2>5. HasData(comp'[x].rtype) =>
          \A p \in Burst :
            IF p \in comp'[x].valid THEN Same(comp'[x].data, latest', p)
            ELSE mreq'[x].store /\ p \subseteq mreq'[x].mask
    BY <1>1, <2>1, <2>2 DEF CopyInv
  <2>6. QED
    BY <2>3, <2>4, <2>5 DEF CopyInv
<1>8. Covered'
  <2>1. mshr.data_valid = {} /\ mshr'.data_valid = {}
    BY <1>2, <1>4 DEF NoMshr, FreshData
  <2>2. \A p \in Burst : LowOf(p)' = LowOf(p)
    BY <1>1, <2>1 DEF LowOf
  <2>3. \A x \in Cache, p \in Burst : Carries(x, p)' <=> Carries(x, p)
    BY <1>1 DEF Carries, l1Vars
  <2>4. QED
    BY <2>2, <2>3 DEF DataInv, Covered, Same, l1Vars
<1>9. FetchInv'
  BY <1>1, <1>4, <1>5 DEF FetchInv, FreshData, Fresh
<1>10. UpdateInv' /\ CleanInv' /\ ReplInv'
  <2>1. "dir" \in mshr'.upd
    BY <1>5 DEF Fresh
  <2>2. ~mshr.valid /\ ~repl.valid
    BY <1>2 DEF NoMshr, NoRepl
  <2>3. QED
    BY <1>a, <1>1, <2>1, <2>2 DEF UpdateInv, CleanInv, ReplInv, Same
<1>11. QED
  BY <1>7, <1>8, <1>9, <1>10 DEF DataInv

\* The tag is written: what was fetched is now on its way to the data RAM, or
\* is there already.
LEMMA TagWriteData ==
  ASSUME TypeOK, OneAgent, WritesOwned, CohInv, DataInv, UNCHANGED l1Vars,
         TagWrite
  PROVE  DataInv'
<1>a. /\ mshr \in Mshr /\ llc \in Llc /\ FetchInv /\ FreeEntries /\ Stages
      /\ Kinds /\ CleanInv
  BY DEF TypeOK, ScuTypeOK, DataInv, CohInv, ScuInv
<1>1. UNCHANGED <<mem, repl, snpAck, wbData, comp, ack>>
  BY DEF TagWrite, chanVars
<1>2. /\ mshr.valid /\ "dir" \in mshr.upd /\ mshr.upd_enq
      /\ ~repl.valid /\ repl.data_valid = {}
  BY <1>a DEF TagWrite, WritesOwned, OneAgent, FreeEntries, NoRepl
<1>3. mshr.wait = {}
      /\ ("data" \in mshr.upd \/ ~llc.valid => mshr.data_valid = Burst)
  BY <1>a, <1>2 DEF Stages, Kinds, FetchInv
<1>4. /\ llc'.valid /\ llc'.data = llc.data
      /\ llc'.dirty <=> NewDirty(mshr)
      /\ mshr'.valid /\ mshr'.upd = mshr.upd \ {"dir"}
      /\ mshr'.data = mshr.data /\ mshr'.data_valid = mshr.data_valid
      /\ mshr'.wait = mshr.wait /\ mshr'.cid = mshr.cid
      /\ mshr'.full = mshr.full
  BY <1>a, <1>2 DEF TagWrite, Mshr, Llc
<1>5. \A x \in Cache : Open(x)' => Open(x) /\ mshr'.full = mshr.full
  BY <1>1, <1>2, <1>4 DEF Open, Served
<1>6. /\ \A x \in Cache : CopyInv(x)'
      /\ \A x \in Cache, p \in Burst : Carries(x, p)' <=> Carries(x, p)
  BY <1>1, <1>5, QuietCopies
<1>7. Covered'
  <2>1. \A p \in Burst : LowOf(p)' = LowOf(p)
    BY <1>1, <1>2, <1>3, <1>4 DEF LowOf
  <2>2. QED
    BY <1>6, <2>1, SupplySame, SameIsEquivalence
<1>8. "data" \notin mshr.upd => mshr.data_dirty = {} /\ llc.valid
  BY <1>a, <1>2 DEF FetchInv
<1>9. "data" \notin mshr.upd =>
        \A p \in mshr.data_valid : Same(mshr.data, llc.data, p)
  BY <1>a, <1>2, <1>8 DEF FetchInv, Start
<1>10. ~NewDirty(mshr) =>
         \A p \in Burst :
           Same(IF "data" \in mshr.upd THEN mshr.data ELSE llc.data, mem, p)
  <2> SUFFICES ASSUME ~NewDirty(mshr), NEW p \in Burst
               PROVE  Same(IF "data" \in mshr.upd THEN mshr.data ELSE llc.data,
                           mem, p)
    OBVIOUS
  <2>1. mshr.data_dirty = {} /\ ~(llc.valid /\ llc.dirty)
    BY <1>a, <1>2, <1>8 DEF NewDirty, FetchInv
  <2>2. llc.valid => Same(llc.data, mem, p)
    BY <1>a, <1>2, <2>1 DEF CleanInv
  <2>3. CASE "data" \in mshr.upd
    <3>1. Same(mshr.data, Start, p)
      BY <1>a, <1>2, <1>3, <2>1, <2>3 DEF FetchInv
    <3>2. QED
      BY <2>2, <2>3, <3>1 DEF Start, Same
  <2>4. CASE "data" \notin mshr.upd
    BY <1>8, <2>2, <2>4
  <2>5. QED
    BY <2>3, <2>4
<1>11. UpdateInv'
  BY <1>1, <1>4, <1>9, <1>10 DEF UpdateInv
<1>12. FetchInv' /\ CleanInv' /\ ReplInv'
  BY <1>1, <1>2, <1>4 DEF FetchInv, CleanInv, ReplInv
<1>13. QED
  BY <1>6, <1>7, <1>11, <1>12 DEF DataInv

\* The data RAM takes the whole line.
LEMMA DataWriteData ==
  ASSUME TypeOK, OneAgent, WritesOwned, CohInv, DataInv, UNCHANGED l1Vars,
         DataWrite
  PROVE  DataInv'
<1>a. /\ mshr \in Mshr /\ llc \in Llc /\ FetchInv /\ FreeEntries /\ Stages
      /\ UpdateInv
  BY DEF TypeOK, ScuTypeOK, DataInv, CohInv, ScuInv
<1>1. UNCHANGED <<mem, repl, snpAck, wbData, comp, ack>>
  BY DEF DataWrite, chanVars
<1>2. /\ mshr.valid /\ "dir" \notin mshr.upd /\ "data" \in mshr.upd
      /\ ~repl.valid /\ repl.data_valid = {} /\ llc.valid
  BY <1>a DEF DataWrite, WritesOwned, OneAgent, FreeEntries, NoRepl, FetchInv,
              Stages
<1>3. mshr.data_valid = Burst
  BY CoherentRamWrite DEF DataWrite, RamWriteComplete
<1>4. /\ llc'.valid /\ llc'.data = mshr.data /\ (llc'.dirty <=> llc.dirty)
      /\ mshr'.valid /\ mshr'.upd = mshr.upd \ {"data"}
      /\ mshr'.data = mshr.data /\ mshr'.data_valid = mshr.data_valid
      /\ mshr'.wait = mshr.wait /\ mshr'.cid = mshr.cid
      /\ mshr'.full = mshr.full
  BY <1>a, <1>2 DEF DataWrite, Mshr, Llc
<1>5. \A x \in Cache : Open(x)' => Open(x) /\ mshr'.full = mshr.full
  BY <1>1, <1>2, <1>4 DEF Open, Served
<1>6. /\ \A x \in Cache : CopyInv(x)'
      /\ \A x \in Cache, p \in Burst : Carries(x, p)' <=> Carries(x, p)
  BY <1>1, <1>5, QuietCopies
<1>7. Covered'
  <2>1. \A p \in Burst : LowOf(p)' = LowOf(p)
    BY <1>3, <1>4 DEF LowOf
  <2>2. QED
    BY <1>6, <2>1, SupplySame, SameIsEquivalence
<1>8. UpdateInv'
  BY <1>a, <1>1, <1>2, <1>4, SameIsEquivalence DEF UpdateInv
<1>9. FetchInv' /\ CleanInv' /\ ReplInv'
  BY <1>1, <1>2, <1>4 DEF FetchInv, CleanInv, ReplInv
<1>10. QED
  BY <1>6, <1>7, <1>8, <1>9 DEF DataInv

\* The transaction ends: the LLC has what the entry had.
LEMMA DeallocData ==
  ASSUME TypeOK, OneAgent, CohInv, DataInv, UNCHANGED l1Vars, Dealloc
  PROVE  DataInv'
<1>a. /\ mshr \in Mshr /\ llc \in Llc /\ UpdateInv /\ FreeEntries /\ Stages
  BY DEF TypeOK, ScuTypeOK, DataInv, CohInv, ScuInv
<1>1. /\ UNCHANGED <<llc, mem, repl, snpAck, wbData, comp, ack>>
      /\ mshr' = NoMshr
  BY DEF Dealloc, chanVars
<1>2. /\ mshr.valid /\ mshr.upd = {} /\ ~repl.valid /\ repl.data_valid = {}
      /\ llc.valid
  BY <1>a DEF Dealloc, FinalFinished, RespFinished, TransitionFinished,
              OneAgent, FreeEntries, NoRepl, Stages
<1>3. /\ ~mshr'.valid /\ mshr'.data_valid = {}
  BY <1>1 DEF NoMshr
<1>4. \A x \in Cache : Open(x)' => Open(x) /\ mshr'.full = mshr.full
  BY <1>3 DEF Open, Served
<1>5. /\ \A x \in Cache : CopyInv(x)'
      /\ \A x \in Cache, p \in Burst : Carries(x, p)' <=> Carries(x, p)
  BY <1>1, <1>4, QuietCopies
<1>6. Covered'
  <2>1. \A p \in Burst : Same(LowOf(p)', LowOf(p), p)
    BY <1>a, <1>1, <1>2, <1>3, SameIsEquivalence DEF LowOf, UpdateInv
  <2>2. QED
    BY <1>5, <2>1, SupplySame
<1>7. CleanInv'
  BY <1>a, <1>1, <1>2 DEF CleanInv, UpdateInv
<1>8. FetchInv' /\ UpdateInv' /\ ReplInv'
  BY <1>1, <1>2, <1>3 DEF FetchInv, UpdateInv, ReplInv
<1>9. QED
  BY <1>5, <1>6, <1>7, <1>8 DEF DataInv

\* A replacement begins: a line that is dropped without being written is what
\* memory has.
LEMMA ReplStartData ==
  ASSUME TypeOK, CohInv, DataInv, UNCHANGED l1Vars, ReplStart
  PROVE  DataInv'
<1>a. /\ llc \in Llc /\ CleanInv /\ FreeEntries
  BY DEF TypeOK, ScuTypeOK, DataInv, CohInv, ScuInv
<1>1. /\ UNCHANGED <<mshr, mem, snpAck, wbData, comp, ack>>
      /\ llc.valid /\ ~mshr.valid /\ ~repl.valid
  BY DEF ReplStart, chanVars, SetFree
<1>2. /\ mshr = NoMshr /\ repl = NoRepl
      /\ mshr.data_valid = {} /\ repl.data_valid = {}
  BY <1>a, <1>1 DEF FreeEntries, NoMshr, NoRepl
<1>3. ~llc'.valid /\ llc'.data = llc.data
  BY <1>a DEF ReplStart, Llc
<1>4. ~llc.dirty => \A p \in Burst : Same(llc.data, mem, p)
  BY <1>a, <1>1 DEF CleanInv
<1>5. /\ repl'.data_valid = {}
      /\ repl'.valid => /\ "llc" \in repl'.wait /\ repl'.mem = "idle"
                        /\ llc.dirty => repl'.data_dirty # {}
      /\ ~repl'.valid => ~llc.dirty
  <2>1. CASE llc.sharers = {} /\ ~llc.dirty
    BY <1>2, <2>1 DEF ReplStart, NoRepl
  <2>2. CASE ~(llc.sharers = {} /\ ~llc.dirty)
    <3>1. repl' = VictimRepl
      BY <2>2 DEF ReplStart
    <3>2. /\ repl'.data_valid = {} /\ repl'.valid /\ repl'.wait = {"llc"}
          /\ repl'.mem = "idle"
          /\ repl'.data_dirty = IF llc.dirty THEN Burst ELSE {}
      BY <3>1 DEF VictimRepl, NoRepl
    <3>3. QED
      BY <3>2, FirstAssumption
  <2>3. QED
    BY <2>1, <2>2
<1>6. \A x \in Cache : Open(x)' => Open(x) /\ mshr'.full = mshr.full
  BY <1>1 DEF Open, Served
<1>7. /\ \A x \in Cache : CopyInv(x)'
      /\ \A x \in Cache, p \in Burst : Carries(x, p)' <=> Carries(x, p)
  BY <1>1, <1>6, QuietCopies
<1>8. Covered'
  <2>1. \A p \in Burst : Same(LowOf(p)', LowOf(p), p)
    <3> SUFFICES ASSUME NEW p \in Burst PROVE Same(LowOf(p)', LowOf(p), p)
      OBVIOUS
    <3>1. LowOf(p) = llc.data
      BY <1>1, <1>2 DEF LowOf
    <3>2. LowOf(p)' = IF repl'.valid THEN llc.data ELSE mem
      BY <1>1, <1>2, <1>3, <1>5 DEF LowOf
    <3>3. QED
      BY <1>4, <1>5, <3>1, <3>2 DEF Same
  <2>2. QED
    BY <1>7, <2>1, SupplySame
<1>9. ReplInv'
  BY <1>1, <1>3, <1>4, <1>5 DEF ReplInv
<1>10. FetchInv' /\ UpdateInv' /\ CleanInv'
  BY <1>1, <1>3 DEF FetchInv, UpdateInv, CleanInv
<1>11. QED
  BY <1>7, <1>8, <1>9, <1>10 DEF DataInv

\* It queues its write, or has nothing to write.
LEMMA ReplMemEnqueueData ==
  ASSUME TypeOK, OneAgent, CohInv, DataInv, UNCHANGED l1Vars, ReplMemEnqueue
  PROVE  DataInv'
<1>a. /\ repl \in Repl /\ ReplInv /\ FreeEntries
  BY DEF TypeOK, ScuTypeOK, DataInv, CohInv, ScuInv
<1>1. /\ UNCHANGED <<mshr, llc, mem, snpAck, wbData, comp, ack>>
      /\ repl' = [repl EXCEPT !.mem =
                    IF repl.data_valid \cap repl.data_dirty # {}
                    THEN "enqueued" ELSE "done"]
  BY DEF ReplMemEnqueue, chanVars
<1>2. /\ repl.valid /\ AllAnswered(repl) /\ repl.wait = {} /\ ~mshr.valid
      /\ repl.data_valid = Burst
  <2>1. /\ repl.valid /\ AllAnswered(repl)
        /\ repl.wait \cap {"wb", "mem", "llc"} = {}
    BY DEF ReplMemEnqueue, TransitionFinished
  <2>2. repl.wait \in SUBSET {"wb", "llc"}
    BY <1>a DEF Repl
  <2>3. QED
    BY <1>a, <2>1, <2>2 DEF ReplInv, OneAgent
<1>3. /\ repl'.valid /\ repl'.data = repl.data /\ repl'.wait = repl.wait
      /\ repl'.data_valid = repl.data_valid
      /\ repl'.data_dirty = repl.data_dirty /\ AllAnswered(repl')
      /\ repl'.mem = IF repl.data_valid \cap repl.data_dirty # {}
                     THEN "enqueued" ELSE "done"
  BY <1>a, <1>1, <1>2 DEF Repl, AllAnswered
<1>4. \A x \in Cache : Open(x)' => Open(x) /\ mshr'.full = mshr.full
  BY <1>1 DEF Open, Served
<1>5. /\ \A x \in Cache : CopyInv(x)'
      /\ \A x \in Cache, p \in Burst : Carries(x, p)' <=> Carries(x, p)
  BY <1>1, <1>4, QuietCopies
<1>6. Covered'
  <2>1. \A p \in Burst : LowOf(p)' = LowOf(p)
    BY <1>1, <1>2, <1>3 DEF LowOf
  <2>2. QED
    BY <1>5, <2>1, SupplySame, SameIsEquivalence
<1>7. ReplInv'
  <2>1. repl'.mem = "done" => repl.data_dirty = {}
    <3>1. repl.data_dirty \in SUBSET Burst
      BY <1>a DEF Repl
    <3>2. QED
      BY <1>2, <1>3, <3>1
  <2>2. repl'.mem = "done" => \A p \in Burst : Same(repl.data, mem, p)
    BY <1>a, <1>2, <2>1, SameIsEquivalence DEF ReplInv
  <2>3. QED
    BY <1>a, <1>1, <1>2, <1>3, <2>2 DEF ReplInv
<1>8. FetchInv' /\ UpdateInv' /\ CleanInv'
  BY <1>a, <1>1, <1>2 DEF FetchInv, UpdateInv, CleanInv, FreeEntries
<1>9. QED
  BY <1>5, <1>6, <1>7, <1>8 DEF DataInv

\* Memory takes the whole line.
LEMMA ReplMemWriteData ==
  ASSUME TypeOK, OneAgent, CohInv, DataInv, UNCHANGED l1Vars, ReplMemWrite
  PROVE  DataInv'
<1>a. /\ repl \in Repl /\ ReplInv /\ FreeEntries
  BY DEF TypeOK, ScuTypeOK, DataInv, CohInv, ScuInv
<1>1. /\ UNCHANGED <<mshr, llc, snpAck, wbData, comp, ack>>
      /\ repl.mem = "enqueued" /\ mem' = repl.data
      /\ repl' = [repl EXCEPT !.mem = "done"]
  BY DEF ReplMemWrite, chanVars
<1>2. /\ repl.valid /\ AllAnswered(repl) /\ repl.wait = {} /\ ~mshr.valid
      /\ repl.data_valid = Burst /\ ~llc.valid /\ mshr.data_valid = {}
  BY <1>a, <1>1 DEF ReplInv, FreeEntries, NoRepl, NoMshr, OneAgent
<1>3. /\ repl'.valid /\ repl'.data = repl.data /\ repl'.wait = repl.wait
      /\ repl'.data_valid = repl.data_valid
      /\ repl'.data_dirty = repl.data_dirty /\ AllAnswered(repl')
      /\ repl'.mem = "done"
  BY <1>a, <1>1, <1>2 DEF Repl, AllAnswered
<1>4. \A x \in Cache : Open(x)' => Open(x) /\ mshr'.full = mshr.full
  BY <1>1 DEF Open, Served
<1>5. /\ \A x \in Cache : CopyInv(x)'
      /\ \A x \in Cache, p \in Burst : Carries(x, p)' <=> Carries(x, p)
  BY <1>1, <1>4, QuietCopies
<1>6. Covered'
  <2>1. \A p \in Burst : LowOf(p)' = LowOf(p)
    BY <1>1, <1>2, <1>3 DEF LowOf
  <2>2. QED
    BY <1>5, <2>1, SupplySame, SameIsEquivalence
<1>7. ReplInv'
  BY <1>a, <1>1, <1>2, <1>3, SameIsEquivalence DEF ReplInv
<1>8. FetchInv' /\ UpdateInv' /\ CleanInv'
  BY <1>1, <1>2 DEF FetchInv, UpdateInv, CleanInv
<1>9. QED
  BY <1>5, <1>6, <1>7, <1>8 DEF DataInv

\* The replacement ends: memory has what the entry had.
LEMMA ReplDeallocData ==
  ASSUME TypeOK, OneAgent, CohInv, DataInv, UNCHANGED l1Vars, ReplDealloc
  PROVE  DataInv'
<1>a. /\ ReplInv /\ FreeEntries
  BY DEF DataInv, CohInv, ScuInv
<1>1. /\ UNCHANGED <<mshr, llc, mem, snpAck, wbData, comp, ack>>
      /\ repl.valid /\ repl.mem = "done" /\ repl' = NoRepl
  BY DEF ReplDealloc, chanVars, TransitionFinished
<1>2. /\ repl.wait = {} /\ ~mshr.valid /\ repl.data_valid = Burst
      /\ ~llc.valid /\ mshr.data_valid = {}
      /\ ~repl'.valid /\ repl'.data_valid = {}
  BY <1>a, <1>1 DEF ReplInv, FreeEntries, NoRepl, NoMshr, OneAgent
<1>3. \A x \in Cache : Open(x)' => Open(x) /\ mshr'.full = mshr.full
  BY <1>1 DEF Open, Served
<1>4. /\ \A x \in Cache : CopyInv(x)'
      /\ \A x \in Cache, p \in Burst : Carries(x, p)' <=> Carries(x, p)
  BY <1>1, <1>3, QuietCopies
<1>5. Covered'
  <2>1. \A p \in Burst : Same(LowOf(p)', LowOf(p), p)
    BY <1>a, <1>1, <1>2, SameIsEquivalence DEF LowOf, ReplInv
  <2>2. QED
    BY <1>4, <2>1, SupplySame
<1>6. FetchInv' /\ UpdateInv' /\ CleanInv' /\ ReplInv'
  BY <1>1, <1>2 DEF FetchInv, UpdateInv, CleanInv, ReplInv
<1>7. QED
  BY <1>4, <1>5, <1>6 DEF DataInv

-----------------------------------------------------------------------------
\* The data invariant.

\* Every step of the SCU.
LEMMA ScuData ==
  ASSUME Overtake = FALSE, TypeOK, TypeOK', RequestorKnown, LineInOnePlace,
         OneAgent, WritesOwned, CohInv, CohInv', DataInv, ScuNext,
         UNCHANGED l1Vars
  PROVE  DataInv'
<1>1. ASSUME NEW c \in Cache, AcceptReq(c) \/ EvictNew(c) PROVE DataInv'
  BY <1>1, AllocData
<1>2. ASSUME NEW c \in Cache, EvictToMshr(c) \/ EvictToRepl(c) PROVE DataInv'
  BY <1>2, TakeData
<1>3. ASSUME NEW c \in Cache, SendSnp(c) \/ ReplSendSnp(c) PROVE DataInv'
  BY <1>3, SnpData
<1>4. ASSUME NEW c \in Cache, RecvSnpAck(c) PROVE DataInv'
  BY <1>4, SnpAckData
<1>5. ASSUME NEW c \in Cache, RecvWbData(c) PROVE DataInv'
  BY <1>5, WbDataData
<1>6. ASSUME NEW c \in Cache, RecvAck(c) PROVE DataInv'
  BY <1>6, AckData
<1>7. ASSUME NEW c \in Cache, FinalEnqueueWithWriteBack(c) PROVE DataInv'
  <2>1. mshr.cid # c
    BY <1>7 DEF FinalEnqueueWithWriteBack
  <2>2. QED
    BY <1>7, <2>1, NoLateWriteBack DEF CohInv
<1>8. CASE MemRead \/ LlcRead
  BY <1>8, ReadData
<1>9. CASE EnqueueResp \/ SendResp \/ ReplSendResp \/ FinalEnqueue
  BY <1>9, RespData
<1>10. CASE SendData
  BY <1>10, SendDataData
<1>11. CASE TagWrite
  BY <1>11, TagWriteData
<1>12. CASE DataWrite
  BY <1>12, DataWriteData
<1>13. CASE Dealloc
  BY <1>13, DeallocData
<1>14. CASE ReplStart
  BY <1>14, ReplStartData
<1>15. CASE ReplLlcRead
  BY <1>15, ReplReadData
<1>16. CASE ReplMemEnqueue
  BY <1>16, ReplMemEnqueueData
<1>17. CASE ReplMemWrite
  BY <1>17, ReplMemWriteData
<1>18. CASE ReplDealloc
  BY <1>18, ReplDeallocData
<1>19. QED
  BY <1>1, <1>2, <1>3, <1>4, <1>5, <1>6, <1>7, <1>8, <1>9, <1>10, <1>11,
     <1>12, <1>13, <1>14, <1>15, <1>16, <1>17, <1>18 DEF ScuNext

\* Every step of the system.
LEMMA LineDataStep ==
  ASSUME Overtake = FALSE, TypeOK, TypeOK', RequestorKnown, LineInOnePlace,
         OneAgent, WritesOwned, CohInv, CohInv', NoStaleVictim, DataInv,
         [Next]_vars
  PROVE  DataInv'
<1>1. CASE L1Next /\ UNCHANGED scuVars
  BY <1>1, L1Data
<1>2. CASE ScuNext /\ UNCHANGED l1Vars
  BY <1>2, ScuData
<1>3. CASE UNCHANGED vars
  <2>1. UNCHANGED <<chanVars, l1Vars, scuVars>>
    BY <1>3 DEF vars
  <2>2. UNCHANGED <<snpAck, wbData, comp, ack, mshr, repl, llc, mem, tagq>>
    BY <2>1 DEF chanVars, scuVars
  <2>3. \A x \in Cache : Open(x)' => Open(x) /\ mshr'.full = mshr.full
    BY <2>2 DEF Open, Served
  <2>4. SupplyKept
    BY <2>2 DEF SupplyKept, DataInv, ReplInv, AllAnswered
  <2>5. QED
    BY <2>1, <2>2, <2>3, <2>4, SupplyFrame
<1>4. QED
  BY <1>1, <1>2, <1>3 DEF Next

\* At reset memory has the line, and nobody else.
LEMMA InitData == Init => DataInv
<1> SUFFICES ASSUME Init PROVE DataInv
  OBVIOUS
<1>1. /\ mshr = NoMshr /\ repl = NoRepl /\ ~llc.valid /\ mem = AnyLine
      /\ latest = AnyLine
  BY DEF Init, ScuInit, L1Init
<1>2. /\ ~mshr.valid /\ ~repl.valid /\ mshr.data_valid = {}
      /\ repl.data_valid = {}
  BY <1>1 DEF NoMshr, NoRepl
<1>3. \A c \in Cache :
        /\ st[c] = "I" /\ ewrq[c] = NoEwrq /\ snpAck[c] = NoSnpAck
        /\ wbData[c] = NoWbData /\ comp[c] = NoComp
  BY DEF Init, L1Init, ChanInit
<1>4. Covered
  BY <1>1, <1>2 DEF Covered, LowOf, Same
<1>5. \A c \in Cache : CopyInv(c)
  BY <1>2, <1>3 DEF CopyInv, NoEwrq, NoSnpAck, NoWbData, NoComp, HasData, Open,
                    Served
<1>6. FetchInv /\ UpdateInv /\ CleanInv /\ ReplInv
  BY <1>1, <1>2 DEF FetchInv, UpdateInv, CleanInv, ReplInv
<1>7. QED
  BY <1>4, <1>5, <1>6 DEF DataInv

\* The data invariant holds in every execution without stale victims.
LEMMA DataInvariant ==
  ASSUME Overtake = FALSE
  PROVE  Spec /\ []NoStaleVictim => []DataInv
<1>1. /\ Base /\ CohInv /\ NoStaleVictim /\ DataInv /\ [Next]_vars
      /\ Base' /\ CohInv'
      => DataInv'
  BY LineDataStep DEF Base
<1>2. QED
  BY InitData, <1>1, BaseInvariant, CoherentInvariant, PTL DEF Spec

-----------------------------------------------------------------------------
\* What it says.

\* Between transactions the SCU would supply every burst from the LLC or from
\* memory, and only a MODIFIED copy or a queued write-back is newer.
LEMMA QuietSupply ==
  ASSUME CohInv, Quiet, NEW p \in Burst
  PROVE  /\ LowOf(p) = Below
         /\ \A c \in Cache : Carries(c, p) =>
              \/ st[c] = "M" /\ p \in drt[c]
              \/ ewrq[c].wb /\ p \in ewrq[c].dirty
<1>1. FreeEntries /\ ~mshr.valid /\ ~repl.valid
  BY DEF CohInv, ScuInv, Quiet
<1>2. LowOf(p) = Below
  BY <1>1 DEF LowOf, Below, FreeEntries, NoMshr, NoRepl
<1>3. ASSUME NEW c \in Cache
      PROVE  snpAck[c].rtype # "FoundM" /\ ~wbData[c].vld
  <2>1. SnoopInv(c) /\ EvictInv(c)
    BY DEF CohInv, CacheInv
  <2>2. QED
    BY <1>1, <2>1 DEF SnoopInv, EvictInv, OutstandingAt, Outstanding,
                      AwaitingAt, Awaiting
<1>4. QED
  BY <1>2, <1>3 DEF Carries

\* What a hit reads, and what the SCU has when nothing is active, is the value
\* of the last store.
LEMMA DataKeptBy ==
  ASSUME TypeOK, RequestorKnown, LineInOnePlace, OneAgent, CohInv, DataInv
  PROVE  DataKept
<1>a. /\ latest \in Line /\ llc \in Llc /\ mem \in Line
      /\ \A c \in Cache : CopyInv(c) /\ BankInv(c)
  BY DEF TypeOK, L1TypeOK, ScuTypeOK, DataInv, CohInv, CacheInv
<1>b. Below \in Line
  BY <1>a DEF Below, Llc
<1>1. DataValue
  BY <1>a DEF DataValue, CopyInv
<1>2. ASSUME Quiet, NEW c \in Cache, st[c] = "M" \/ ewrq[c].wb
      PROVE  Assembled(c) = latest
  <2>1. Hot(c)
    BY <1>2 DEF Hot, Owns
  <2>2. \A x \in Cache, p \in Burst : Carries(x, p) => x = c
    BY <2>1, CarriesHot, OneHot
  <2>3. PICK dirty \in SUBSET Burst :
           /\ Assembled(c) = MergeBursts(Below, latest, dirty)
           /\ \A p \in Burst \ dirty : ~Carries(c, p)
    <3>1. CASE st[c] = "M"
      <4>1. ~ewrq[c].wb
        BY <1>a, <3>1 DEF LineInOnePlace, BankInv, NoEwrq
      <4>2. drt[c] \in SUBSET Burst
        BY DEF TypeOK, L1TypeOK
      <4>3. \A p \in Burst \ drt[c] : ~Carries(c, p)
        BY <1>2, <4>1, QuietSupply
      <4>4. QED
        BY <1>a, <3>1, <4>2, <4>3 DEF Assembled, CopyInv
    <3>2. CASE st[c] # "M"
      <4>1. ewrq[c].wb /\ ewrq[c].dirty \in SUBSET Burst
        BY <1>2, <3>2 DEF TypeOK, L1TypeOK, Ewrq
      <4>2. \A p \in Burst \ ewrq[c].dirty : ~Carries(c, p)
        BY <1>2, <3>2, QuietSupply
      <4>3. QED
        BY <1>a, <3>2, <4>1, <4>2 DEF Assembled, CopyInv
    <3>3. QED
      BY <3>1, <3>2
  <2>4. ASSUME NEW p \in Burst PROVE Same(Assembled(c), latest, p)
    <3>1. CASE p \in dirty
      BY <2>3, <3>1, MergedBursts
    <3>2. CASE p \notin dirty
      <4>1. Same(LowOf(p), latest, p) /\ LowOf(p) = Below
        BY <1>2, <2>2, <2>3, <3>2, QuietSupply DEF DataInv, Covered
      <4>2. QED
        BY <2>3, <3>2, <4>1, MergedBursts, SameIsEquivalence
    <3>3. QED
      BY <3>1, <3>2
  <2>5. Assembled(c) \in Line
    BY <1>a, <1>b, <2>3 DEF MergeBursts, Line
  <2>6. QED
    BY <1>a, <2>4, <2>5, SameLines
<1>3. ASSUME Quiet, \A c \in Cache : st[c] # "M" /\ ~ewrq[c].wb
      PROVE  Below = latest
  <2>1. \A p \in Burst : Same(Below, latest, p)
    BY <1>3, QuietSupply DEF DataInv, Covered
  <2>2. QED
    BY <1>a, <1>b, <2>1, SameLines
<1>4. ValueSurvives
  BY <1>2, <1>3 DEF ValueSurvives
<1>5. QED
  BY <1>1, <1>4 DEF DataKept

\* When nothing is active the directory covers the holders, and a clean line of
\* the LLC is that of memory.
LEMMA RecordsRightBy ==
  ASSUME TypeOK, OneAgent, CohInv, DataInv
  PROVE  RecordsRight
<1>1. DirectoryCovers
  BY CoherentDirectory
<1>2. ASSUME Quiet, llc.valid, ~llc.dirty PROVE llc.data = mem
  <2>1. \A p \in Burst : Same(llc.data, mem, p)
    BY <1>2 DEF DataInv, CleanInv, Quiet
  <2>2. llc.data \in Line /\ mem \in Line
    BY DEF TypeOK, ScuTypeOK, Llc
  <2>3. QED
    BY <2>1, <2>2, SameLines
<1>3. QED
  BY <1>1, <1>2 DEF RecordsRight, CleanMatchesMemory

-----------------------------------------------------------------------------
\* The contract of a coherent line, step by step.

\* The store of a miss is one a core has made.
StoresMasked ==
    \A c \in Cache :
      mreq[c].phase # "idle" /\ mreq[c].store => mreq[c].mask \in StoreMask

\* Every step keeps that ...
LEMMA StoresMaskedStep ==
  ASSUME TypeOK, StoresMasked, [Next]_vars PROVE StoresMasked'
<1>a. mreq \in [Cache -> Miss]
  BY DEF TypeOK, L1TypeOK
<1>1. CASE L1Next
  <2>1. PICK c \in Cache :
         \/ \E mask \in StoreMask, v \in Val : StoreHit(c, mask, v)
         \/ \E mask \in StoreMask, v \in Val : StoreMiss(c, mask, v)
         \/ LoadMiss(c) \/ SendReq(c) \/ Refill(c) \/ FinishAck(c)
         \/ VictimPeek(c) \/ VictimEvict(c) \/ EwrqSend(c) \/ EwrqAck(c)
         \/ EwrqData(c) \/ Snoop(c)
    BY <1>1 DEF L1Next
  <2>2. CASE LoadMiss(c) \/ \E mask \in StoreMask, v \in Val :
                              StoreMiss(c, mask, v)
    BY <1>a, <2>2 DEF StoresMasked, LoadMiss, StoreMiss, NoMiss
  <2>3. CASE SendReq(c) \/ Refill(c) \/ FinishAck(c)
    BY <1>a, <2>3 DEF StoresMasked, SendReq, Refill, FinishAck, NoMiss, Miss
  <2>4. CASE \/ VictimPeek(c) \/ VictimEvict(c) \/ EwrqSend(c) \/ EwrqAck(c)
             \/ EwrqData(c) \/ Snoop(c)
             \/ \E mask \in StoreMask, v \in Val : StoreHit(c, mask, v)
    BY <2>4 DEF StoresMasked, VictimPeek, VictimEvict, EwrqSend, EwrqAck,
                EwrqData, Snoop, StoreHit
  <2>5. QED
    BY <2>1, <2>2, <2>3, <2>4
<1>2. CASE ScuNext /\ UNCHANGED l1Vars
  BY <1>2 DEF StoresMasked, l1Vars
<1>3. CASE UNCHANGED vars
  BY <1>3 DEF StoresMasked, vars, l1Vars
<1>4. QED
  BY <1>1, <1>2, <1>3 DEF Next

\* ... so it always holds.
LEMMA StoresMaskedInvariant == Spec => []StoresMasked
<1>1. Init => StoresMasked
  BY DEF Init, L1Init, StoresMasked, NoMiss
<1>2. QED
  BY <1>1, StoresMaskedStep, BaseInvariant, PTL DEF Spec, Base

\* A refill gives the right that was asked for.
LEMMA RefillContract ==
  ASSUME TypeOK, TypeOK', RequestorKnown, LineInOnePlace, OneAgent, CohInv,
         SWMR, SWMR', DataInv, DataInv', StoresMasked, NEW c \in Cache,
         Refill(c)
  PROVE  \/ Contract!GainRead(c)
         \/ \E mask \in StoreMask, v \in Val : Contract!Write(c, mask, v)
         \/ UNCHANGED <<st, dat, latest>>
<1>a. /\ st \in [Cache -> Mesi] /\ dat \in [Cache -> Line]
      /\ mreq[c] \in Miss /\ MissInv(c) /\ DirInv(c) /\ CopyInv(c)
      /\ Stages /\ Kinds
      /\ st' \in [Cache -> Mesi] /\ dat' \in [Cache -> Line]
      /\ CopyInv(c)'
  BY DEF TypeOK, L1TypeOK, CohInv, CacheInv, ScuInv, DataInv
<1>1. /\ st' = [st EXCEPT ![c] = RefillState(mreq[c], comp[c])]
      /\ dat' = [dat EXCEPT ![c] = RefillLine(mreq[c], dat[c], comp[c])]
      /\ latest' = IF mreq[c].store
                   THEN MergeStore(latest, mreq[c].mask, mreq[c].val)
                   ELSE latest
      /\ comp[c].rtype # "None"
  BY DEF Refill
<1>2. /\ mreq[c].phase = "sent" /\ Open(c) /\ mshr.resp_enq
      /\ ~mreq[c].store => comp[c].rtype \in {"CompData_SC", "CompData_UC"}
  BY <1>1, RefillSupply
<1>3. st'[c] = RefillState(mreq[c], comp[c]) /\ st'[c] # "I"
  BY <1>a, <1>1 DEF RefillState
<1>4. dat' = [dat EXCEPT ![c] = latest']
  BY <1>a, <1>1, <1>3 DEF CopyInv
<1>5. \A d \in Cache : d # c => st'[d] = st[d]
  BY <1>a, <1>1
<1>6. CASE mreq[c].store
  <2>1. mreq[c].mask \in StoreMask /\ mreq[c].val \in Val
    BY <1>a, <1>2, <1>6 DEF StoresMasked, Miss
  <2>2. st' = [st EXCEPT ![c] = "M"]
    BY <1>1, <1>6 DEF RefillState
  <2>3. \A d \in Cache \ {c} : st[d] = "I"
    BY <1>a, <1>5, <2>2 DEF SWMR
  <2>4. Contract!Write(c, mreq[c].mask, mreq[c].val)
    BY <1>1, <1>4, <1>6, <2>2, <2>3 DEF Contract!Write, Contract!Others,
       Contract!MergeStore, MergeStore
  <2>5. QED
    BY <2>1, <2>4
<1>7. CASE ~mreq[c].store
  <2>1. latest' = latest
    BY <1>1, <1>7
  <2>2. CASE st[c] = "I"
    <3>1. st'[c] \in {"S", "E"} /\ st' = [st EXCEPT ![c] = st'[c]]
      BY <1>1, <1>2, <1>3, <1>7 DEF RefillState
    <3>2. /\ st'[c] = "S" => \A d \in Cache \ {c} : st[d] \in {"I", "S"}
          /\ st'[c] = "E" => \A d \in Cache \ {c} : st[d] = "I"
      BY <1>a, <1>5 DEF SWMR, Mesi
    <3>3. Contract!GainRead(c)
      BY <1>4, <2>1, <2>2, <3>1, <3>2 DEF Contract!GainRead, Contract!Others
    <3>4. QED
      BY <3>3
  <2>3. CASE st[c] # "I"
    <3>1. st[c] = "S"
      BY <1>2, <2>3 DEF LineInOnePlace
    <3>2. c \in mshr.sharers
      <4>1. /\ mshr.valid /\ mshr.cid = c /\ "ack" \in mshr.wait /\ ~ack[c]
        BY <1>2 DEF Open, Served
      <4>2. "dir" \in mshr.upd /\ Asks(mshr)
        BY <1>a, <4>1 DEF Stages, Kinds
      <4>3. ~Consumed(c)
        BY <1>2, <4>1 DEF Consumed
      <4>4. QED
        BY <1>a, <2>3, <4>1, <4>2, <4>3 DEF DirInv, Present
    <3>3. comp[c].rtype # "CompData_UC"
      BY <1>a, <1>1, <3>2 DEF MissInv
    <3>4. st'[c] = "S"
      BY <1>2, <1>3, <1>7, <3>3 DEF RefillState
    <3>5. st' = st /\ dat' = dat
      BY <1>a, <1>1, <1>4, <2>1, <2>3, <3>1, <3>4 DEF CopyInv
    <3>6. QED
      BY <2>1, <3>5
  <2>4. QED
    BY <2>2, <2>3
<1>8. QED
  BY <1>6, <1>7

\* Every step of a private cache is a step of the contract, or keeps rights,
\* copies and value.
LEMMA L1Contract ==
  ASSUME TypeOK, TypeOK', RequestorKnown, LineInOnePlace, OneAgent, CohInv,
         SWMR, SWMR', DataInv, DataInv', StoresMasked, L1Next
  PROVE  Contract!LineNext \/ UNCHANGED <<st, dat, latest>>
<1>a. /\ st \in [Cache -> Mesi] /\ dat \in [Cache -> Line]
      /\ \A x \in Cache : CopyInv(x)
  BY DEF TypeOK, L1TypeOK, DataInv
<1>1. PICK c \in Cache :
         \/ \E mask \in StoreMask, v \in Val : StoreHit(c, mask, v)
         \/ \E mask \in StoreMask, v \in Val : StoreMiss(c, mask, v)
         \/ LoadMiss(c) \/ SendReq(c) \/ Refill(c) \/ FinishAck(c)
         \/ VictimPeek(c) \/ VictimEvict(c) \/ EwrqSend(c) \/ EwrqAck(c)
         \/ EwrqData(c) \/ Snoop(c)
  BY DEF L1Next
<1>2. ASSUME NEW mask \in StoreMask, NEW v \in Val, StoreHit(c, mask, v)
      PROVE  Contract!LineNext
  <2>1. /\ st[c] \in {"E", "M"} /\ st' = [st EXCEPT ![c] = "M"]
        /\ dat' = [dat EXCEPT ![c] = MergeStore(dat[c], mask, v)]
        /\ latest' = MergeStore(latest, mask, v)
    BY <1>2 DEF StoreHit
  <2>2. dat[c] = latest
    BY <1>a, <2>1 DEF CopyInv
  <2>3. \A d \in Cache \ {c} : st[d] = "I"
    BY <2>1 DEF SWMR
  <2>4. Contract!Write(c, mask, v)
    BY <2>1, <2>2, <2>3 DEF Contract!Write, Contract!Others,
       Contract!MergeStore, MergeStore
  <2>5. QED
    BY <2>4 DEF Contract!LineNext
<1>3. CASE Refill(c)
  BY <1>3, RefillContract DEF Contract!LineNext
<1>4. CASE VictimEvict(c)
  <2>1. st' = [st EXCEPT ![c] = "I"] /\ UNCHANGED <<dat, latest>>
    BY <1>4 DEF VictimEvict
  <2>2. CASE st[c] = "I"
    BY <1>a, <2>1, <2>2
  <2>3. CASE st[c] # "I"
    BY <2>1, <2>3 DEF Contract!LineNext, Contract!Lose
  <2>4. QED
    BY <2>2, <2>3
<1>5. CASE Snoop(c)
  <2>1. /\ st' = [st EXCEPT ![c] = SnoopedState(st[c], snp[c].rtype)]
        /\ UNCHANGED <<dat, latest>>
    BY <1>5 DEF Snoop
  <2>2. CASE SnoopedState(st[c], snp[c].rtype) = st[c]
    BY <1>a, <2>1, <2>2
  <2>3. CASE SnoopedState(st[c], snp[c].rtype) # st[c]
    <3>1. CASE SnoopedState(st[c], snp[c].rtype) = "S"
      <4>1. st[c] \in {"E", "M"}
        BY <1>a, <2>3, <3>1 DEF SnoopedState, Mesi
      <4>2. QED
        BY <2>1, <3>1, <4>1 DEF Contract!LineNext, Contract!Downgrade
    <3>2. CASE SnoopedState(st[c], snp[c].rtype) = "I"
      BY <2>1, <2>3, <3>2 DEF Contract!LineNext, Contract!Lose
    <3>3. QED
      BY <3>1, <3>2 DEF SnoopedState
  <2>4. QED
    BY <2>2, <2>3
<1>6. CASE \/ \E mask \in StoreMask, v \in Val : StoreMiss(c, mask, v)
           \/ LoadMiss(c) \/ SendReq(c) \/ FinishAck(c) \/ VictimPeek(c)
           \/ EwrqSend(c) \/ EwrqAck(c) \/ EwrqData(c)
  BY <1>6 DEF StoreMiss, LoadMiss, SendReq, FinishAck, VictimPeek, EwrqSend,
              EwrqAck, EwrqData
<1>7. QED
  BY <1>1, <1>2, <1>3, <1>4, <1>5, <1>6

\* So every step of caches and SCU is a step of the contract or a stutter.
LEMMA ContractStep ==
  ASSUME TypeOK, TypeOK', RequestorKnown, LineInOnePlace, OneAgent, CohInv,
         SWMR, SWMR', DataInv, DataInv', StoresMasked, [Next]_vars
  PROVE  [Contract!LineNext]_(Contract!lineVars)
<1>1. CASE L1Next /\ UNCHANGED scuVars
  BY <1>1, L1Contract DEF Contract!lineVars
<1>2. CASE ScuNext /\ UNCHANGED l1Vars
  BY <1>2 DEF l1Vars, Contract!lineVars
<1>3. CASE UNCHANGED vars
  BY <1>3 DEF vars, l1Vars, Contract!lineVars
<1>4. QED
  BY <1>1, <1>2, <1>3 DEF Next

\* An empty cache is an initial state of the contract.
LEMMA ContractInit == Init => Contract!LineInit
BY DEF Init, L1Init, Contract!LineInit, Contract!AnyLine, AnyLine,
       Contract!AnyVal, AnyVal

-----------------------------------------------------------------------------
\* The theorems.

\* When no entry is active the directory lists every holder of the line, and a
\* line the LLC has as clean is that of memory: a later transaction, or a
\* replacement that drops the line, starts from true records.
THEOREM RecordsTrue ==
  ASSUME Overtake = FALSE
  PROVE  Spec /\ []NoStaleVictim => []RecordsRight
<1>1. Base /\ CohInv /\ DataInv => RecordsRight
  BY RecordsRightBy DEF Base
<1>2. QED
  BY <1>1, CoherentInvariant, DataInvariant, BaseInvariant, PTL

\* A hit reads the value of the last store, and no store is lost on its way to
\* the LLC or to memory, whichever of its bursts travel in which message.
THEOREM ValueKept ==
  ASSUME Overtake = FALSE
  PROVE  Spec /\ []NoStaleVictim => []DataKept
<1>1. Base /\ CohInv /\ DataInv => DataKept
  BY DataKeptBy DEF Base
<1>2. QED
  BY <1>1, CoherentInvariant, DataInvariant, BaseInvariant, PTL

\* Caches and SCU implement the contract of a coherent line: with the state
\* tables as rights and the data RAMs as copies, each of their steps gains,
\* uses or loses a right as CoherentLine allows, or changes nothing there.
THEOREM LineImplemented ==
  ASSUME Overtake = FALSE
  PROVE  Spec /\ []NoStaleVictim => ImplementsContract
<1>1. /\ Base /\ CohInv /\ SWMR /\ DataInv /\ StoresMasked /\ [Next]_vars
      /\ Base' /\ SWMR' /\ DataInv'
      => [Contract!LineNext]_(Contract!lineVars)
  BY ContractStep DEF Base
<1>2. QED
  BY <1>1, ContractInit, CoherentInvariant, SingleWriter, DataInvariant,
     BaseInvariant, StoresMaskedInvariant, PTL
     DEF Spec, ImplementsContract, Contract!LineSpec

\* Coherence for any number of caches: whatever rights are gained, used and
\* lost, a writer is alone and no reader has an old value.  As the caches and the
\* SCU implement this module (ImplementsContract), they promise it too.
THEOREM LineCoherent == Contract!LineSpec => []Contract!Coherent
<1> DEFINE Inv == Contract!LineTypeOK /\ Contract!Coherent
<1>1. Contract!LineInit => Inv
  BY ValAssumption DEF Contract!LineInit, Contract!LineTypeOK, Contract!Coherent, Contract!AnyLine, Contract!AnyVal, Contract!Line
<1>2. Inv /\ [Contract!LineNext]_(Contract!lineVars) => Inv'
  <2> SUFFICES ASSUME Contract!LineTypeOK, Contract!Coherent, [Contract!LineNext]_(Contract!lineVars)
               PROVE  Inv'
    OBVIOUS
  <2> USE DEF Contract!LineTypeOK, Contract!Coherent
  <2>1. ASSUME NEW c \in Cache, Contract!GainRead(c)
        PROVE  Inv'
    BY <2>1 DEF Contract!GainRead, Contract!Others
  <2>2. ASSUME NEW c \in Cache, NEW mask \in StoreMask, NEW v \in Val,
               Contract!Write(c, mask, v)
        PROVE  Inv'
    BY <2>2 DEF Contract!Write, Contract!Others, Contract!MergeStore, Contract!Line
  <2>3. ASSUME NEW c \in Cache, Contract!Downgrade(c)
        PROVE  Inv'
    BY <2>3 DEF Contract!Downgrade
  <2>4. ASSUME NEW c \in Cache, Contract!Lose(c)
        PROVE  Inv'
    BY <2>4 DEF Contract!Lose
  <2>5. CASE UNCHANGED Contract!lineVars
    BY <2>5 DEF Contract!lineVars
  <2>6. QED
    BY <2>1, <2>2, <2>3, <2>4, <2>5 DEF Contract!LineNext
<1>3. QED
  BY <1>1, <1>2, PTL DEF Contract!LineSpec

\* Together, without a condition on the execution: under a workload that makes
\* no victim stale the cache is coherent, keeps every value, and implements the
\* contract.
THEOREM SafeWorkload ==
  ASSUME Overtake = FALSE, NoForeignLoads
  PROVE  Spec => /\ [](SWMR /\ ArrivalsExpected /\ RamWriteComplete)
                 /\ [](RecordsRight /\ DataKept)
                 /\ NoOverrun /\ ImplementsContract
BY VictimsCurrent, SingleWriter, ArrivalsMeet, RamWritesWhole, RecordsTrue,
   ValueKept, SentOnce, LineImplemented, PTL
=============================================================================
