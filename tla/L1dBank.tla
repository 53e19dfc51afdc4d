------------------------------ MODULE L1dBank ------------------------------
(***************************************************************************)
(* The private caches, seen from one line: the line state table, the data   *)
(* RAM, the miss status holding register and line fill buffer entry of the  *)
(* line, the victim chosen by a refill of another line of the same set, the *)
(* evict/write-back request queue and the snoop controller                  *)
(* (rvh_l1d_bank.sv, rvh_l1d_mshr.sv, rvh_l1d_mlfb.sv, rvh_l1d_ewrq.sv,     *)
(* rvh_l1d_snp_ctrl.sv).                                                    *)
(*                                                                          *)
(* A bank admits no core request whose set is held by an MSHR or by the     *)
(* evict queue, so a line has at most one of: a miss of its own, a victim   *)
(* mark, an evict queue entry.  A snoop stalls new core requests and every  *)
(* step of a refill from its conflict check to its answer, so it is one     *)
(* step here.                                                               *)
(***************************************************************************)
EXTENDS CcPkg

CONSTANTS
    Loaders,     \* caches whose core loads the line
    Storers,     \* caches whose core stores to the line
    Evictors     \* caches whose other lines may displace it

ASSUME WorkloadAssumption == Loaders \cup Storers \cup Evictors \subseteq Cache

VARIABLES
    st,          \* MESI state in the line state table
    dat,         \* the data RAM
    drt,         \* data_dirty: bursts to send on a write-back
    mreq,        \* the MSHR and line fill buffer entry for the line
    vic,         \* victim of a refill: victim_way_clean, recorded at the peek
    ewrq,        \* the line's entry in the evict/write-back queue
    latest       \* history: the value of the last store performed

l1Vars == <<st, dat, drt, mreq, vic, ewrq, latest>>

Mesi      == {"I", "S", "E", "M"}
MissPhase == {"idle", "alloc", "sent", "refilled"}
Miss == [phase : MissPhase, store : BOOLEAN, perm : BOOLEAN,
         mask : SUBSET Byte, val : Val]
NoMiss == [phase |-> "idle", store |-> FALSE, perm |-> FALSE,
           mask |-> {}, val |-> AnyVal]

EwrqPhase == {"none", "queued", "sent", "acked"}
Ewrq == [phase : EwrqPhase, wb : BOOLEAN, data : Line,
         dirty : SUBSET Burst, tid : ScuTid]
NoEwrq == [phase |-> "none", wb |-> FALSE, data |-> AnyLine,
           dirty |-> {}, tid |-> "mshr"]

L1Init ==
    /\ st   = [c \in Cache |-> "I"]
    /\ dat  = [c \in Cache |-> AnyLine]
    /\ drt  = [c \in Cache |-> {}]
    /\ mreq = [c \in Cache |-> NoMiss]
    /\ vic  = [c \in Cache |-> "none"]
    /\ ewrq = [c \in Cache |-> NoEwrq]
    /\ latest = AnyLine

L1TypeOK ==
    /\ st   \in [Cache -> Mesi]
    /\ dat  \in [Cache -> Line]
    /\ drt  \in [Cache -> SUBSET Burst]
    /\ mreq \in [Cache -> Miss]
    /\ vic  \in [Cache -> {"none", "clean", "dirty"}]
    /\ ewrq \in [Cache -> Ewrq]
    /\ latest \in Line

-----------------------------------------------------------------------------
\* Core requests.

\* Fault: the evict queue is not searched.
CoreReadyFault(c) == mreq[c].phase = "idle" /\ vic[c] = "none"

\* The set of the line is in no MSHR (of this line, or of one whose refill
\* is displacing it) and not in the evict queue.
CoreReady(c) ==
    /\ mreq[c].phase = "idle"
    /\ vic[c] = "none"
    /\ ewrq[c].phase = "none"

\* Fault: a store forgets the bursts that were dirty before it.
DirtyAfterFault(old, mask) == TouchedBy(mask)

\* The dirty bits accumulate.  The vector of old bits, one for each burst, is
\* also or-ed into the byte mask, where it lies in the bytes of package 0:
\* that one becomes dirty whenever another is.
DirtyAfter(old, mask) ==
    old \cup TouchedBy(mask) \cup (IF old = {} THEN {} ELSE {FirstBurst})

StoreHit(c, mask, v) ==
    /\ c \in Storers
    /\ CoreReady(c)
    /\ st[c] \in {"E", "M"}
    /\ st'  = [st EXCEPT ![c] = "M"]
    /\ dat' = [dat EXCEPT ![c] = MergeStore(@, mask, v)]
    /\ drt' = [drt EXCEPT ![c] = DirtyAfter(@, mask)]
    /\ latest' = MergeStore(latest, mask, v)
    /\ UNCHANGED <<mreq, vic, ewrq>>
    /\ UNCHANGED chanVars

LoadMiss(c) ==
    /\ c \in Loaders
    /\ CoreReady(c)
    /\ st[c] = "I"
    /\ mreq' = [mreq EXCEPT ![c] = [NoMiss EXCEPT !.phase = "alloc"]]
    /\ UNCHANGED <<st, dat, drt, vic, ewrq, latest>>
    /\ UNCHANGED chanVars

\* A store that finds the line SHARED is a permission miss: the MSHR keeps
\* the way, asks for an upgrade and refills into that way.
StoreMiss(c, mask, v) ==
    /\ c \in Storers
    /\ CoreReady(c)
    /\ st[c] \in {"I", "S"}
    /\ mreq' = [mreq EXCEPT ![c] =
                  [phase |-> "alloc", store |-> TRUE, perm |-> st[c] = "S",
                   mask |-> mask, val |-> v]]
    /\ UNCHANGED <<st, dat, drt, vic, ewrq, latest>>
    /\ UNCHANGED chanVars

ReqOf(m) ==
    [rtype |-> IF ~m.store THEN "ReadShared"
               ELSE IF m.perm THEN "CleanUnique" ELSE "ReadUnique",
     full  |-> IF m.store THEN FullyIn(m.mask) ELSE {}]

SendReq(c) ==
    /\ mreq[c].phase = "alloc"
    /\ mreq' = [mreq EXCEPT ![c].phase = "sent"]
    /\ req'  = [req EXCEPT ![c] = ReqOf(mreq[c])]
    /\ UNCHANGED <<st, dat, drt, vic, ewrq, latest>>
    /\ UNCHANGED <<evt, snpAck, ack, wbData, snp, comp, wbAck>>

-----------------------------------------------------------------------------
\* Refill.

\* What the line fill buffer writes to the data RAM.  Comp_UD brings no data:
\* only the bytes of the store are written, over the SHARED copy.
RefillLine(m, old, r) ==
    LET base == IF r.rtype = "Comp_UD" THEN old
                ELSE MergeBursts(AnyLine, r.data, r.valid)
    IN  IF m.store THEN MergeStore(base, m.mask, m.val) ELSE base

RefillState(m, r) ==
    IF m.store THEN "M"
    ELSE IF r.rtype = "CompData_SC" THEN "S"
    ELSE IF r.rtype = "CompData_UC" THEN "E" ELSE "M"

\* The dirty bits come from the byte mask register of the buffer's head,
\* which a load does not write: it still holds the mask of the last store.
RefillDirty(m) ==
    IF m.store THEN {TouchedBy(m.mask)}
    ELSE {{}} \cup {TouchedBy(k) : k \in StoreMask}

Refill(c) ==
    /\ comp[c].rtype # "None"
    /\ mreq[c].phase = "sent"
    /\ st'  = [st EXCEPT ![c] = RefillState(mreq[c], comp[c])]
    /\ dat' = [dat EXCEPT ![c] = RefillLine(mreq[c], @, comp[c])]
    /\ \E d \in RefillDirty(mreq[c]) : drt' = [drt EXCEPT ![c] = d]
    /\ latest' = IF mreq[c].store
                 THEN MergeStore(latest, mreq[c].mask, mreq[c].val)
                 ELSE latest
    /\ mreq' = [mreq EXCEPT ![c].phase = "refilled"]
    /\ comp' = [comp EXCEPT ![c] = NoComp]
    /\ UNCHANGED <<vic, ewrq>>
    /\ UNCHANGED <<req, evt, snpAck, ack, wbData, snp, wbAck>>

\* The MSHR is released with the FinishTrans_Ack.
FinishAck(c) ==
    /\ mreq[c].phase = "refilled"
    /\ mreq' = [mreq EXCEPT ![c] = NoMiss]
    /\ ack'  = [ack EXCEPT ![c] = TRUE]
    /\ UNCHANGED <<st, dat, drt, vic, ewrq, latest>>
    /\ UNCHANGED <<req, evt, snpAck, wbData, snp, comp, wbAck>>

-----------------------------------------------------------------------------
\* Displacement by the refill of another line of the set.

\* The refill peeks at a full set and picks this line; whether its victim is
\* clean is read here and used when the eviction is done.
VictimPeek(c) ==
    /\ c \in Evictors
    /\ mreq[c].phase = "idle"
    /\ vic[c] = "none"
    /\ st[c] # "I"
    /\ vic' = [vic EXCEPT ![c] = IF st[c] = "M" THEN "dirty" ELSE "clean"]
    /\ UNCHANGED <<st, dat, drt, mreq, ewrq, latest>>
    /\ UNCHANGED chanVars

\* The line leaves the cache for the evict queue, unless a snoop has made it
\* invalid since the peek.  Nothing reads the dirty bits of an INVALID line
\* (the refill writes them anew): they are {} here.
VictimEvict(c) ==
    /\ vic[c] # "none"
    /\ vic' = [vic EXCEPT ![c] = "none"]
    /\ st'  = [st EXCEPT ![c] = "I"]
    /\ drt' = [drt EXCEPT ![c] = {}]
    /\ ewrq' = [ewrq EXCEPT ![c] =
                  IF st[c] = "I" /\ drt[c] = {} THEN @
                  ELSE [phase |-> "queued", wb |-> vic[c] = "dirty",
                        data |-> dat[c], dirty |-> drt[c], tid |-> "mshr"]]
    /\ UNCHANGED <<dat, mreq, latest>>
    /\ UNCHANGED chanVars

EwrqSend(c) ==
    /\ ewrq[c].phase = "queued"
    /\ ewrq' = [ewrq EXCEPT ![c].phase = "sent"]
    /\ evt'  = [evt EXCEPT ![c] =
                  IF ewrq[c].wb THEN "WriteBackPartial" ELSE "Evict"]
    /\ UNCHANGED <<st, dat, drt, mreq, vic, latest>>
    /\ UNCHANGED <<req, snpAck, ack, wbData, snp, comp, wbAck>>

\* WriteBack_Ack ends an Evict and asks for the data of a write-back; it is
\* ignored by a queue whose head was not sent.
AckedEwrq(q, tid) ==
    IF q.phase \notin {"sent", "acked"} THEN q
    ELSE IF q.wb THEN [q EXCEPT !.phase = "acked", !.tid = tid]
    ELSE NoEwrq

EwrqAck(c) ==
    /\ wbAck[c].vld
    /\ ewrq'  = [ewrq EXCEPT ![c] = AckedEwrq(@, wbAck[c].tid)]
    /\ wbAck' = [wbAck EXCEPT ![c] = NoWbAck]
    /\ UNCHANGED <<st, dat, drt, mreq, vic, latest>>
    /\ UNCHANGED <<req, evt, snpAck, ack, wbData, snp, comp>>

EwrqData(c) ==
    /\ ewrq[c].phase = "acked"
    /\ ewrq' = [ewrq EXCEPT ![c] = NoEwrq]
    /\ wbData' = [wbData EXCEPT ![c] =
                    [vld |-> TRUE, tid |-> ewrq[c].tid,
                     data |-> ewrq[c].data, dirty |-> ewrq[c].dirty]]
    /\ UNCHANGED <<st, dat, drt, mreq, vic, latest>>
    /\ UNCHANGED <<req, evt, snpAck, ack, snp, comp, wbAck>>

-----------------------------------------------------------------------------
\* Snoops.

\* Fault: a MODIFIED line answers without its data.
SnoopAnswerFault(s, line, dirty, tid) ==
    [NoSnpAck EXCEPT !.rtype = IF s = "I" THEN "FoundI" ELSE "FoundSorE",
                     !.tid = tid]

\* Only a MODIFIED line answers with data, and only with its dirty bursts.
SnoopAnswer(s, line, dirty, tid) ==
    IF s = "M" THEN [rtype |-> "FoundM", tid |-> tid,
                     data |-> line, dirty |-> dirty]
    ELSE [NoSnpAck EXCEPT !.rtype = IF s = "I" THEN "FoundI" ELSE "FoundSorE",
                          !.tid = tid]

\* Fault: SnpUnique leaves a SHARED copy.
SnoopedStateFault(s, rtype) == IF s = "I" THEN "I" ELSE "S"

SnoopedState(s, rtype) ==
    IF s # "I" /\ rtype = "SnpShared" THEN "S" ELSE "I"

\* Fault: the snoop also waits for the MSHR of the line.
SnoopReadyFault(c) == ewrq[c].phase = "none" /\ mreq[c].phase = "idle"

\* The snoop waits while the line is in the evict queue, not while it is in
\* an MSHR.
SnoopReady(c) == ewrq[c].phase = "none"

Snoop(c) ==
    /\ snp[c].rtype # "None"
    /\ SnoopReady(c)
    /\ st'  = [st EXCEPT ![c] = SnoopedState(@, snp[c].rtype)]
    /\ drt' = [drt EXCEPT ![c] = {}]
    /\ snpAck' = [snpAck EXCEPT ![c] =
                    SnoopAnswer(st[c], dat[c], drt[c], snp[c].tid)]
    /\ snp' = [snp EXCEPT ![c] = NoSnp]
    /\ UNCHANGED <<dat, mreq, vic, ewrq, latest>>
    /\ UNCHANGED <<req, evt, ack, wbData, comp, wbAck>>

-----------------------------------------------------------------------------
L1Next ==
    \E c \in Cache :
        \/ \E mask \in StoreMask, v \in Val : StoreHit(c, mask, v)
        \/ \E mask \in StoreMask, v \in Val : StoreMiss(c, mask, v)
        \/ LoadMiss(c)
        \/ SendReq(c)
        \/ Refill(c)
        \/ FinishAck(c)
        \/ VictimPeek(c)
        \/ VictimEvict(c)
        \/ EwrqSend(c)
        \/ EwrqAck(c)
        \/ EwrqData(c)
        \/ Snoop(c)
=============================================================================
