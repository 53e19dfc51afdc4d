--------------------------- MODULE CoherentCache ---------------------------
(***************************************************************************)
(* The coherent cache: the private caches of L1dBank and the snoop control  *)
(* unit of Scu, joined by the channels of CcPkg, and the properties of the  *)
(* whole.                                                                   *)
(***************************************************************************)
EXTENDS L1dBank, Scu

vars == <<chanVars, l1Vars, scuVars>>

Init == ChanInit /\ L1Init /\ ScuInit

Next == \/ L1Next /\ UNCHANGED scuVars
        \/ ScuNext /\ UNCHANGED l1Vars

Spec == Init /\ [][Next]_vars

-----------------------------------------------------------------------------
\* Fairness.  Each FSM of a bank and each FIFO of the SCU moves when it can.
\* The request FIFO keeps its head until it is accepted, and the evict FIFO
\* rotates until each entry has been taken, so being able to be taken again
\* and again is enough.  Nothing forces a core to access the line, another
\* line to displace it, or the LLC to replace it.

L1Step(A(_), c) == A(c) /\ UNCHANGED scuVars

ScuStep(A) == A /\ UNCHANGED l1Vars

TakeEvict(c) == EvictToMshr(c) \/ EvictToRepl(c) \/ EvictNew(c)

ScuWork ==
    \/ \E c \in Cache : SendSnp(c) \/ RecvSnpAck(c) \/ RecvWbData(c)
                        \/ RecvAck(c) \/ ReplSendSnp(c)
    \/ MemRead \/ LlcRead \/ EnqueueResp \/ SendResp \/ SendData
    \/ FinalEnqueue \/ TagWrite \/ DataWrite \/ Dealloc
    \/ ReplLlcRead \/ ReplSendResp \/ ReplMemEnqueue \/ ReplMemWrite
    \/ ReplDealloc

Fairness ==
    /\ \A c \in Cache :
          /\ WF_vars(L1Step(SendReq, c))
          /\ WF_vars(L1Step(Refill, c))
          /\ WF_vars(L1Step(FinishAck, c))
          /\ WF_vars(L1Step(VictimEvict, c))
          /\ WF_vars(L1Step(EwrqSend, c))
          /\ WF_vars(L1Step(EwrqAck, c))
          /\ WF_vars(L1Step(EwrqData, c))
          /\ WF_vars(L1Step(Snoop, c))
          /\ SF_vars(ScuStep(AcceptReq(c)))
          /\ SF_vars(ScuStep(TakeEvict(c)))
    /\ WF_vars(ScuStep(ScuWork))

FairSpec == Spec /\ Fairness

-----------------------------------------------------------------------------
\* Coherence.

\* Every register and message has the type its declaration in
\* rvh_l1d_cc_pkg.sv gives it.
TypeOK == ChanTypeOK /\ L1TypeOK /\ ScuTypeOK

\* Single writer or many readers: while one line state table says EXCLUSIVE
\* or MODIFIED, every other one says INVALID, whatever snoops, refills and
\* evictions are under way.
SWMR ==
    \A c, d \in Cache : c # d /\ st[c] \in {"E", "M"} => st[d] = "I"

\* A load that hits reads the last value stored: every valid copy is current,
\* though the line travels in bursts (only dirty ones from a cache, only those
\* not overwritten to a cache) that are merged on the way.
DataValue == \A c \in Cache : st[c] # "I" => dat[c] = latest

\* No transaction and no replacement is under way.
Quiet == ~mshr.valid /\ ~repl.valid

\* The line has left c for the evict queue and the SCU has not heard of it.
Leaving(c) == ewrq[c].phase = "queued" \/ evt[c] # "None"

\* Between transactions the directory knows every holder: a sharer for each
\* cache that holds the line or is about to say it has evicted it, and the
\* owner bit for one that may write it.
DirectoryCovers ==
    Quiet =>
      \A c \in Cache :
        /\ st[c] # "I" \/ Leaving(c) => llc.valid /\ c \in llc.sharers
        /\ st[c] \in {"E", "M"} => llc.owner /\ llc.sharers = {c}

\* Where the value of the line is assembled from between transactions: the
\* dirty bursts of a MODIFIED copy or of a queued write-back, over the LLC's
\* data, or memory's when the LLC does not have the line.
Below == IF llc.valid THEN llc.data ELSE mem
Assembled(c) ==
    IF st[c] = "M" THEN MergeBursts(Below, dat[c], drt[c])
    ELSE MergeBursts(Below, ewrq[c].data, ewrq[c].dirty)

\* The last value stored is never lost: no burst that a cache believes clean,
\* drops on eviction or leaves out of a write-back is newer than what lies
\* below it.
ValueSurvives ==
    Quiet =>
      IF \E c \in Cache : st[c] = "M" \/ ewrq[c].wb
      THEN \A c \in Cache :
             st[c] = "M" \/ ewrq[c].wb => Assembled(c) = latest
      ELSE Below = latest

\* A line the LLC believes clean, and will drop on replacement without
\* writing it, is what memory has.
CleanMatchesMemory == Quiet /\ llc.valid /\ ~llc.dirty => llc.data = mem

\* The data are kept in flight and at rest: what a core can read is current,
\* and the last value stored is there to be read (rvh_l1d_snp_ctrl.sv,
\* rvh_l1d_ewrq.sv and rvh_scu_mshr.sv, which each move a part of the bursts).
DataKept == DataValue /\ ValueSurvives

\* What the SCU has recorded of the line between transactions, and acts on in
\* the next one, is true: its holders in the directory (rvh_scu_mshr.sv, the
\* final update) and its dirty bit in the LLC tag (rvh_scu_repl_mshr.sv).
RecordsRight == DirectoryCovers /\ CleanMatchesMemory

-----------------------------------------------------------------------------
\* The protocol.

\* The line is served by at most one entry of the two MSHR files.
OneAgent == ~(mshr.valid /\ repl.valid)

Outstanding(m, c) == m.valid /\ c \in m.snp_sent \ (m.snp_resp \cup m.snp_data)
Awaiting(m, c) == m.valid /\ "wb" \in m.wait /\ m.wb_cid = c

\* An answer finds the entry that asked for it: the scu_tid it carries has
\* not been freed and reallocated while it travelled.
AnswersFindEntry ==
    \A c \in Cache :
      /\ snpAck[c].rtype # "None" =>
           IF snpAck[c].tid = "mshr" THEN Outstanding(mshr, c)
                                     ELSE Outstanding(repl, c)
      /\ wbData[c].vld =>
           IF wbData[c].tid = "mshr" THEN Awaiting(mshr, c)
                                     ELSE Awaiting(repl, c)
      /\ ack[c] => mshr.valid /\ mshr.cid = c /\ "ack" \in mshr.wait

\* A completion finds the miss that asked for it.  An upgrade that is granted
\* without data finds the SHARED copy it upgrades: no snoop that reaches the
\* line while its MSHR waits has taken it away.
CompFindsMiss ==
    \A c \in Cache :
      /\ comp[c].rtype # "None" => mreq[c].phase = "sent"
      /\ comp[c].rtype = "Comp_UD" => mreq[c].perm /\ st[c] = "S"

\* The response FIFO is as deep as there are MSHRs and its ready output is
\* not connected: an MSHR never has two entries in it, and none outlives it.
RespFifoFits ==
    /\ respq \in {0, 1}
    /\ respq = 1 \/ dataq => mshr.valid

\* A queued tag or data RAM write finds its MSHR valid, with the update it
\* performs still to be done, and it was queued only once.
WritesOwned ==
    /\ tagq => mshr.valid /\ mshr.upd_enq /\ "dir" \in mshr.upd
    /\ ramq => mshr.valid /\ mshr.upd_enq /\ "data" \in mshr.upd

\* An eviction that gets an MSHR of its own comes from a sharer (the
\* assertion of rvh_scu.sv), and a write-back from the owner: the cases of
\* the directory lookup that leave it unanswered are not reached.
EvictExpected ==
    Quiet =>
      \A c \in Cache :
        /\ evt[c] # "None" => DirHit /\ c \in llc.sharers
        /\ evt[c] = "WriteBackPartial" => ~LlcHit

\* Whatever arrives is expected where it arrives: answers at the entry that
\* asked, completions at the miss, responses in a FIFO with room, evictions
\* at a directory that lists their sender (rvh_scu.sv, rvh_l1d_mshr.sv).
ArrivalsExpected ==
    AnswersFindEntry /\ CompFindsMiss /\ RespFifoFits /\ EvictExpected

\* The data RAM is written with the whole line: the bursts no private cache
\* supplied have been read from it first.
RamWriteComplete == ramq => mshr.data_valid = Burst

\* In a private cache the line is in one place: missing, marked as a victim,
\* or in the evict queue; it is INVALID while it is in the queue, and while a
\* miss other than an upgrade is pending.
LineInOnePlace ==
    \A c \in Cache :
      /\ mreq[c].phase # "idle" => vic[c] = "none" /\ ewrq[c].phase = "none"
      /\ vic[c] # "none" => ewrq[c].phase = "none"
      /\ ewrq[c].phase # "none" => st[c] = "I"
      /\ mreq[c].phase \in {"alloc", "sent"} =>
            st[c] = "I" \/ (mreq[c].perm /\ st[c] = "S")

\* A message waits in its channel until it is taken: no sender, be it the
\* MSHR or the replacement MSHR, sends a second one over it.
KeptOrTaken(ch, next, none) == ch # none => next \in {ch, none}

NoOverrun ==
    [][\A c \in Cache :
         /\ KeptOrTaken(req[c], req'[c], NoReq)
         /\ KeptOrTaken(evt[c], evt'[c], "None")
         /\ KeptOrTaken(snpAck[c], snpAck'[c], NoSnpAck)
         /\ KeptOrTaken(wbData[c], wbData'[c], NoWbData)
         /\ KeptOrTaken(snp[c], snp'[c], NoSnp)
         /\ KeptOrTaken(comp[c], comp'[c], NoComp)]_vars

-----------------------------------------------------------------------------
\* The contract of CoherentLine: the line state tables are the rights, the
\* data RAMs the copies.
Contract == INSTANCE CoherentLine
                WITH perm <- st, copy <- dat, value <- latest

\* The caches and the SCU implement it: a refill, a store, a snoop and an
\* eviction are single steps of one coherent line, and nothing else changes
\* what the cores see.
ImplementsContract == Contract!LineSpec

-----------------------------------------------------------------------------
\* Progress.

\* Every miss is refilled.
MissesComplete ==
    \A c \in Cache : mreq[c].phase # "idle" ~> mreq[c].phase = "idle"

\* Every eviction leaves the queue, and lets the snoops it holds go.
EvictionsDrain ==
    \A c \in Cache : ewrq[c].phase # "none" ~> ewrq[c].phase = "none"

\* Every snoop is answered.
SnoopsAnswered ==
    \A c \in Cache : snp[c].rtype # "None" ~> snp[c].rtype = "None"

\* Every entry of the MSHR files is freed.
EntriesFreed == (mshr.valid ~> ~mshr.valid) /\ (repl.valid ~> ~repl.valid)

-----------------------------------------------------------------------------
\* What doc/l1d_coherence.md, 2.2.2 says: a snoop is not processed while the
\* set it indexes has a miss whose request has been handed to the SCU.
SnoopWaitsForMiss ==
    [][\A c \in Cache :
         snp[c].rtype # "None" /\ snp'[c].rtype = "None" =>
            mreq[c].phase \notin {"sent", "refilled"}]_vars
=============================================================================
