------------------------------- MODULE CcPkg -------------------------------
(***************************************************************************)
(* The vocabulary of the coherence protocol (include/rvh_l1d_cc_pkg.sv):    *)
(* the messages that private caches and the snoop control unit (SCU)        *)
(* exchange, and the channels that carry them.                              *)
(*                                                                          *)
(* The model follows ONE cache line.  Accesses to other lines are visible   *)
(* only by what they do to this one: they displace it from a private cache  *)
(* (VictimPeek) or from the LLC (ReplStart).  Every channel holds at most   *)
(* one message of a kind per cache; NoOverrun in CoherentCache checks that  *)
(* no sender ever needs a second place.  Messages of different channels     *)
(* are delivered in any order and after any delay.                          *)
(***************************************************************************)
EXTENDS Naturals, FiniteSets

CONSTANTS
    Cache,       \* the private caches (cid)
    NoCache,     \* the cid of an empty register
    Byte,        \* the bytes of the line
    Burst,       \* its data packages, a partition of Byte (DATA_BURST_NUM)
    FirstBurst,  \* package 0
    Val,         \* what a byte can hold
    StoreMask    \* byte masks the store buffer may send (sets of bytes)

ASSUME BurstAssumption == /\ Burst \subseteq SUBSET Byte
                          /\ UNION Burst = Byte
                          /\ \A p, q \in Burst : p # q => p \cap q = {}
ASSUME FirstAssumption == FirstBurst \in Burst
ASSUME ValAssumption   == Val # {}
ASSUME MaskAssumption  == StoreMask \subseteq (SUBSET Byte) \ {{}}
ASSUME CidAssumption   == NoCache \notin Cache

Line == [Byte -> Val]

\* A register nobody reads holds some fixed value.
AnyVal  == CHOOSE v \in Val : TRUE
AnyLine == [b \in Byte |-> AnyVal]

\* Bursts a store touches, and bursts it overwrites completely
\* (data_part_to_be_fully_write of a request).
TouchedBy(mask) == {p \in Burst : p \cap mask # {}}
\* Fault: a burst that is partly overwritten counts as overwritten.
FullyInFault(mask) == {p \in Burst : p \cap mask # {}}

FullyIn(mask)   == {p \in Burst : p \subseteq mask}

\* line with the bytes of the given bursts / of the given mask replaced
MergeBursts(line, new, bursts) ==
    [b \in Byte |-> IF \E p \in bursts : b \in p THEN new[b] ELSE line[b]]
MergeStore(line, mask, v) ==
    [b \in Byte |-> IF b \in mask THEN v ELSE line[b]]

-----------------------------------------------------------------------------
\* Requests, evictions, snoops and answers.

ReqType   == {"None", "ReadShared", "ReadUnique", "CleanUnique"}
EvictType == {"None", "Evict", "WriteBackPartial"}
SnpType   == {"None", "SnpShared", "SnpUnique"}
SnpAck    == {"None", "FoundI", "FoundSorE", "FoundM"}
CompType  == {"None", "CompData_SC", "CompData_UC", "CompData_UD", "Comp_UD"}

\* The msb of scu_tid tells the SCU's MSHR from its replacement MSHR.
ScuTid == {"mshr", "repl"}

ReqMsg    == [rtype : ReqType, full : SUBSET Burst]
SnpMsg    == [rtype : SnpType, tid : ScuTid]
SnpAckMsg == [rtype : SnpAck, tid : ScuTid, data : Line, dirty : SUBSET Burst]
CompMsg   == [rtype : CompType, data : Line, valid : SUBSET Burst]
WbAckMsg  == [vld : BOOLEAN, tid : ScuTid]
WbDataMsg == [vld : BOOLEAN, tid : ScuTid, data : Line, dirty : SUBSET Burst]

NoReq    == [rtype |-> "None", full |-> {}]
NoSnp    == [rtype |-> "None", tid |-> "mshr"]
NoSnpAck == [rtype |-> "None", tid |-> "mshr", data |-> AnyLine, dirty |-> {}]
NoComp   == [rtype |-> "None", data |-> AnyLine, valid |-> {}]
NoWbAck  == [vld |-> FALSE, tid |-> "mshr"]
NoWbData == [vld |-> FALSE, tid |-> "mshr", data |-> AnyLine, dirty |-> {}]

VARIABLES
    req,       \* cache -> SCU  request
    evt,       \* cache -> SCU  Evict / WriteBackPartial
    snpAck,    \* cache -> SCU  snoop answer (resp or data channel)
    ack,       \* cache -> SCU  FinishTrans_Ack
    wbData,    \* cache -> SCU  WriteBackPartialData
    snp,       \* SCU -> cache  snoop
    comp,      \* SCU -> cache  CompData / Comp_UD
    wbAck      \* SCU -> cache  WriteBack_Ack

chanVars == <<req, evt, snpAck, ack, wbData, snp, comp, wbAck>>

ChanInit ==
    /\ req    = [c \in Cache |-> NoReq]
    /\ evt    = [c \in Cache |-> "None"]
    /\ snpAck = [c \in Cache |-> NoSnpAck]
    /\ ack    = [c \in Cache |-> FALSE]
    /\ wbData = [c \in Cache |-> NoWbData]
    /\ snp    = [c \in Cache |-> NoSnp]
    /\ comp   = [c \in Cache |-> NoComp]
    /\ wbAck  = [c \in Cache |-> NoWbAck]

ChanTypeOK ==
    /\ req    \in [Cache -> ReqMsg]
    /\ evt    \in [Cache -> EvictType]
    /\ snpAck \in [Cache -> SnpAckMsg]
    /\ ack    \in [Cache -> BOOLEAN]
    /\ wbData \in [Cache -> WbDataMsg]
    /\ snp    \in [Cache -> SnpMsg]
    /\ comp   \in [Cache -> CompMsg]
    /\ wbAck  \in [Cache -> WbAckMsg]
=============================================================================
