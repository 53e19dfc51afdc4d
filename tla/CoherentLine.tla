---------------------------- MODULE CoherentLine ----------------------------
(***************************************************************************)
(* What a coherent line promises to the cores, without messages, directory  *)
(* or LLC: a cache may gain the right to read or to write when no other     *)
(* cache has a right that conflicts, it then sees the one current value,    *)
(* a store changes that value in one step, and rights may be lost at any    *)
(* time.                                                                    *)
(***************************************************************************)
EXTENDS CcPkg

VARIABLES
    perm,        \* the right of each cache: the MESI state
    copy,        \* its copy, meaningful while perm # "I"
    value        \* the value of the line

lineVars == <<perm, copy, value>>

LineInit ==
    /\ perm = [c \in Cache |-> "I"]
    /\ copy = [c \in Cache |-> AnyLine]
    /\ value = AnyLine

Others(c) == Cache \ {c}

\* The right to read, alone or with other readers.
GainRead(c) ==
    /\ perm[c] = "I"
    /\ \E p \in {"S", "E"} :
          /\ p = "S" => \A d \in Others(c) : perm[d] \in {"I", "S"}
          /\ p = "E" => \A d \in Others(c) : perm[d] = "I"
          /\ perm' = [perm EXCEPT ![c] = p]
    /\ copy' = [copy EXCEPT ![c] = value]
    /\ UNCHANGED value

\* A store by the only cache that has the line.  The new value is the old one
\* with the bytes of the mask replaced.
Write(c, mask, v) ==
    /\ \A d \in Others(c) : perm[d] = "I"
    /\ value' = MergeStore(value, mask, v)
    /\ copy' = [copy EXCEPT ![c] = value']
    /\ perm' = [perm EXCEPT ![c] = "M"]

\* A writer becomes a reader.
Downgrade(c) ==
    /\ perm[c] \in {"E", "M"}
    /\ perm' = [perm EXCEPT ![c] = "S"]
    /\ UNCHANGED <<copy, value>>

Lose(c) ==
    /\ perm[c] # "I"
    /\ perm' = [perm EXCEPT ![c] = "I"]
    /\ UNCHANGED <<copy, value>>

LineNext ==
    \E c \in Cache :
        \/ GainRead(c)
        \/ \E mask \in StoreMask, v \in Val : Write(c, mask, v)
        \/ Downgrade(c)
        \/ Lose(c)

LineSpec == LineInit /\ [][LineNext]_lineVars

-----------------------------------------------------------------------------
\* One writer or many readers, and every reader has the current value.
Coherent ==
    /\ \A c, d \in Cache : c # d /\ perm[c] \in {"E", "M"} => perm[d] = "I"
    /\ \A c \in Cache : perm[c] # "I" => copy[c] = value

\* The types its proof needs.
LineTypeOK ==
    /\ perm \in [Cache -> {"I", "S", "E", "M"}]
    /\ copy \in [Cache -> Line]
    /\ value \in Line
=============================================================================
