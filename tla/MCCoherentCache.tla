-------------------------- MODULE MCCoherentCache --------------------------
(***************************************************************************)
(* Small instances of CoherentCache: two or three caches, lines of one or   *)
(* two bytes.                                                               *)
(***************************************************************************)
EXTENDS CoherentCache

CONSTANTS c1, c2, c3, v1, v2, b1, b2

\* one burst of one byte; two bursts of one byte; one burst of two bytes
OneBurst  == {{b1}}
TwoBursts == {{b1}, {b2}}
WideBurst == {{b1, b2}}
NarrowFirst == {b1}
WideFirst   == {b1, b2}

\* stores of the first byte; of either byte; of one byte or of both
OneMask  == {{b1}}
TwoMasks == {{b1}, {b2}}
WideMasks == {{b1}, {b1, b2}}
=============================================================================
