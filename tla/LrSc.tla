-------------------------------- MODULE LrSc --------------------------------
(***************************************************************************)
(* Atomic instructions of several harts on one memory: load-reserved,      *)
(* store-conditional and the atomic operations, as the macro OP_A of       *)
(* dromajo_template.h executes them.  A reservation is an address kept by  *)
(* the hart, load_res.                                                     *)
(***************************************************************************)
EXTENDS Integers

CONSTANTS
  Harts, Addrs,
  Broken,        \* addresses that fault on a load and on a store
  Watched,       \* addresses on which a trigger raises a breakpoint
  Unaligned,     \* addresses that are no multiple of the size
  MaxVal         \* the largest value in memory (a bound)

NoAddr == "none"     \* ~0

LrScAssumption == Broken \cup Watched \cup Unaligned \subseteq Addrs /\ NoAddr \notin Addrs /\ MaxVal \in Nat

VARIABLES
  mem,
  load_res,
  reg,           \* what each hart loaded last
  trap,          \* the cause each hart's last instruction raised
  fresh,         \* no other hart has written the address since the reservation (history)
  unused         \* the last load-reserved has not led to a store (history)

vars == <<mem, load_res, reg, trap, fresh, unused>>

Init == /\ mem = [x \in Addrs |-> 0] /\ load_res = [h \in Harts |-> NoAddr] /\ reg = [h \in Harts |-> 0]
        /\ trap = [h \in Harts |-> NoAddr]
        /\ fresh = [h \in Harts |-> FALSE] /\ unused = [h \in Harts |-> FALSE]

\* The exception an access of this kind raises
Faulty(x) == x \in Broken \cup Watched
Cause(x, kind) == IF x \in Watched THEN "breakpoint" ELSE kind

Fault(h, cause) == trap' = [trap EXCEPT ![h] = cause] /\ UNCHANGED <<mem, load_res, reg, fresh, unused>>
NoFault(h) == trap' = [trap EXCEPT ![h] = NoAddr]

\* A store to x by hart h, seen by the reservations of the others
Written(h, x, v) ==
  /\ mem' = [mem EXCEPT ![x] = v]
  /\ fresh' = [g \in Harts |-> fresh[g] /\ (g = h \/ load_res[g] # x)]

Lr(h, x) ==
  IF Faulty(x) THEN Fault(h, Cause(x, "load"))
  ELSE /\ reg' = [reg EXCEPT ![h] = mem[x]]
       /\ load_res' = [load_res EXCEPT ![h] = x]
       /\ fresh' = [fresh EXCEPT ![h] = TRUE] /\ unused' = [unused EXCEPT ![h] = TRUE]
       /\ NoFault(h) /\ UNCHANGED mem

\* A mutant: a reservation survives the store it allowed.
ScFault(h, x, v) ==
  IF x \in Unaligned THEN Fault(h, "misaligned_store")
  ELSE IF load_res[h] # x THEN NoFault(h) /\ reg' = [reg EXCEPT ![h] = 1] /\ UNCHANGED <<mem, load_res, fresh, unused>>
  ELSE IF Faulty(x) THEN Fault(h, Cause(x, "store"))
  ELSE /\ Written(h, x, v)
       /\ reg' = [reg EXCEPT ![h] = 0]
       /\ unused' = [unused EXCEPT ![h] = FALSE]
       /\ NoFault(h) /\ UNCHANGED load_res

\* Only the store-conditional checks the alignment; one that fails keeps the
\* reservation.
Sc(h, x, v) ==
  IF x \in Unaligned THEN Fault(h, "misaligned_store")
  ELSE IF load_res[h] # x THEN NoFault(h) /\ reg' = [reg EXCEPT ![h] = 1] /\ UNCHANGED <<mem, load_res, fresh, unused>>
  ELSE IF Faulty(x) THEN Fault(h, Cause(x, "store"))
  ELSE /\ Written(h, x, v)
       /\ reg' = [reg EXCEPT ![h] = 0]
       /\ load_res' = [load_res EXCEPT ![h] = NoAddr]
       /\ unused' = [unused EXCEPT ![h] = FALSE]
       /\ NoFault(h)

\* A mutant: the load of an atomic operation reports its fault as a load.
AmoCauseFault(x) == Cause(x, "load")

\* LD -> ST
AmoCause(x) == LET c == Cause(x, "load") IN IF c # "breakpoint" THEN "store" ELSE c

Amo(h, x, v) ==
  IF Faulty(x) THEN Fault(h, AmoCause(x))
  ELSE Written(h, x, v) /\ reg' = [reg EXCEPT ![h] = mem[x]] /\ NoFault(h) /\ UNCHANGED <<load_res, unused>>

Store(h, x, v) ==
  IF Faulty(x) THEN Fault(h, Cause(x, "store"))
  ELSE Written(h, x, v) /\ NoFault(h) /\ UNCHANGED <<load_res, reg, unused>>

Next == \E h \in Harts, x \in Addrs :
          \/ Lr(h, x)
          \/ \E v \in 0..MaxVal : Sc(h, x, v) \/ Amo(h, x, v) \/ Store(h, x, v)

Spec == Init /\ [][Next]_vars

-----------------------------------------------------------------------------
(* Properties *)

(* A store-conditional writes only what the same hart reserved, and once:   *)
(* no sequence of failing ones, traps and other accesses makes up for the   *)
(* load-reserved.                                                           *)
OncePerReservation == \A h \in Harts, x \in Addrs, v \in 0..MaxVal :
                        mem'[x] # mem[x] /\ Sc(h, x, v) => unused[h] /\ load_res[h] = x

(* "for atomic LR/SC": when a store-conditional succeeds, no other hart has *)
(* written the location since its load-reserved.                            *)
ScAtomic == \A h \in Harts : load_res[h] # NoAddr /\ load_res'[h] = NoAddr => fresh[h]

(* The load of an atomic operation is never reported as a load: only a      *)
(* load-reserved, which writes nothing, traps with that cause.              *)
FaultsAreStores ==
  \A h \in Harts, x \in Addrs, v \in 0..MaxVal :
    Amo(h, x, v) => trap'[h] \in {NoAddr, "store", "breakpoint"}
=============================================================================
