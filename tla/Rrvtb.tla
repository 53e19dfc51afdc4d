------------------------------- MODULE Rrvtb -------------------------------
(***************************************************************************)
(* The testbench runtime (utils/rrvtb/rrvtb.cpp): C++ functions are called *)
(* at the start of the next time step of the simulator when one of the     *)
(* signals that they listen on has changed.                                *)
(*                                                                         *)
(* Signals and functions are numbered in the order of the handles and      *)
(* pointers by which the containers sort them.  A listener is an entry of  *)
(* cb2class_sig_table: a function, its signals and its object.  A called   *)
(* function may write a signal (SVObject::operator=), which changes it at  *)
(* once.  Setup is over in Init; timers only write signals between steps.  *)
(***************************************************************************)
EXTENDS Integers, FiniteSets

CONSTANTS
  NumSigs,      \* signals are 1..NumSigs
  Listeners,    \* the listeners: [fn : function, sigs : signals, obj : number]
  Written       \* the signals that called functions may write

Sigs == 1..NumSigs

RrvtbAssumption ==
  /\ NumSigs \in Nat
  /\ Written \subseteq Sigs
  /\ \A l \in Listeners : l.fn \in Nat /\ l.obj \in Nat /\ l.sigs \subseteq Sigs

VARIABLES
  val,        \* the signals
  changed,    \* sig_changed_table
  waitSync,   \* wait_sync
  calling,    \* tb_end_of_step_cb is running
  cur,        \* the position of its three loops
  called,     \* called_func_table, with the function of cur
  owed        \* history: the listeners not called since a signal changed

vars == <<val, changed, waitSync, calling, cur, called, owed>>

sig2cb(s) == {l.fn : l \in {x \in Listeners : s \in x.sigs}}
Start == [sig |-> 0, fn |-> 0, obj |-> 0]

Init ==
  /\ val = [s \in Sigs |-> 0]
  /\ changed = {}
  /\ waitSync = FALSE
  /\ calling = FALSE
  /\ cur = Start
  /\ called = {}
  /\ owed = {}

-----------------------------------------------------------------------------
Toggle(s) == val' = [val EXCEPT ![s] = 1 - @]
Hearing(s) == {l \in Listeners : s \in l.sigs}

\* tb_value_change_cb.  The call for the next time step is registered once.
\* Only the signals that some function listens on have the callback.
ValueChange(s) ==
  IF Hearing(s) # {}
  THEN changed' = changed \cup {s} /\ waitSync' = TRUE
  ELSE UNCHANGED <<changed, waitSync>>

\* The design, or a timer, changes a signal.
Change(s) ==
  /\ ~calling
  /\ Toggle(s)
  /\ ValueChange(s)
  /\ owed' = owed \cup Hearing(s)
  /\ UNCHANGED <<calling, cur, called>>

\* The time step ends.
NextSimTime ==
  /\ waitSync /\ ~calling
  /\ calling' = TRUE
  /\ cur' = Start
  /\ called' = {}
  /\ UNCHANGED <<val, changed, waitSync, owed>>

\* A mutant: a function that was called is passed by for its other objects.
CallableFault ==
  {c \in [sig : changed, l : Listeners] :
     /\ c.l.fn \in sig2cb(c.sig) \ called
     /\ c.l.sigs \cap changed # {}
     /\ c.sig > cur.sig \/ (c.sig = cur.sig /\ c.l.fn > cur.fn)}

\* The calls that the loops have still to make, as far as is known by now:
\* the remaining objects of the function of cur, and the functions not yet
\* called at a later signal or at the same signal.  A function has been
\* passed by at a signal only if it was called.
Callable ==
  {c \in [sig : changed, l : Listeners] :
     /\ c.l.fn \in sig2cb(c.sig)
     /\ c.l.sigs \cap changed # {}
     /\ \/ c.sig = cur.sig /\ c.l.fn = cur.fn /\ c.l.obj > cur.obj
        \/ /\ c.l.fn \notin called
           /\ c.sig > cur.sig \/ (c.sig = cur.sig /\ c.l.fn > cur.fn)}

Before(c, d) ==
  \/ c.sig < d.sig
  \/ c.sig = d.sig /\ c.l.fn < d.l.fn
  \/ c.sig = d.sig /\ c.l.fn = d.l.fn /\ c.l.obj < d.l.obj

\* One call.  The function gets the present values and may write a signal.
Call(W) ==
  /\ calling
  /\ Callable # {}
  /\ LET c == CHOOSE c \in Callable : \A d \in Callable \ {c} : Before(c, d) IN
     /\ cur' = [sig |-> c.sig, fn |-> c.l.fn, obj |-> c.l.obj]
     /\ called' = called \cup {c.l.fn}
     /\ \/ /\ W = {}
           /\ owed' = owed \ {c.l}
           /\ UNCHANGED <<val, changed, waitSync>>
        \/ \E s \in W :
             /\ Toggle(s)
             /\ ValueChange(s)
             /\ owed' = (owed \ {c.l}) \cup Hearing(s)
  /\ UNCHANGED calling

\* What was inserted behind the loops goes with the rest.
EndOfStep ==
  /\ calling
  /\ Callable = {}
  /\ calling' = FALSE
  /\ waitSync' = FALSE
  /\ changed' = {}
  /\ UNCHANGED <<val, cur, called, owed>>

Next ==
  \/ \E s \in Sigs : Change(s)
  \/ NextSimTime
  \/ Call({}) \/ Call(Written)
  \/ EndOfStep

Spec == Init /\ [][Next]_vars

-----------------------------------------------------------------------------
\* Properties.

\* Every change of a signal is followed by a call of every listener on it
\* before the runtime waits for changes again.
ChangesAreHeard == (~waitSync /\ ~calling) => owed = {}
=============================================================================
