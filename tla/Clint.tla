------------------------------- MODULE Clint -------------------------------
(***************************************************************************)
(* Timer and software interrupts of riscv_machine.cpp.  The time is a      *)
(* fraction of the cycle counter of hart 0.  It and the deadlines are two  *)
(* words wide and the guest writes a word at a time, so that a deadline is *)
(* half old and half new between two writes, while the loop of             *)
(* virt_machine_run compares it at every step.                             *)
(***************************************************************************)
EXTENDS Integers

CONSTANTS
  NCpus,     \* harts
  Word,      \* values of a word, 2^32 in the code
  First,     \* words, "lo" or "hi", the guest may write first in a deadline
  Div,       \* cycles of a tick, RTC_FREQ_DIV
  MaxTime    \* bound: the clock stops here

ClintAssumption ==
  /\ NCpus \in Nat \ {0} /\ Word \in Nat \ {0, 1} /\ Div \in Nat \ {0}
  /\ First \subseteq {"lo", "hi"}
  /\ 2 * MaxTime < Word * Word     \* see Late

Hart == 0..(NCpus - 1)
Wide == Word * Word

VARIABLES
  mcycle,    \* cycles of hart 0
  timecmp,   \* deadline of each hart
  mtip,      \* timer interrupt of each hart
  msip,      \* software interrupt of each hart
  goal,      \* history: deadline the guest of each hart wants
  todo,      \* history: words of the deadline still to be written
  reached    \* history: the time has been at the deadline since it was complete

vars == <<mcycle, timecmp, mtip, msip, goal, todo, reached>>

\* rtc_get_time
Time == mcycle \div Div

Lo(v) == v % Word
Hi(v) == v \div Word

Init == /\ mcycle = 0 /\ timecmp = [h \in Hart |-> 0] /\ goal = timecmp
        /\ mtip = [h \in Hart |-> FALSE] /\ msip = mtip
        /\ todo = [h \in Hart |-> {}]
        /\ reached = [h \in Hart |-> TRUE]

-----------------------------------------------------------------------------
\* A mutant: a deadline that is just met does not count.
LateFault(d) == LET diff == (d - Time) % Wide IN 2 * diff >= Wide

\* The difference is kept in a signed number: a deadline half the range ahead, all
\* ones for instance, counts as passed.
Late(d) == LET diff == (d - Time) % Wide IN diff = 0 \/ 2 * diff >= Wide

\* virt_machine_get_sleep_duration, of which virt_machine_run keeps the effect and
\* drops the result.
GetSleepDuration(h) ==
  mtip' = IF ~mtip[h] /\ Time > 0 /\ Late(timecmp[h]) THEN [mtip EXCEPT ![h] = TRUE] ELSE mtip

\* virt_machine_run: check the timer, execute an instruction.
Run(h) ==
  /\ GetSleepDuration(h)
  /\ mcycle' = IF h = 0 /\ Time < MaxTime THEN mcycle + 1 ELSE mcycle
  /\ reached' = [g \in Hart |-> reached[g] \/ (todo[g] = {} /\ mcycle' \div Div >= goal[g])]
  /\ UNCHANGED <<timecmp, msip, goal, todo>>

\* A mutant: the high word does not take the interrupt back.
ResetFault(h, word) == IF word = "hi" THEN mtip ELSE [mtip EXCEPT ![h] = FALSE]

\* A write of either word of a deadline takes a pending timer interrupt back.
Reset(h, word) == [mtip EXCEPT ![h] = FALSE]

\* A mutant: the low word is lost too.
WriteCmpFault(old, word, val) == IF word = "hi" THEN Word * val ELSE val

\* The mask that should keep the high word, ~0xffffffff, is a number of one word: zero.
WriteCmp(old, word, val) == IF word = "hi" THEN Word * val + Lo(old) ELSE val

\* clint_write of a word of timecmp, the guest on its way to its deadline.
WriteTimecmp(h, word) ==
  /\ word \in todo[h] /\ (todo[h] = {"lo", "hi"} => word \in First)
  /\ timecmp' = [timecmp EXCEPT ![h] =
                   WriteCmp(@, word, IF word = "hi" THEN Hi(goal[h]) ELSE Lo(goal[h]))]
  /\ mtip' = Reset(h, word)
  /\ todo' = [todo EXCEPT ![h] = @ \ {word}]
  /\ reached' = [reached EXCEPT ![h] = todo'[h] = {} /\ Time >= goal[h]]
  /\ UNCHANGED <<mcycle, msip, goal>>

\* clint_write of mtime keeps the other word.
WriteWord(old, word, val) == IF word = "hi" THEN Word * val + Lo(old) ELSE Word * Hi(old) + val

Choose(h, d) ==
  /\ todo[h] = {}
  /\ goal' = [goal EXCEPT ![h] = d] /\ todo' = [todo EXCEPT ![h] = {"lo", "hi"}]
  /\ reached' = [reached EXCEPT ![h] = FALSE]
  /\ UNCHANGED <<mcycle, timecmp, mtip, msip>>

\* clint_write of a word of mtime: the fraction of a tick is lost.
WriteMtime(word, val) ==
  /\ WriteWord(Time, word, val) <= MaxTime
  /\ mcycle' = WriteWord(Time, word, val) * Div
  /\ reached' = [g \in Hart |-> reached[g] \/ (todo[g] = {} /\ mcycle' \div Div >= goal[g])]
  /\ UNCHANGED <<timecmp, mtip, msip, goal, todo>>

\* clint_write of msip
WriteMsip(h, bit) ==
  /\ msip' = [msip EXCEPT ![h] = bit]
  /\ UNCHANGED <<mcycle, timecmp, mtip, goal, todo, reached>>

Next == \/ \E h \in Hart :
             \/ Run(h)
             \/ \E d \in 0..MaxTime : Choose(h, d)
             \/ \E word \in {"lo", "hi"} : WriteTimecmp(h, word)
             \/ \E bit \in BOOLEAN : WriteMsip(h, bit)
        \/ \E word \in {"lo", "hi"}, val \in 0..(Word - 1) : WriteMtime(word, val)

Spec == Init /\ [][Next]_vars

-----------------------------------------------------------------------------
(* Properties *)

(* Once its deadline is written whole, a hart has a timer interrupt only    *)
(* for that deadline: whatever the half-written one set off has been taken  *)
(* back (clint_write, virt_machine_get_sleep_duration).                     *)
TickIsDue == \A h \in Hart : todo[h] = {} /\ mtip[h] => reached[h]

(* The deadline is the one the guest wrote, word by word: the registers of  *)
(* riscv_machine.cpp:190-191 are "mtimecmp hart 0 lo" and "mtimecmp hart 0  *)
(* hi", each on its own (clint_write).                                      *)
DeadlineWhole == \A h \in Hart : todo[h] = {} => timecmp[h] = goal[h]

(* A hart whose deadline is in the past gets its interrupt, unless it sets  *)
(* another deadline or somebody turns the clock back.  The clock shows 0    *)
(* for a whole tick, and nobody is woken then.                              *)
TickComes ==
  \A h \in Hart : (todo[h] = {} /\ Time >= goal[h] /\ Time > 0)
                    ~> (mtip[h] \/ todo[h] # {} \/ Time < goal[h] \/ Time = 0)
=============================================================================
