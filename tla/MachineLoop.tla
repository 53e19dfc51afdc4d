---------------------------- MODULE MachineLoop ----------------------------
(***************************************************************************)
(* The main loop of the emulator: the harts take turns, one instruction    *)
(* each, until in one round none asks to go on (main, iterate_core,        *)
(* virt_machine_run).  Programs talk to the host through the word tohost.  *)
(***************************************************************************)
EXTENDS Integers, FiniteSetsExt

CONSTANTS
  ncpus,
  Limit,       \* --maxinsns, 0 for none
  Wrap,        \* the counter of instructions counts modulo Wrap, for 2^64
  Does,        \* what the programs' instructions may do
  MaxRun       \* bound: instructions executed by all harts

LoopAssumption == ncpus \in Nat \ {0} /\ Limit \in 0..(Wrap - 1) /\ {Wrap, MaxRun} \subseteq Nat

\* pc moves, pc stays (a jump to itself, wfi), an SBI shutdown, stores to tohost
Kinds == {"step", "stay", "shutdown", "print", "pass", "fail"}
Harts == 0..(ncpus - 1)

VARIABLES
  maxinsns,
  turn, going,        \* the loops of main: i and keep_going
  phase, exit,        \* whether main has ended, and its exit code
  terminated, code,   \* of each hart: terminate_simulation, benchmark_exit_code
  tohost,
  ran,                \* instructions executed by each hart (history)
  asked, printed,     \* requests to print made and served (history)
  failed              \* a program has reported a failure (history)

vars == <<maxinsns, turn, going, phase, exit, terminated, code, tohost, ran, asked, printed, failed>>

Init == /\ maxinsns = IF Limit > 0 THEN Limit ELSE Wrap - 1
        /\ turn = 0 /\ going = FALSE /\ phase = "run" /\ exit = 0
        /\ terminated = [h \in Harts |-> FALSE] /\ code = [h \in Harts |-> 0]
        /\ tohost = "zero" /\ ran = [h \in Harts |-> 0] /\ asked = 0 /\ printed = 0 /\ failed = FALSE

\* A mutant: only the first hart's code is looked at.
ExitCodeFault(codes) == IF codes[0] # 0 THEN 1 ELSE 0

\* A mutant: failures are not passed on.
ExitNeverFault(codes) == 0

ExitCode(codes) == IF \E h \in Harts : codes[h] # 0 THEN 1 ELSE 0

\* keep_going |= iterate_core(m, i), and the end of the round
Return(keep) ==
  LET go == going \/ keep
  IN IF turn < ncpus - 1 THEN turn' = turn + 1 /\ going' = go /\ UNCHANGED <<phase, exit>>
     ELSE /\ turn' = 0 /\ going' = FALSE
          /\ phase' = IF go THEN "run" ELSE "ended"
          /\ exit' = IF go THEN exit ELSE ExitCode(code')

\* A mutant: at the limit the loop goes on without executing anything.
AtLimitFault ==
  /\ UNCHANGED <<maxinsns, terminated, code, tohost, ran, asked, printed, failed>>
  /\ Return(TRUE)

\* if (maxinsns-- <= 0) return 0, of an unsigned counter
AtLimit ==
  /\ maxinsns' = Wrap - 1
  /\ UNCHANGED <<terminated, code, tohost, ran, asked, printed, failed>>
  /\ Return(FALSE)

\* A mutant: a request is not taken back when it has been served.
ServedFault(t) == t

\* What tohost holds after virt_machine_run has looked at it
Served(t) == IF t = "print" THEN "zero" ELSE t

\* A mutant: a hart that shut down asks to go on.
KeepGoingFault(t) == t = "print" \/ (t = "zero" /\ maxinsns' > 0)

KeepGoing(t) == t = "print" \/ (t = "zero" /\ ~terminated'[turn] /\ maxinsns' > 0)

\* A mutant: the limit is looked at only after an instruction that does not print.
AllowedFault == TRUE

Allowed == maxinsns > 0

Execute(e) ==
  LET t == IF e \in {"print", "pass", "fail"} THEN e ELSE tohost
  IN /\ maxinsns' = (maxinsns - 1) % Wrap
     /\ ran' = [ran EXCEPT ![turn] = @ + 1]
     /\ terminated' = [terminated EXCEPT ![turn] = @ \/ e = "shutdown"]
     /\ code' = IF t = "fail" THEN [code EXCEPT ![turn] = 3] ELSE code
     /\ tohost' = Served(t)
     /\ asked' = asked + (IF e = "print" THEN 1 ELSE 0)
     /\ printed' = printed + (IF t = "print" THEN 1 ELSE 0)
     /\ failed' = (failed \/ e = "fail")
     /\ Return(e # "stay" /\ KeepGoing(t))

Executed == MapThenSumSet(LAMBDA h : ran[h], Harts)

IterateCore == /\ phase = "run" /\ Executed < MaxRun
               /\ IF Allowed THEN \E e \in Does : Execute(e) ELSE AtLimit

\* main has returned, or the bound is reached
Ended == (phase = "ended" \/ Executed >= MaxRun) /\ UNCHANGED vars

Next == IterateCore \/ Ended

Spec == Init /\ [][Next]_vars

-----------------------------------------------------------------------------
(* Properties *)

(* "--maxinsns terminates execution after a number of instructions": no     *)
(* more than that are executed, whatever the last of them does.             *)
LimitHolds == Limit > 0 => Executed <= Limit

(* A run with a limit ends.                                                 *)
EndsByLimit == Limit > 0 => <>(phase = "ended")

(* The exit code says whether some program reported a failure, however it   *)
(* was overtaken by the reports of other harts.                             *)
FailureReported == phase = "ended" => (exit = 1 <=> failed)

(* Every request to print is served once, by the hart that made it.         *)
PrintedOnce == asked = printed

(* A hart that called the SBI shutdown executes nothing more ("continue     *)
(* simulation even upon seeing the SBI_SHUTDOWN call" is an option).        *)
StaysDown == \A h \in Harts : terminated[h] => ran'[h] = ran[h]
=============================================================================
