----------------------------- MODULE MCSchedules -----------------------------
(***************************************************************************)
(* The parts whose progress depends on who runs when, for model checking:  *)
(* the fence.i flush and the MSHR allocation of the cache, the timer and   *)
(* the main loop of the emulator, and the co-simulation of a design        *)
(* against it.  One part runs at a time, under its own fairness; the       *)
(* others stand still.                                                     *)
(***************************************************************************)
EXTENDS Integers

VARIABLES
  part,                                                          \* the part that runs
  top, grant, stb, miss, st, ptr, dirty, last, ewrq, kept, lost, \* Fencei
  s0, s1, mshr, repl, loc,                                       \* ScuAlloc
  mcycle, timecmp, mtip, msip, goal, todo, reached,              \* Clint
  maxinsns, turn, going, phase, exit, terminated, code, tohost,
  ran, asked, printed, failed,                                   \* MachineLoop, two instances
  prog, dut, emu, pendI, pendE, budget, call, result, wrong      \* Cosim

\* A bank whose pointers wrap, and two banks
Fence == INSTANCE Fencei WITH Banks <- {1}, Sets <- 2, Ways <- 2, Depth <- 1, MaxStb <- 2, s1 <- last
Fence2 == INSTANCE Fencei WITH Banks <- {1, 2}, Sets <- 1, Ways <- 1, Depth <- 1, MaxStb <- 2, s1 <- last

Alloc == INSTANCE ScuAlloc WITH Sets <- {"a", "b"}, NMshr <- 2, NEscape <- 1, NRepl <- 2

Clint == INSTANCE Clint WITH NCpus <- 1, Word <- 3, Div <- 2, MaxTime <- 4, First <- {"lo"}

\* One hart with a limit, and three without
Does == {"step", "stay", "shutdown", "print", "pass", "fail"}
Loop == INSTANCE MachineLoop WITH ncpus <- 1, Limit <- 7, Wrap <- 16, MaxRun <- 16
Loop3 == INSTANCE MachineLoop WITH ncpus <- 3, Limit <- 0, Wrap <- 8, MaxRun <- 8

Cosim == INSTANCE Cosim WITH Harts <- {1}, User <- {"add", "volatile", "sc", "fault", "ecall"}, Size <- 2,
  MaxInsns <- 6, Faulty <- TRUE, Announced <- FALSE, maxinsns <- budget

ASSUME Fence!FenceiAssumption /\ Fence2!FenceiAssumption /\ Alloc!AllocAssumption
ASSUME Clint!ClintAssumption /\ Loop!LoopAssumption /\ Loop3!LoopAssumption
ASSUME Cosim!CosimAssumption

-----------------------------------------------------------------------------
fence == <<top, grant, stb, miss, st, ptr, dirty, last, ewrq, kept, lost>>
alloc == <<s0, s1, mshr, repl, loc>>
timer == <<mcycle, timecmp, mtip, msip, goal, todo, reached>>
loop == <<maxinsns, turn, going, phase, exit, terminated, code, tohost, ran, asked, printed, failed>>
cosim == <<prog, dut, emu, pendI, pendE, budget, call, result, wrong>>
vars == <<part, fence, alloc, timer, loop, cosim>>

\* What has many initial states has a single one while it stands still.
Init ==
  /\ part \in {"fence", "fence2", "alloc", "timer", "loop", "loop3", "cosim"}
  /\ IF part = "fence" THEN Fence!Init
     ELSE IF part = "fence2" THEN Fence2!Init
     ELSE /\ top = "IDLE" /\ grant = {} /\ stb = 0 /\ miss = {} /\ st = {} /\ ptr = {}
          /\ dirty = {} /\ last = {} /\ ewrq = {} /\ kept = {} /\ lost = FALSE
  /\ Alloc!Init
  /\ Clint!Init
  /\ IF part = "loop3" THEN Loop3!Init ELSE Loop!Init
  /\ IF part = "cosim" THEN Cosim!Init
     ELSE /\ prog = {} /\ dut = {} /\ emu = {} /\ pendI = FALSE /\ pendE = "none" /\ budget = 0
          /\ call = Cosim!NoCall /\ result = "stop" /\ wrong = FALSE

Next ==
  /\ UNCHANGED part
  /\ \/ part = "fence" /\ Fence!Next /\ UNCHANGED <<alloc, timer, loop, cosim>>
     \/ part = "fence2" /\ Fence2!Next /\ UNCHANGED <<alloc, timer, loop, cosim>>
     \/ part = "alloc" /\ Alloc!Next /\ UNCHANGED <<fence, timer, loop, cosim>>
     \/ part = "timer" /\ Clint!Next /\ UNCHANGED <<fence, alloc, loop, cosim>>
     \/ part = "loop" /\ Loop!Next /\ UNCHANGED <<fence, alloc, timer, cosim>>
     \/ part = "loop3" /\ Loop3!Next /\ UNCHANGED <<fence, alloc, timer, cosim>>
     \/ part = "cosim" /\ Cosim!Next /\ UNCHANGED <<fence, alloc, timer, loop>>

\* Every state machine of the L1D moves with the clock, the store buffer and the
\* evict queues drain, and misses end.
FairFence ==
  /\ WF_fence(part = "fence" /\ Fence!TopStep)
  /\ WF_fence(part = "fence" /\ \E l \in Fence!Line : Fence!StoreHit(1, l) \/ Fence!StoreMiss(1, l))
  /\ WF_fence(part = "fence" /\ Fence!BankStep(1))
  /\ WF_fence(part = "fence" /\ Fence!Refill(1))
  /\ WF_fence(part = "fence" /\ Fence!Drain(1))

FairFence2 ==
  /\ WF_fence(part = "fence2" /\ Fence2!TopStep)
  /\ WF_fence(part = "fence2" /\ \E b \in {1, 2}, l \in Fence2!Line : Fence2!StoreHit(b, l) \/ Fence2!StoreMiss(b, l))
  /\ \A b \in {1, 2} : /\ WF_fence(part = "fence2" /\ Fence2!BankStep(b))
                       /\ WF_fence(part = "fence2" /\ Fence2!Refill(b))
                       /\ WF_fence(part = "fence2" /\ Fence2!Drain(b))

\* Every stage and entry of the SCU moves when it can, and what the private caches
\* have to give up reaches it.  Its FIFO is in order except for the rotation, and no
\* request overtakes it: what can be taken again and again is.
FairAlloc ==
  /\ WF_alloc(part = "alloc" /\ Alloc!Advance) /\ WF_alloc(part = "alloc" /\ Alloc!Alloc)
  /\ \A i \in Alloc!Mid : /\ WF_alloc(part = "alloc" /\ Alloc!SnoopMshr(i))
                          /\ WF_alloc(part = "alloc" /\ Alloc!MshrFinal(i))
                          /\ WF_alloc(part = "alloc" /\ Alloc!MshrFree(i))
                          /\ SF_alloc(part = "alloc" /\ Alloc!ForwardMshr(i))
  /\ \A r \in Alloc!Rid : /\ WF_alloc(part = "alloc" /\ Alloc!SnoopRepl(r))
                          /\ WF_alloc(part = "alloc" /\ Alloc!ReplFree(r))
                          /\ SF_alloc(part = "alloc" /\ Alloc!ForwardRepl(r))
                          /\ WF_alloc(part = "alloc" /\ repl[r].loc = "ewrq" /\ Alloc!DisplaceVictim(r))
  /\ \A g \in {"a", "b"} : /\ SF_alloc(part = "alloc" /\ Alloc!TakeEvict(g))
                       /\ WF_alloc(part = "alloc" /\ loc[g] = "ewrq" /\ Alloc!Displace(g))

\* iterate_core runs every hart in turn, main loops until it ends, and a step of the
\* co-simulation that was called goes on to its return.
FairEmulator ==
  /\ WF_timer(part = "timer" /\ Clint!Run(0))
  /\ WF_loop(part = "loop" /\ Loop!IterateCore)
  /\ WF_cosim(part = "cosim" /\ (Cosim!FailSc \/ Cosim!Advance \/ Cosim!Interpret \/ Cosim!Compare))

Spec == Init /\ [][Next]_vars /\ FairFence /\ FairFence2 /\ FairAlloc /\ FairEmulator

-----------------------------------------------------------------------------
(* Properties *)

(* A fence.i that was begun is granted, and then nothing is left in the     *)
(* store buffer, the MSHRs and the evict queues, no line is MODIFIED, and   *)
(* every line with a store has been offered to the evict queue or taken by  *)
(* a snoop, although the set pointer can stay behind or run ahead           *)
(* (rvh_l1d.sv, rvh_l1d_bank.sv).                                           *)
FenceCompletes ==
  /\ [](part = "fence" => Fence!FlushCleans)
  /\ [](part = "fence2" => Fence2!FlushCleans)
  /\ part = "fence" => Fence!FlushEnds
  /\ part = "fence2" => Fence2!FlushEnds

(* An eviction in the SCU's FIFO is taken, by a new MSHR or by the one that *)
(* waits for it, while requests take all MSHRs but the escape ones; and     *)
(* what has been admitted finds its MSHR at stage 1, which does not look    *)
(* for one again (rvh_scu.sv, the evict escape and the rotation of the      *)
(* FIFO).                                                                   *)
EvictionsTaken ==
  /\ [](part = "alloc" => Alloc!AdmittedFindsMshr)
  /\ part = "alloc" => Alloc!EvictionsTaken

(* A hart whose whole deadline is in the past gets its timer interrupt, and *)
(* has none for another deadline (clint_write,                              *)
(* virt_machine_get_sleep_duration).                                        *)
TimerRight ==
  /\ [](part = "timer" => Clint!TickIsDue /\ Clint!DeadlineWhole)
  /\ part = "timer" => Clint!TickComes

(* A run with a limit ends after that many instructions, a hart that shut   *)
(* down executes no more, the exit code tells a failure whoever reports     *)
(* meanwhile, and every request to print is served once (main,              *)
(* iterate_core, virt_machine_run).                                         *)
LoopEnds ==
  /\ [](part = "loop" => Loop!LimitHolds /\ Loop!FailureReported)
  /\ [](part = "loop3" => Loop3!FailureReported /\ Loop3!PrintedOnce)
  /\ [][part = "loop" => Loop!StaysDown]_vars
  /\ part = "loop" => Loop!EndsByLimit

(* A design that does what the instruction set says is never reported, a    *)
(* wrong value is, the emulator stays in step with it over traps and failed *)
(* store-conditionals, and every step returns (dromajo_cosim_step,          *)
(* riscv_cosim.cpp).                                                        *)
CosimRight ==
  /\ [](part = "cosim" => Cosim!NoFalseAlarm /\ Cosim!WrongIsReported /\ Cosim!InStep)
  /\ part = "cosim" => Cosim!StepReturns
==============================================================================
