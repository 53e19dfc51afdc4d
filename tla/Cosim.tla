------------------------------- MODULE Cosim -------------------------------
(***************************************************************************)
(* The emulator as the golden model of a device under test (DUT), from     *)
(* dromajo_cosim.cpp.  The DUT announces the traps it takes with           *)
(* raise_trap and every instruction it retires with step; a step makes the *)
(* emulator run until it has executed one instruction, and compares.       *)
(* A step is split at each call of the interpreter; nothing else runs in   *)
(* the meantime.                                                           *)
(***************************************************************************)
EXTENDS Integers, TLC

CONSTANTS
  Harts,
  User,          \* the instructions a program may consist of
  Size,          \* the length of a program, which starts over at its end
  MaxInsns,      \* --maxinsns, shared by all harts
  Faulty,        \* whether the DUT may compute a wrong value
  Announced      \* whether it calls raise_trap for an ecall, which it also retires

CosimAssumption ==
  Size \in Nat \ {0} /\ MaxInsns \in Nat /\ Faulty \in BOOLEAN /\ Announced \in BOOLEAN

None == "none"
NoCall == [stage |-> "none"]
Insns == {"add", "volatile", "sc", "fault", "ecall"}   \* volatile: reads a counter or a device

VARIABLES
  prog,          \* the user code
  dut,           \* the device: a hart state for each hart
  emu,           \* the emulator's hart states
  pendI, pendE,  \* VirtMachine: pending_interrupt, pending_exception, of the machine
  maxinsns,
  call,          \* the step in progress: its hart and what the DUT retired
  result,        \* "run", "stop", "mismatch" or "assert"
  wrong          \* the DUT has retired a wrong value (history)

vars == <<prog, dut, emu, pendI, pendE, maxinsns, call, result, wrong>>

-----------------------------------------------------------------------------
(* The instruction set, for both sides.  Exceptions are delegated to level  *)
(* 1, interrupts go to level 3 and are always enabled below it.             *)

SVec == 100
MVec == 200
Handler == (SVec :> "skip") @@ (SVec + 1 :> "sret") @@ (MVec :> "clear") @@ (MVec + 1 :> "mret")
InsnAt(pc) == IF pc \in DOMAIN Handler THEN Handler[pc] ELSE prog[pc % Size]

Hart0 == [pc |-> 0, priv |-> 0, sepc |-> 0, mepc |-> 0, scause |-> None, mcause |-> None, mip |-> FALSE, x |-> 0]

After(pc) == IF pc < SVec THEN (pc + 1) % Size ELSE pc + 1
Exception(s, cause) == [s EXCEPT !.pc = SVec, !.priv = 1, !.sepc = s.pc, !.scause = cause]
Interrupt(s) == [s EXCEPT !.pc = MVec, !.priv = 3, !.mepc = s.pc, !.mcause = "int"]
InterruptReturn(s) == [s EXCEPT !.pc = s.mepc, !.priv = IF s.mepc < SVec THEN 0 ELSE 1]

\* An instruction that raises nothing; v is what it finds in a counter or a device.
Exec(s, v) ==
  LET insn == InsnAt(s.pc)
      next == [s EXCEPT !.pc = After(s.pc)]
  IN CASE insn = "add"      -> [next EXCEPT !.x = 1 - s.x]
       [] insn = "volatile" -> [next EXCEPT !.x = v]
       [] insn = "sc"       -> [next EXCEPT !.x = v]        \* 0 is success
       [] insn = "skip"     -> [next EXCEPT !.sepc = After(s.sepc)]
       [] insn = "sret"     -> [s EXCEPT !.pc = s.sepc, !.priv = 0]
       [] insn = "clear"    -> [next EXCEPT !.mip = FALSE]
       [] insn = "mret"     -> InterruptReturn(s)

Writes(insn) == insn \in {"add", "volatile", "sc"}

-----------------------------------------------------------------------------
(* The calls *)

Init == /\ prog \in [0..(Size - 1) -> User]
        /\ dut = [h \in Harts |-> Hart0] /\ emu = [h \in Harts |-> Hart0]
        /\ pendI = FALSE /\ pendE = None /\ maxinsns = MaxInsns
        /\ call = NoCall /\ result = "run" /\ wrong = FALSE

Idle == call = NoCall /\ result = "run"

\* dromajo_cosim_raise_trap: the hart is not looked at.
RaiseInterrupt == IF pendI THEN result' = "assert" /\ UNCHANGED pendI ELSE pendI' = TRUE /\ UNCHANGED result

\* dromajo_cosim_step up to its loop; c says what was retired
Step(c) ==
  IF maxinsns = 0 THEN result' = "stop" /\ UNCHANGED <<maxinsns, call>>
  ELSE maxinsns' = maxinsns - 1 /\ call' = c /\ UNCHANGED result

\* The DUT takes an interrupt, or an exception that cancels its instruction, or both at once.
TakeInterrupt(h) ==
  /\ Idle /\ dut[h].priv < 3
  /\ dut' = [dut EXCEPT ![h] = Interrupt(@)]
  /\ RaiseInterrupt
  /\ UNCHANGED <<prog, emu, pendE, maxinsns, call, wrong>>

TakeException(h) ==
  /\ Idle /\ InsnAt(dut[h].pc) = "fault"
  /\ dut' = [dut EXCEPT ![h] = Exception(@, "fault")]
  /\ pendE' = "fault"
  /\ UNCHANGED <<prog, emu, pendI, maxinsns, call, result, wrong>>

TakeBoth(h) ==
  /\ Idle /\ InsnAt(dut[h].pc) = "fault"
  /\ dut' = [dut EXCEPT ![h] = Interrupt(Exception(@, "fault"))]
  /\ RaiseInterrupt
  /\ pendE' = "fault"
  /\ UNCHANGED <<prog, emu, maxinsns, call, wrong>>

\* The DUT retires an instruction; v is what a counter, a device or a failing sc gives it.
Retire(h, v) ==
  LET s == dut[h]
      insn == InsnAt(s.pc)
      good == Exec(s, v)
      seen(d) == [h |-> h, pc |-> s.pc, insn |-> insn, wdata |-> d.x, stage |-> "loop"]
  IN /\ Idle /\ insn \notin {"fault", "ecall"}
     /\ insn \notin {"volatile", "sc"} => v = 0
     /\ \/ dut' = [dut EXCEPT ![h] = good] /\ Step(seen(good)) /\ UNCHANGED wrong
        \/ /\ Faulty /\ insn = "add"
           /\ dut' = [dut EXCEPT ![h] = [good EXCEPT !.x = s.x]]
           /\ Step(seen(dut'[h])) /\ wrong' = TRUE
     /\ UNCHANGED <<prog, emu, pendI, pendE>>

\* An ecall is an instruction the emulator counts, and an exception.
RetireEcall(h) ==
  /\ Idle /\ InsnAt(dut[h].pc) = "ecall"
  /\ dut' = [dut EXCEPT ![h] = Exception(@, "ecall")]
  /\ pendE' = IF Announced THEN "ecall" ELSE pendE
  /\ Step([h |-> h, pc |-> dut[h].pc, insn |-> "ecall", wdata |-> dut[h].x, stage |-> "loop"])
  /\ UNCHANGED <<prog, emu, pendI, wrong>>

-----------------------------------------------------------------------------
(* A step in the emulator *)

\* riscv_cpu_interp64(s, 1): the new state and whether it executed an instruction
Taken(s) == s.mip /\ pendI /\ s.priv < 3
Interp(s) ==
  IF Taken(s) THEN [s |-> Interrupt(s), ran |-> FALSE]
  ELSE IF InsnAt(s.pc) = "fault" THEN [s |-> Exception(s, "fault"), ran |-> FALSE]
  ELSE IF InsnAt(s.pc) = "ecall" THEN [s |-> Exception(s, "ecall"), ran |-> TRUE]
  ELSE [s |-> Exec(s, 0), ran |-> TRUE]

At(stage) == call # NoCall /\ result = "run" /\ call.stage = stage
Go(stage) == call' = [call EXCEPT !.stage = stage]
Ran(s, pc) == call' = [h |-> call.h, pc |-> call.pc, insn |-> call.insn, wdata |-> call.wdata,
                       stage |-> "compare", at |-> pc, wrote |-> Writes(InsnAt(pc))]
E == emu[call.h]
FailedSc == E.pc = call.pc /\ call.insn = "sc" /\ call.wdata # 0
Both == pendI /\ pendE # None
Unchanged == UNCHANGED <<prog, dut, maxinsns, wrong>>

\* A mutant: the register is set and the program counter is not.
FailScFault ==
  /\ At("loop") /\ FailedSc
  /\ emu' = [emu EXCEPT ![call.h].x = call.wdata]
  /\ Ran(E, E.pc)
  /\ UNCHANGED <<pendI, pendE, result>> /\ Unchanged

\* A store-conditional that failed in the DUT fails in the emulator.
FailSc ==
  /\ At("loop") /\ FailedSc
  /\ emu' = [emu EXCEPT ![call.h].x = call.wdata, ![call.h].pc = After(@)]
  /\ Ran(E, E.pc)
  /\ UNCHANGED <<pendI, pendE, result>> /\ Unchanged

\* An interrupt raced an exception: enter the exception first, which must have the cause announced.
Advance ==
  /\ At("loop") /\ ~FailedSc
  /\ LET s == Interp(E).s
         cause == IF s.priv = 1 THEN s.scause ELSE s.mcause
     IN IF ~Both THEN UNCHANGED <<emu, result>> /\ Go("interp")
        ELSE /\ emu' = [emu EXCEPT ![call.h] = s]
             /\ IF cause = pendE THEN Go("interp") /\ UNCHANGED result
                ELSE result' = "mismatch" /\ UNCHANGED call
  /\ UNCHANGED <<pendI, pendE>> /\ Unchanged

\* A mutant: a trap that was entered stays pending.
InterpretFault ==
  /\ At("interp")
  /\ LET r == Interp([E EXCEPT !.mip = @ \/ pendI])
     IN /\ emu' = [emu EXCEPT ![call.h] = r.s]
        /\ IF r.ran THEN Ran(r.s, E.pc) ELSE Go("loop")
  /\ UNCHANGED <<pendI, pendE, result>> /\ Unchanged

\* A mutant: an executed instruction does not end the loop.
InterpretSpinFault ==
  /\ At("interp")
  /\ emu' = [emu EXCEPT ![call.h] = Interp([E EXCEPT !.mip = @ \/ pendI]).s]
  /\ Go("loop") /\ pendI' = FALSE /\ pendE' = None
  /\ UNCHANGED result /\ Unchanged

Interpret ==
  /\ At("interp")
  /\ LET r == Interp([E EXCEPT !.mip = @ \/ pendI])
     IN /\ emu' = [emu EXCEPT ![call.h] = r.s]
        /\ IF r.ran THEN Ran(r.s, E.pc) /\ UNCHANGED <<pendI, pendE>>
           ELSE Go("loop") /\ pendI' = FALSE /\ pendE' = None
  /\ UNCHANGED result /\ Unchanged

\* A mutant: whatever was written, the value of the DUT is taken over before it is compared.
CompareFault ==
  /\ At("compare")
  /\ LET x == IF call.wrote THEN call.wdata ELSE E.x
     IN /\ emu' = [emu EXCEPT ![call.h].x = x]
        /\ result' = IF call.at # call.pc THEN "mismatch" ELSE "run"
  /\ call' = NoCall
  /\ UNCHANGED <<pendI, pendE>> /\ Unchanged

\* handle_dut_overrides, then the comparison
Compare ==
  /\ At("compare")
  /\ LET x == IF InsnAt(call.at) = "volatile" THEN call.wdata ELSE E.x
     IN /\ emu' = [emu EXCEPT ![call.h].x = x]
        /\ result' = IF \/ call.at # call.pc \/ InsnAt(call.at) # call.insn
                        \/ call.wrote /\ x # call.wdata THEN "mismatch" ELSE "run"
  /\ call' = NoCall
  /\ UNCHANGED <<pendI, pendE>> /\ Unchanged

Finished == result # "run" /\ UNCHANGED vars

Next == \/ \E h \in Harts : \/ TakeInterrupt(h) \/ TakeException(h) \/ TakeBoth(h) \/ RetireEcall(h)
                            \/ \E v \in {0, 1} : Retire(h, v)
        \/ FailSc \/ Advance \/ Interpret \/ Compare
        \/ Finished

Spec == Init /\ [][Next]_vars

-----------------------------------------------------------------------------
(* Properties *)

(* A DUT that does what the instruction set says is never reported, in any  *)
(* order of traps and instructions: "returns zero if the supplied expected  *)
(* values match".                                                           *)
NoFalseAlarm == result \in {"mismatch", "assert"} => wrong

(* A wrong value is reported by the step that retires it: nothing the       *)
(* emulator takes over from the DUT hides it.                               *)
WrongIsReported == wrong /\ call = NoCall => result # "run"

(* Between steps the emulator is where the DUT is, unless traps of the DUT  *)
(* were announced and no step has followed.                                 *)
Seen(s) == <<s.pc, s.priv, s.x>>
InStep == Idle /\ ~pendI /\ pendE = None => \A h \in Harts : Seen(emu[h]) = Seen(dut[h])

(* A step never waits for an instruction that does not come: every trap is  *)
(* entered once and then an instruction is executed.                        *)
StepReturns == call # NoCall ~> (call = NoCall \/ result # "run")
=============================================================================
