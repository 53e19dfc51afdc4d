------------------------------- MODULE Traps -------------------------------
(***************************************************************************)
(* Privilege in riscv_cpu.cpp: control and status registers, exceptions    *)
(* and interrupts with delegation to supervisor mode, returns, wait for    *)
(* interrupt, and debug mode.  One hart; the devices raise and lower lines *)
(* between its instructions.  The code runs an instruction at a time, with *)
(* a look for interrupts before each.                                      *)
(***************************************************************************)
EXTENDS Integers, Sequences, FiniteSets, TLAPS

CONSTANTS
  Irqs,       \* numbers of interrupts, out of {1, 3, 5, 7, 9, 11}
  Cosim,      \* values of common.cosim to try
  Modes       \* whether the hart starts in debug mode

SIrqs == Irqs \cap {1, 5, 9}     \* those of supervisor mode, the only ones delegated
Deleg == {"ecall_u"}             \* exceptions that can be delegated, out of medeleg's mask 0xB109

TrapsAssumption == Irqs \subseteq {1, 3, 5, 7, 9, 11} /\ Cosim \subseteq BOOLEAN /\ Modes \subseteq BOOLEAN

PrvU == 0
PrvS == 1
PrvM == 3
Prv == 0..3        \* 2, for a hypervisor, can be written too

VARIABLES
  c,        \* priv, mstatus (mie, mpie, mpp, sie, spie, spp), ip, ie, mideleg, medeleg, pc, mepc, sepc
  sleep,    \* power_down_flag
  debug,    \* debug_mode, with dcsr's return privilege and stop bits, and stop_the_counter
  cosim,    \* common.cosim, and whether an interrupt is pending in the program compared with
  did       \* what the last step was

vars == <<c, sleep, debug, cosim, did>>

\* riscv_cpu_init, and the interrupts all enabled by the guest
Init == /\ c = [priv |-> PrvM, mie |-> FALSE, mpie |-> FALSE, mpp |-> PrvM, sie |-> FALSE, spie |-> FALSE,
                spp |-> PrvU, ip |-> {}, ie |-> {}, mideleg |-> {}, medeleg |-> {}]
        /\ sleep = FALSE
        /\ debug \in [on : Modes, prv : {PrvM}, stopbits : {FALSE}, stopped : {FALSE}]
        /\ cosim \in [on : Cosim, irq : {FALSE}]
        /\ did = "reset"

-----------------------------------------------------------------------------
(* raise_exception2, handle_sret, handle_mret; t is <<cause, is interrupt>> *)

Delegated(s, t) ==
  s.priv <= PrvS /\ IF t[2] THEN t[1] \in s.mideleg ELSE t[1] \in s.medeleg

\* A mutant: the enable bit is cleared before it is saved.
TrapSFault(s) == [s EXCEPT !.spie = FALSE, !.spp = s.priv, !.sie = FALSE, !.priv = PrvS]

TrapS(s) == [s EXCEPT !.spie = s.sie, !.spp = s.priv, !.sie = FALSE, !.priv = PrvS]
TrapM(s) == [s EXCEPT !.mpie = s.mie, !.mpp = s.priv, !.mie = FALSE, !.priv = PrvM]
Raise(s, t) == IF Delegated(s, t) THEN TrapS(s) ELSE TrapM(s)

SretOf(s) == [s EXCEPT !.sie = s.spie, !.spie = TRUE, !.spp = PrvU, !.priv = s.spp]
MretOf(s) == [s EXCEPT !.mie = s.mpie, !.mpie = TRUE, !.mpp = PrvU, !.priv = s.mpp]

-----------------------------------------------------------------------------
(* Interrupts *)

\* A mutant: supervisor mode masks them all.
EnabledFault(s) ==
  CASE s.priv = PrvM -> IF s.mie THEN Irqs \ s.mideleg ELSE {}
    [] s.priv = PrvS -> IF s.sie THEN Irqs ELSE {}
    [] OTHER         -> Irqs

\* get_pending_irq_mask
Enabled(s) ==
  CASE s.priv = PrvM -> IF s.mie THEN Irqs \ s.mideleg ELSE {}
    [] s.priv = PrvS -> (Irqs \ s.mideleg) \cup (IF s.sie THEN s.mideleg ELSE {})
    [] OTHER         -> Irqs

Pending(s) == s.ip \cap s.ie \cap Enabled(s)

\* get_irq_num
Priorities == <<11, 3, 7, 10, 2, 6, 9, 1, 5, 8, 0, 4>>
IrqNum(mask) == LET k == CHOOSE i \in DOMAIN Priorities : /\ Priorities[i] \in mask
                                                          /\ \A j \in 1..(i - 1) : Priorities[j] \notin mask
                IN Priorities[k]

\* Interrupts are looked at when the program compared with takes one, or there is none.
Looks == cosim.on => cosim.irq

TakesIrq == Looks /\ Pending(c) # {}

RaiseInterrupt ==
  /\ TakesIrq
  /\ c' = Raise(c, <<IrqNum(Pending(c)), TRUE>>)
  /\ did' = "irq"
  /\ UNCHANGED <<sleep, debug, cosim>>

-----------------------------------------------------------------------------
(* Instructions.  Each begins where no interrupt is taken.                  *)

Insn(name, d) == ~TakesIrq /\ c' = d /\ did' = name

Exception(name, cause) == Insn(name, Raise(c, <<cause, FALSE>>)) /\ UNCHANGED <<sleep, debug, cosim>>

Ecall == Exception("trap", IF c.priv = PrvU THEN "ecall_u" ELSE "ecall")

\* csr_read, csr_write: not enough privilege
CsrIllegal == c.priv < PrvM /\ Exception("trap", "illegal")

Csr(level, d) == c.priv >= level /\ Insn("csr", d) /\ UNCHANGED <<sleep, debug, cosim>>

WriteMstatus(f) == Csr(PrvM, [c EXCEPT !.mie = f.mie, !.mpie = f.mpie, !.mpp = f.mpp])
WriteSstatus(f) == Csr(PrvS, [c EXCEPT !.sie = f.sie, !.spie = f.spie, !.spp = f.spp])

Masked(old, new, mask) == (old \ mask) \cup (new \cap mask)

WriteMie(new) == Csr(PrvM, [c EXCEPT !.ie = new])
WriteMip(new) == Csr(PrvM, [c EXCEPT !.ip = Masked(c.ip, new, SIrqs)])

\* A mutant: the registers of machine mode are written as they are.
WriteSieFault(new) == Csr(PrvS, [c EXCEPT !.ie = new])

WriteSie(new) == Csr(PrvS, [c EXCEPT !.ie = Masked(c.ie, new, c.mideleg)])
WriteSip(new) == Csr(PrvS, [c EXCEPT !.ip = Masked(c.ip, new, c.mideleg)])

WriteDeleg(i, e) == Csr(PrvM, [c EXCEPT !.mideleg = i \cap SIrqs, !.medeleg = e \cap Deleg])

Sret == c.priv >= PrvS /\ Insn("sret", SretOf(c)) /\ UNCHANGED <<sleep, debug, cosim>>
Mret == c.priv >= PrvM /\ Insn("mret", MretOf(c)) /\ UNCHANGED <<sleep, debug, cosim>>

\* The condition of the code: without a program to compare with it always sleeps.
FallsAsleep == (c.ip \cap c.ie = {} /\ ~cosim.irq) \/ ~cosim.on

Wfi == /\ c.priv # PrvU
       /\ Insn("wfi", c)
       /\ sleep' = (sleep \/ FallsAsleep)
       /\ UNCHANGED <<debug, cosim>>

\* The stop bits of the code: the lowest bit of the privilege.
StopOf(prv, stopbits) == prv % 2 = 1

WriteDcsr(prv, stopbits) ==
  /\ debug.on /\ c.priv >= PrvM
  /\ Insn("csr", c)
  /\ debug' = [debug EXCEPT !.prv = prv, !.stopbits = stopbits, !.stopped = StopOf(prv, stopbits)]
  /\ UNCHANGED <<sleep, cosim>>

Dret == /\ debug.on /\ c.priv >= PrvM
        /\ Insn("dret", [c EXCEPT !.priv = debug.prv])
        /\ debug' = [debug EXCEPT !.on = FALSE, !.stopped = FALSE]
        /\ UNCHANGED <<sleep, cosim>>

-----------------------------------------------------------------------------
(* Devices, and the program compared with *)

\* riscv_cpu_set_mip
SetMip(i) ==
  /\ i \notin c.ip
  /\ c' = [c EXCEPT !.ip = @ \cup {i}]
  /\ sleep' = (sleep /\ ~(c'.ip \cap c.ie # {} /\ Looks))
  /\ did' = "device" /\ UNCHANGED <<debug, cosim>>

ResetMip(i) ==
  /\ i \in c.ip
  /\ c' = [c EXCEPT !.ip = @ \ {i}]
  /\ did' = "device" /\ UNCHANGED <<sleep, debug, cosim>>

CosimIrq(b) ==
  /\ cosim.on /\ cosim' = [cosim EXCEPT !.irq = b]
  /\ did' = "device" /\ UNCHANGED <<c, sleep, debug>>

Next == \/ RaiseInterrupt \/ Ecall \/ CsrIllegal \/ Sret \/ Mret \/ Wfi \/ Dret
        \/ \E f \in [mie : BOOLEAN, mpie : BOOLEAN, mpp : Prv] : WriteMstatus(f)
        \/ \E f \in [sie : BOOLEAN, spie : BOOLEAN, spp : {PrvU, PrvS}] : WriteSstatus(f)
        \/ \E new \in SUBSET Irqs : WriteMie(new) \/ WriteMip(new) \/ WriteSie(new) \/ WriteSip(new)
        \/ \E i \in SUBSET Irqs, e \in SUBSET Deleg : WriteDeleg(i, e)
        \/ \E prv \in Prv, b \in BOOLEAN : WriteDcsr(prv, b)
        \/ \E i \in Irqs : SetMip(i) \/ ResetMip(i)
        \/ \E b \in BOOLEAN : CosimIrq(b)

Spec == Init /\ [][Next]_vars

-----------------------------------------------------------------------------
(* Properties *)

(* Whatever trap is taken now, the return from it brings back the privilege *)
(* and the interrupt enables of this moment, delegated or not               *)
(* (raise_exception2, handle_sret, handle_mret).                            *)
ReturnRestores ==
  \A t \in {<<"ecall_u", FALSE>>, <<"illegal", FALSE>>} \cup (Irqs \X {TRUE}) :
    LET in == Raise(c, t)
        out == IF Delegated(c, t) THEN SretOf(in) ELSE MretOf(in)
    IN /\ in.priv >= c.priv
       /\ <<out.priv, out.mie, out.sie>> = <<c.priv, c.mie, c.sie>>

(* Nothing that runs below machine mode changes what machine mode relies    *)
(* on: its interrupt enables, pending bits, delegation and status. Only a   *)
(* trap to machine mode writes its status (csr_write of sstatus, sie, sip). *)
IsolatedStep ==
     c.priv < PrvM /\ did' \in {"csr", "sret", "wfi"} =>
       /\ c'.mideleg = c.mideleg /\ c'.medeleg = c.medeleg
       /\ c'.ie \ c.mideleg = c.ie \ c.mideleg
       /\ c'.ip \ c.mideleg = c.ip \ c.mideleg
       /\ <<c'.mie, c'.mpie, c'.mpp>> = <<c.mie, c.mpie, c.mpp>>
       /\ c'.priv < PrvM

(* An enabled interrupt that is not delegated is taken before any other     *)
(* instruction of a lower mode, whatever supervisor mode masks.  It is      *)
(* taken in machine mode when one that is never delegated is pending, or no *)
(* delegated one is.  One delegated never interrupts machine mode           *)
(* (get_pending_irq_mask).                                                  *)
MachineFirstStep ==
     /\ (c.ip \cap c.ie) \ c.mideleg # {} /\ c.priv < PrvM /\ Looks /\ did' # "device" =>
          /\ did' = "irq"
          /\ (c.ip \cap c.ie) \ SIrqs # {} \/ c.ip \cap c.ie \cap c.mideleg = {} => c'.priv = PrvM
     /\ did' = "irq" /\ c.priv = PrvM => c'.priv = PrvM /\ c.mie

(* A hart sleeps only while no enabled interrupt is pending:                *)
(* dromajo_template.h:1231 "go to power down if no enabled interrupts are   *)
(* pending".                                                                *)
SleepsWhenIdle == did = "wfi" /\ sleep => c.ip \cap c.ie = {}

(* The counters stop when the debugger says so: riscv_cpu.cpp:1338          *)
(* "stopcount and stoptime && also the priv level to return".               *)
StopsOnRequest == debug.on => debug.stopped = debug.stopbits

-----------------------------------------------------------------------------
(* Proofs *)

\* The types the proofs need.  A trap to supervisor mode saves a privilege that
\* SPP can hold, and nothing but a supervisor's interrupt is ever delegated.
Csrs == [priv : Prv, mie : BOOLEAN, mpie : BOOLEAN, mpp : Prv, sie : BOOLEAN, spie : BOOLEAN,
         spp : {PrvU, PrvS}, ip : SUBSET Irqs, ie : SUBSET Irqs,
         mideleg : SUBSET SIrqs, medeleg : SUBSET Deleg]

TrapsInv == c \in Csrs /\ debug \in [on : BOOLEAN, prv : Prv, stopbits : BOOLEAN, stopped : BOOLEAN]

\* A trap keeps the types, whatever its cause.
LEMMA RaiseTypes ==
  ASSUME NEW s \in Csrs, NEW t
  PROVE  Raise(s, t) \in Csrs
<1>0. PrvU \in Prv /\ PrvS \in Prv /\ PrvM \in Prv
  BY DEF Prv, PrvU, PrvS, PrvM
<1>1. CASE Delegated(s, t)
  <2>1. s.priv \in {PrvU, PrvS}
    BY <1>1 DEF Delegated, Csrs, Prv, PrvU, PrvS
  <2>2. QED
    BY <1>0, <1>1, <2>1 DEF Raise, TrapS, Csrs
<1>2. CASE ~Delegated(s, t)
  BY <1>0, <1>2 DEF Raise, TrapM, Csrs
<1>3. QED
  BY <1>1, <1>2

\* The hart resets in machine mode with nothing delegated.
LEMMA TrapsInit == ASSUME TrapsAssumption, Init PROVE TrapsInv
<1>1. PrvU \in Prv /\ PrvM \in Prv
  BY DEF Prv, PrvU, PrvM
<1>2. c \in Csrs
  BY <1>1 DEF Init, Csrs
<1>3. debug \in [on : BOOLEAN, prv : Prv, stopbits : BOOLEAN, stopped : BOOLEAN]
  BY <1>1 DEF Init, TrapsAssumption
<1>4. QED
  BY <1>2, <1>3 DEF TrapsInv

\* Traps, returns, interrupts and the writes of the registers keep the invariant.
LEMMA TrapsStep == ASSUME TrapsInv, [Next]_vars PROVE TrapsInv'
<1> DEFINE DebugTypes == [on : BOOLEAN, prv : Prv, stopbits : BOOLEAN, stopped : BOOLEAN]
<1>0. c \in Csrs /\ debug \in DebugTypes
  BY DEF TrapsInv
<1>1. CASE RaiseInterrupt
  BY <1>0, <1>1, RaiseTypes DEF RaiseInterrupt, TrapsInv
<1>2. CASE Ecall \/ CsrIllegal
  BY <1>0, <1>2, RaiseTypes DEF Ecall, CsrIllegal, Exception, Insn, TrapsInv
<1>3. CASE Sret \/ Mret
  <2>0. PrvU \in Prv /\ PrvS \in Prv
    BY DEF Prv, PrvU, PrvS
  <2>1. c' \in Csrs
    BY <1>0, <1>3, <2>0 DEF Sret, Mret, Insn, SretOf, MretOf, Csrs
  <2>2. QED
    BY <1>0, <1>3, <2>1 DEF Sret, Mret, TrapsInv
<1>4. CASE Wfi \/ Dret
  <2>1. c' \in Csrs
    BY <1>0, <1>4 DEF Wfi, Dret, Insn, Csrs
  <2>2. debug' \in DebugTypes
    BY <1>0, <1>4 DEF Wfi, Dret
  <2>3. QED
    BY <2>1, <2>2 DEF TrapsInv
<1>5. CASE \E f \in [mie : BOOLEAN, mpie : BOOLEAN, mpp : Prv] : WriteMstatus(f)
  BY <1>0, <1>5 DEF WriteMstatus, Csr, Insn, TrapsInv, Csrs
<1>6. CASE \E f \in [sie : BOOLEAN, spie : BOOLEAN, spp : {PrvU, PrvS}] : WriteSstatus(f)
  BY <1>0, <1>6 DEF WriteSstatus, Csr, Insn, TrapsInv, Csrs
<1>7. CASE \E new \in SUBSET Irqs : WriteMie(new) \/ WriteMip(new) \/ WriteSie(new) \/ WriteSip(new)
  BY <1>0, <1>7 DEF WriteMie, WriteMip, WriteSie, WriteSip, Masked, Csr, Insn, TrapsInv, Csrs
<1>8. CASE \E i \in SUBSET Irqs, e \in SUBSET Deleg : WriteDeleg(i, e)
  BY <1>0, <1>8 DEF WriteDeleg, Csr, Insn, TrapsInv, Csrs
<1>9. CASE \E prv \in Prv, b \in BOOLEAN : WriteDcsr(prv, b)
  <2> PICK prv \in Prv, b \in BOOLEAN : WriteDcsr(prv, b)
    BY <1>9
  <2>1. StopOf(prv, b) \in BOOLEAN
    BY DEF StopOf
  <2>2. QED
    BY <1>0, <2>1 DEF WriteDcsr, Insn, TrapsInv
<1>10. CASE \E i \in Irqs : SetMip(i) \/ ResetMip(i)
  BY <1>0, <1>10 DEF SetMip, ResetMip, TrapsInv, Csrs
<1>11. CASE \E b \in BOOLEAN : CosimIrq(b)
  BY <1>0, <1>11 DEF CosimIrq, TrapsInv
<1>12. CASE UNCHANGED vars
  BY <1>0, <1>12 DEF vars, TrapsInv
<1>13. QED
  BY <1>1, <1>2, <1>3, <1>4, <1>5, <1>6, <1>7, <1>8, <1>9, <1>10, <1>11, <1>12 DEF Next

\* Whatever trap is taken, at any moment and with any delegation, the return from
\* it brings back the privilege and the interrupt enables (raise_exception2,
\* handle_sret, handle_mret).
THEOREM TrapsReturn == ASSUME TrapsAssumption PROVE Spec => []ReturnRestores
<1>1. Init => TrapsInv
  BY TrapsInit
<1>2. TrapsInv /\ [Next]_vars => TrapsInv'
  BY TrapsStep
<1>3. TrapsInv => ReturnRestores
  <2> SUFFICES ASSUME TrapsInv, NEW t
               PROVE  LET in == Raise(c, t)
                          out == IF Delegated(c, t) THEN SretOf(in) ELSE MretOf(in)
                      IN /\ in.priv >= c.priv
                         /\ <<out.priv, out.mie, out.sie>> = <<c.priv, c.mie, c.sie>>
    BY DEF ReturnRestores
  <2> c \in Csrs
    BY DEF TrapsInv
  <2>1. CASE Delegated(c, t)
    <3>1. c.priv \in {PrvU, PrvS}
      BY <2>1 DEF Delegated, Csrs, Prv, PrvU, PrvS
    <3>2. QED
      BY <2>1, <3>1 DEF Raise, TrapS, SretOf, Csrs, PrvU, PrvS
  <2>2. CASE ~Delegated(c, t)
    BY <2>2 DEF Raise, TrapM, MretOf, Csrs, Prv, PrvM
  <2>3. QED
    BY <2>1, <2>2
<1>4. QED
  BY <1>1, <1>2, <1>3, PTL DEF Spec

\* Below machine mode no CSR write, return or wait changes what machine mode relies
\* on (csr_write of sstatus, sie and sip).
THEOREM TrapsIsolated == ASSUME TrapsAssumption PROVE Spec => [][IsolatedStep]_vars
<1>1. Init => TrapsInv
  BY TrapsInit
<1>2. TrapsInv /\ [Next]_vars => TrapsInv'
  BY TrapsStep
<1>3. TrapsInv /\ [Next]_vars => [IsolatedStep]_vars
  <2> SUFFICES ASSUME TrapsInv, Next, c.priv < PrvM, did' \in {"csr", "sret", "wfi"}
               PROVE  /\ c'.mideleg = c.mideleg /\ c'.medeleg = c.medeleg
                      /\ c'.ie \ c.mideleg = c.ie \ c.mideleg
                      /\ c'.ip \ c.mideleg = c.ip \ c.mideleg
                      /\ <<c'.mie, c'.mpie, c'.mpp>> = <<c.mie, c.mpie, c.mpp>>
                      /\ c'.priv < PrvM
    BY DEF IsolatedStep
  <2>0. c \in Csrs /\ c.priv \in {0, 1, 2}
    BY DEF TrapsInv, Csrs, Prv, PrvM
  <2>1. CASE Sret
    BY <2>0, <2>1 DEF Sret, Insn, SretOf, Csrs, PrvU, PrvS, PrvM
  <2>2. CASE Wfi
    BY <2>2 DEF Wfi, Insn
  <2>3. CASE \E f \in [sie : BOOLEAN, spie : BOOLEAN, spp : {PrvU, PrvS}] : WriteSstatus(f)
    BY <2>0, <2>3 DEF WriteSstatus, Csr, Insn, Csrs
  <2>4. CASE \E new \in SUBSET Irqs : WriteSie(new) \/ WriteSip(new)
    BY <2>0, <2>4 DEF WriteSie, WriteSip, Masked, Csr, Insn, Csrs
  <2>5. ~(RaiseInterrupt \/ Ecall \/ CsrIllegal \/ Mret \/ Dret)
    BY DEF RaiseInterrupt, Ecall, CsrIllegal, Exception, Insn, Mret, Dret
  <2>6. /\ \A f : ~WriteMstatus(f)
        /\ \A new : ~WriteMie(new) /\ ~WriteMip(new)
        /\ \A i, e : ~WriteDeleg(i, e) /\ ~WriteDcsr(i, e)
    <3>1. ~(c.priv >= PrvM)
      BY <2>0 DEF PrvM
    <3>2. QED
      BY <3>1 DEF WriteMstatus, Csr, WriteMie, WriteMip, WriteDeleg, WriteDcsr
  <2>7. \A i : ~SetMip(i) /\ ~ResetMip(i) /\ ~CosimIrq(i)
    BY DEF SetMip, ResetMip, CosimIrq
  <2>8. QED
    BY <2>1, <2>2, <2>3, <2>4, <2>5, <2>6, <2>7 DEF Next
<1>4. QED
  BY <1>1, <1>2, <1>3, PTL DEF Spec

\* The interrupts of machine mode have the first places in the table of priorities,
\* so one that is never delegated is chosen before any that can be (get_irq_num).
LEMMA IrqChosen ==
  ASSUME NEW mask \in SUBSET {1, 3, 5, 7, 9, 11}, mask # {}
  PROVE  /\ IrqNum(mask) \in mask
         /\ mask \cap {3, 7, 11} # {} => IrqNum(mask) \in {3, 7, 11}
<1> DEFINE First(i) == Priorities[i] \in mask /\ \A j \in 1..(i - 1) : Priorities[j] \notin mask
<1>1. /\ DOMAIN Priorities = 1..12
      /\ Priorities[1] = 11 /\ Priorities[2] = 3 /\ Priorities[3] = 7 /\ Priorities[4] = 10
      /\ Priorities[5] = 2 /\ Priorities[6] = 6 /\ Priorities[7] = 9 /\ Priorities[8] = 1
      /\ Priorities[9] = 5
  BY DEF Priorities
<1> HIDE DEF Priorities
<1>2. \E i \in DOMAIN Priorities : First(i)
  <2>1. 11 \in mask => First(1)
    BY <1>1
  <2>2. 3 \in mask /\ 11 \notin mask => First(2)
    BY <1>1
  <2>3. 7 \in mask /\ mask \cap {3, 11} = {} => First(3)
    BY <1>1
  <2>4. \A i \in 1..8 : i = 1 \/ i = 2 \/ i = 3 \/ i = 4 \/ i = 5 \/ i = 6 \/ i = 7 \/ i = 8
    OBVIOUS
  <2>5. 9 \in mask /\ mask \cap {3, 7, 11} = {} => First(7)
    BY <1>1, <2>4
  <2>6. 1 \in mask /\ mask \cap {3, 7, 9, 11} = {} => First(8)
    BY <1>1, <2>4
  <2>7. 5 \in mask /\ mask \cap {1, 3, 7, 9, 11} = {} => First(9)
    BY <1>1, <2>4
  <2>8. PICK i \in {1, 2, 3, 7, 8, 9} : First(i)
    BY <2>1, <2>2, <2>3, <2>5, <2>6, <2>7
  <2>9. i \in DOMAIN Priorities
    BY <1>1
  <2>10. QED
    BY <2>8, <2>9
<1>3. PICK k \in DOMAIN Priorities : k = (CHOOSE i \in DOMAIN Priorities : First(i)) /\ First(k)
  BY <1>1, <1>2
<1>4. IrqNum(mask) = Priorities[k]
  BY <1>3 DEF IrqNum
<1>5. mask \cap {3, 7, 11} # {} => k \in {1, 2, 3}
  BY <1>1, <1>3
<1>6. QED
  BY <1>1, <1>3, <1>4, <1>5

\* An interrupt for machine mode is taken before any instruction of a lower mode,
\* and none that is delegated interrupts machine mode (get_pending_irq_mask).
THEOREM TrapsMachineFirst == ASSUME TrapsAssumption PROVE Spec => [][MachineFirstStep]_vars
<1>1. Init => TrapsInv
  BY TrapsInit
<1>2. TrapsInv /\ [Next]_vars => TrapsInv'
  BY TrapsStep
<1>3. TrapsInv /\ [Next]_vars => [MachineFirstStep]_vars
  <2> SUFFICES ASSUME TrapsInv, Next PROVE MachineFirstStep
    OBVIOUS
  <2> DEFINE Raised == c.ip \cap c.ie
  <2>0. c \in Csrs /\ Irqs \subseteq {1, 3, 5, 7, 9, 11}
    BY DEF TrapsInv, TrapsAssumption
  <2>1. did' = "irq" => RaiseInterrupt
    BY DEF Next, Ecall, CsrIllegal, Exception, Insn, Sret, Mret, Wfi, Dret, WriteMstatus, WriteSstatus,
           Csr, WriteMie, WriteMip, WriteSie, WriteSip, WriteDeleg, WriteDcsr, SetMip, ResetMip, CosimIrq
  <2>2. did' # "irq" /\ did' # "device" => ~TakesIrq
    BY DEF Next, RaiseInterrupt, Ecall, CsrIllegal, Exception, Insn, Sret, Mret, Wfi, Dret, WriteMstatus,
           WriteSstatus, Csr, WriteMie, WriteMip, WriteSie, WriteSip, WriteDeleg, WriteDcsr, SetMip,
           ResetMip, CosimIrq
  <2>3. c.priv < PrvM => Raised \ c.mideleg \subseteq Pending(c)
    BY <2>0 DEF Pending, Enabled, Csrs, Prv, PrvS, PrvM
  <2>4. Pending(c) \subseteq Raised /\ Pending(c) \subseteq {1, 3, 5, 7, 9, 11}
    BY <2>0 DEF Pending, Csrs
  <2>5. ASSUME Raised \ c.mideleg # {}, c.priv < PrvM, Looks, did' # "device"
        PROVE  did' = "irq"
    BY <2>2, <2>3, <2>5 DEF TakesIrq
  <2>6. ASSUME Raised \ c.mideleg # {}, c.priv < PrvM, did' = "irq",
               Raised \ SIrqs # {} \/ Raised \cap c.mideleg = {}
        PROVE  c'.priv = PrvM
    <3> DEFINE n == IrqNum(Pending(c))
    <3>1. Pending(c) # {}
      BY <2>3, <2>6
    <3>2. n \in Pending(c) /\ (Pending(c) \cap {3, 7, 11} # {} => n \in {3, 7, 11})
      BY <2>4, <3>1, IrqChosen
    <3>3. c.mideleg \subseteq SIrqs /\ Raised \subseteq Irqs
      BY <2>0 DEF Csrs
    <3>4. n \notin c.mideleg
      <4>1. CASE Raised \ SIrqs # {}
        <5>1. (Raised \ SIrqs) \subseteq Pending(c) \cap {3, 7, 11}
          BY <2>0, <2>3, <2>6, <3>3 DEF SIrqs
        <5>2. n \in {3, 7, 11}
          BY <4>1, <5>1, <3>2
        <5>3. QED
          BY <5>2, <3>3 DEF SIrqs
      <4>2. CASE Raised \cap c.mideleg = {}
        BY <4>2, <2>4, <3>2
      <4>3. QED
        BY <2>6, <4>1, <4>2
    <3>5. c' = Raise(c, <<n, TRUE>>)
      BY <2>1, <2>6 DEF RaiseInterrupt
    <3> HIDE DEF n
    <3>6. QED
      BY <3>4, <3>5, <2>0 DEF Raise, Delegated, TrapM, Csrs
  <2>7. ASSUME did' = "irq", c.priv = PrvM
        PROVE  c'.priv = PrvM /\ c.mie
    <3>1. RaiseInterrupt /\ Pending(c) # {}
      BY <2>1, <2>7 DEF RaiseInterrupt, TakesIrq
    <3>2. c.mie
      <4>1. Enabled(c) = IF c.mie THEN Irqs \ c.mideleg ELSE {}
        BY <2>7 DEF Enabled, PrvS, PrvM
      <4>2. QED
        BY <3>1, <4>1 DEF Pending
    <3>3. ~Delegated(c, <<IrqNum(Pending(c)), TRUE>>)
      BY <2>7 DEF Delegated, PrvS, PrvM
    <3>4. QED
      BY <2>0, <3>1, <3>2, <3>3 DEF RaiseInterrupt, Raise, TrapM, Csrs
  <2>8. QED
    BY <2>5, <2>6, <2>7 DEF MachineFirstStep
<1>4. QED
  BY <1>1, <1>2, <1>3, PTL DEF Spec
=============================================================================
