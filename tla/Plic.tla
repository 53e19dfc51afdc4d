-------------------------------- MODULE Plic --------------------------------
(***************************************************************************)
(* The interrupt controller of riscv_machine.cpp.  A line that goes up is  *)
(* pending; a hart that claims it makes it served, and completes it when   *)
(* its handler is done.  plic_update_mip turns the result into the         *)
(* external interrupt bits of a hart, and not every access calls it.       *)
(***************************************************************************)
EXTENDS Integers, FiniteSets, FiniteSetsExt

CONSTANTS
  NCpus,     \* harts
  Irq,       \* sources in use; a smaller number is served first
  Context    \* numbers of the claim registers the guest uses

PlicAssumption ==
  /\ NCpus \in Nat \ {0} /\ Irq \subseteq 1..31
  /\ Context \subseteq 0..(NCpus - 1)    \* beyond, the code has no hart to update

Hart == 0..(NCpus - 1)

VARIABLES
  plic,      \* pending, served, and for each hart the enabled sources and MIP bits
  serving,   \* sources each context has claimed and not completed
  missed     \* history: sources that became pending, or enabled, unseen by plic_update_mip

plicVars == <<plic, serving, missed>>

\* The contexts of a hart, 0: supervisor, 1: machine.
Ctx == {0, 1}

\* PLIC_HART_CONFIG is "MS": two contexts for each hart.
HartOf(context) == context \div 2

-----------------------------------------------------------------------------
Claimable(p) == p.pending \ p.served

\* plic_update_mip
UpdateMip(p, h) ==
  [p EXCEPT !.mip[h] = {c \in Ctx : Claimable(p) \cap p.enable[h][c] # {}}]

\* A mutant: only the first hart is told.
UpdateAllFault(p) == UpdateMip(p, 0)

UpdateAll(p) == [p EXCEPT !.mip = [h \in Hart |-> UpdateMip(p, h).mip[h]]]

\* A mutant: the source stays pending when its line goes down.
SetIrqFault(p, irq, level) ==
  UpdateAll([p EXCEPT !.pending = IF level THEN @ \cup {irq} ELSE @])

\* plic_set_irq
SetIrq(p, irq, level) ==
  UpdateAll([p EXCEPT !.pending = IF level THEN @ \cup {irq} ELSE @ \ {irq}])

\* A mutant: the claimed source is not marked.
ServedFault(p, irq) == p.served

Served(p, irq) == p.served \cup {irq}

\* A mutant: the hart is not told.
ClaimFault(p, context) ==
  IF Claimable(p) = {} THEN [irq |-> 0, plic |-> p]
  ELSE LET i == Min(Claimable(p))
       IN [irq |-> i, plic |-> [p EXCEPT !.served = Served(p, i), !.pending = @ \ {i}]]

\* plic_read of the claim register of a context: the number of the context is
\* taken for that of the hart.  A claim does not look at the enabled sources.
Claim(p, context) ==
  IF Claimable(p) = {} THEN [irq |-> 0, plic |-> p]
  ELSE LET i == Min(Claimable(p))
       IN [irq |-> i,
           plic |-> UpdateMip([p EXCEPT !.served = Served(p, i), !.pending = @ \ {i}], context)]

\* plic_write of the completion register: nobody is told.
Complete(p, irq) == [p EXCEPT !.served = @ \ {irq}]

\* plic_write of an enable register, likewise.
WriteEnable(p, h, c, irqs) == [p EXCEPT !.enable[h][c] = irqs]

PlicInit == /\ plic = [pending |-> {}, served |-> {},
                       enable |-> [h \in Hart |-> [c \in Ctx |-> {}]],
                       mip |-> [h \in Hart |-> {}]]
            /\ serving = [c \in Context |-> {}]
            /\ missed = {}

-----------------------------------------------------------------------------
(* Devices raise and lower their lines; harts enable, claim and complete.   *)

Line(irq, level) ==
  /\ plic' = SetIrq(plic, irq, level)
  /\ missed' = IF level THEN (IF irq \in plic.served THEN missed \cup {irq} ELSE missed \ {irq})
               ELSE missed \ {irq}
  /\ UNCHANGED serving

Enable(h, c, irqs) ==
  /\ plic' = WriteEnable(plic, h, c, irqs)
  /\ missed' = missed \cup (Claimable(plic) \cap irqs)
  /\ UNCHANGED serving

ClaimStep(context) ==
  LET r == Claim(plic, context)
  IN /\ plic' = r.plic
     /\ serving' = IF r.irq = 0 THEN serving
                   ELSE [serving EXCEPT ![context] = @ \cup {r.irq}]
     /\ missed' = missed \ {r.irq}

CompleteStep(context, irq) ==
  /\ irq \in serving[context]
  /\ plic' = Complete(plic, irq)
  /\ serving' = [serving EXCEPT ![context] = @ \ {irq}]
  /\ UNCHANGED missed

Next == \/ \E i \in Irq, level \in BOOLEAN : Line(i, level)
        \/ \E h \in Hart, c \in Ctx, s \in SUBSET Irq : Enable(h, c, s)
        \/ \E c \in Context : ClaimStep(c) \/ \E i \in Irq : CompleteStep(c, i)

Spec == PlicInit /\ [][Next]_plicVars

-----------------------------------------------------------------------------
(* Properties *)

(* A source is handled by one context at a time, from its claim to its      *)
(* completion, however its line moves meanwhile (plic_read, plic_write).    *)
OneHandler ==
  /\ \A c, d \in Context : c # d => serving[c] \cap serving[d] = {}
  /\ UNION {serving[c] : c \in Context} = plic.served

(* A source that can be claimed is signalled to every hart that has it      *)
(* enabled, unless it was raised while it was served or enabled after it    *)
(* was raised (plic_update_mip runs in plic_set_irq and in a claim only).   *)
PendingSignalled ==
  \A h \in Hart, c \in Ctx :
    (Claimable(plic) \ missed) \cap plic.enable[h][c] # {} => c \in plic.mip[h]

(* After a claim by one of these contexts its hart is interrupted only for  *)
(* what is left: its own external interrupt bits have been computed again   *)
(* (plic_read).                                                             *)
ClaimQuietsFor(contexts) ==
     \A c \in contexts :
       serving'[c] # serving[c] /\ serving[c] \subseteq serving'[c] =>
         LET h == HartOf(c)
         IN plic'.mip[h] = {x \in Ctx : Claimable(plic') \cap plic'.enable[h][x] # {}}

(* So it is for every claim (the contexts of hart h are 2h and 2h + 1,      *)
(* riscv_machine.cpp:325).                                                  *)
ClaimQuiets == ClaimQuietsFor(Context)

-----------------------------------------------------------------------------
(* The inductive invariant: what is pending while it is served was missed.  *)

PlicType == [pending : SUBSET Irq, served : SUBSET Irq,
             enable : [Hart -> [Ctx -> SUBSET Irq]], mip : [Hart -> SUBSET Ctx]]

PlicInv ==
  /\ plic \in PlicType
  /\ serving \in [Context -> SUBSET Irq]
  /\ plic.pending \cap plic.served \subseteq missed
  /\ OneHandler /\ PendingSignalled
=============================================================================
