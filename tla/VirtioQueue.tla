---------------------------- MODULE VirtioQueue ----------------------------
(***************************************************************************)
(* The transport that the virtio devices of dromajo share (virtio.cpp):    *)
(* queue registers, the available and used rings, notification, interrupt  *)
(* status and reset, over MMIO or PCI.  What a device does with a request  *)
(* is the operator Recv of the modules that extend this one.               *)
(*                                                                         *)
(* The rings are guest memory.  An address register is TRUE when it holds  *)
(* the driver's address and FALSE when it is 0, where there is no RAM and  *)
(* reads give 0.  Ring indexes are 16 bits in the code and count modulo    *)
(* IdxMod here.                                                            *)
(***************************************************************************)
EXTENDS Integers, Sequences, FiniteSets, SequencesExt, FiniteSetsExt, TLC

CONSTANTS
  Queue,      \* queue numbers in use
  Chain,       \* descriptor chains the driver has for each queue
  Num,        \* size of the driver's rings
  IdxMod,     \* ring indexes wrap here (2^16 in the code)
  Manual,     \* queues with manual_recv
  Pci         \* the device is on PCI: reading the ISR acknowledges

QueueAssumption ==
  /\ Manual \subseteq Queue /\ Pci \in BOOLEAN
  /\ IsFiniteSet(Chain) /\ Cardinality(Chain) <= Num
  /\ \E k \in 1..16 : IdxMod = k * Num
  /\ IdxMod > Num        \* or a full ring would look empty

VARIABLES
  dev,     \* device: registers, queues, the used rings it writes, its own state
  avail,   \* guest: available rings
  table,   \* guest: the request in each descriptor chain, "free" when there is none
  drv      \* driver: used entries seen, queues to be notified, interrupt handler

vars == <<dev, avail, table, drv>>

Idx == 0..(IdxMod - 1)

InitialRing == [idx |-> 0, ring |-> [i \in 0..(Num - 1) |-> CHOOSE h \in Chain : TRUE]]

-----------------------------------------------------------------------------
(* Device *)

ResetQueue == [ready |-> FALSE, num |-> 16, last |-> 0,
               desc |-> FALSE, avail |-> FALSE, used |-> FALSE]

\* A mutant: reset leaves the interrupt line as it is.
ResetIrqFault(d) == d.irq

\* virtio_mmio_write calls set_irq(s->irq, 0) before virtio_reset.
ResetIrq(d) == FALSE

VirtioReset(d) ==
  [d EXCEPT !.sel = 0, !.int = {}, !.irq = ResetIrq(d),
            !.queue = [q \in Queue |-> ResetQueue]]

\* A mutant: set_irq(s->irq, 1) is forgotten.
RaisedFault(d) == d.irq

Raised(d) == TRUE

\* A mutant: the used index is advanced without the entry.
ConsumeDescFault(d, q, h) ==
  [d EXCEPT !.used[q].idx = IF d.queue[q].used THEN (@ + 1) % IdxMod ELSE @,
            !.int = @ \cup {1}, !.irq = TRUE]

\* virtio_consume_desc: the entry is put in the used ring, the driver interrupted.
ConsumeDesc(d, q, h) ==
  LET u == d.used[q]
      slot == u.idx % d.queue[q].num
  IN [d EXCEPT !.used[q] = IF d.queue[q].used
                           THEN [idx |-> (u.idx + 1) % IdxMod,
                                 ring |-> [u.ring EXCEPT ![slot] = h]]
                           ELSE u,
               !.int = @ \cup {1}, !.irq = Raised(d)]

AvailIdx(d, q) == IF d.queue[q].avail THEN avail[q].idx ELSE 0

\* The chain at the device's position, and the ones behind it, in ring order.
Pending(d, q) ==
  LET last == d.queue[q].last
      n == (AvailIdx(d, q) - last) % IdxMod
  IN [k \in 1..n |-> avail[q].ring[((last + k - 1) % IdxMod) % d.queue[q].num]]

Advance(d, q) == [d EXCEPT !.queue[q].last = (@ + 1) % IdxMod]

\* A mutant: a request the device cannot take now is skipped.
NotifyStepFault(acc, r, q) == [dev |-> Advance(r.dev, q), stop |-> FALSE]

\* A mutant: a request that was taken is looked at again.
NotifyStepStays(acc, r, q) ==
  IF r.ret < 0 THEN [acc EXCEPT !.stop = TRUE] ELSE [dev |-> r.dev, stop |-> FALSE]

\* One turn of the loop: r is what device_recv did with the chain.
NotifyStep(acc, r, q) ==
  IF r.ret < 0 THEN [acc EXCEPT !.stop = TRUE]
               ELSE [dev |-> Advance(r.dev, q), stop |-> FALSE]

\* queue_notify.  Recv(d, q, h) gives the device after device_recv and its
\* result; a chain that get_desc_rw_size refuses ("bad") is passed over.
QueueNotify(d, q, Recv(_, _, _)) ==
  IF q \in Manual THEN d
  ELSE FoldLeft(LAMBDA acc, h :
                  IF acc.stop THEN acc
                  ELSE NotifyStep(acc,
                         IF table[q][h].type = "bad" THEN [dev |-> acc.dev, ret |-> 0]
                                                     ELSE Recv(acc.dev, q, h), q),
                [dev |-> d, stop |-> FALSE], Pending(d, q)).dev

\* can_write of console, network and input: a buffer is waiting in the queue.
CanWrite(d, q) == d.queue[q].ready /\ d.queue[q].last # AvailIdx(d, q)

NextBuffer(d, q) == avail[q].ring[d.queue[q].last % d.queue[q].num]

-----------------------------------------------------------------------------
(* Register writes: virtio_mmio_write and virtio_pci_write *)

WriteSel(q) == /\ q # dev.sel
               /\ ~dev.queue[q].ready        \* driver: only while it sets up
               /\ dev' = [dev EXCEPT !.sel = q]
               /\ UNCHANGED <<avail, table, drv>>

IsPowerOfTwo(v) == \E k \in 0..15 : v = 2^k

WriteNum(v) == /\ ~dev.queue[dev.sel].ready
               /\ dev' = IF IsPowerOfTwo(v) THEN [dev EXCEPT !.queue[dev.sel].num = v] ELSE dev
               /\ UNCHANGED <<avail, table, drv>>

\* The driver writes the three addresses, each in two halves.
WriteAddresses == /\ ~dev.queue[dev.sel].ready
                  /\ dev' = [dev EXCEPT !.queue[dev.sel].desc = TRUE,
                                        !.queue[dev.sel].avail = TRUE,
                                        !.queue[dev.sel].used = TRUE]
                  /\ UNCHANGED <<avail, table, drv>>

WriteReady == /\ dev.queue[dev.sel].desc /\ dev.queue[dev.sel].num = Num
              /\ dev' = [dev EXCEPT !.queue[dev.sel].ready = TRUE]
              /\ UNCHANGED <<avail, table, drv>>

\* The driver starts again with empty rings.
InitialDriver == [seen |-> [q \in Queue |-> 0], kick |-> {}, pc |-> "idle", isr |-> {}]

\* d is the device after the driver has cleared the buffers.
WriteStatusZero(d) ==
                   /\ dev' = [VirtioReset(d) EXCEPT !.used = [q \in Queue |-> InitialRing]]
                   /\ avail' = [q \in Queue |-> InitialRing]
                   /\ table' = [q \in Queue |-> [h \in Chain |-> [type |-> "free"]]]

Notify(q, Recv(_, _, _)) == /\ q \in drv.kick
                            /\ dev' = QueueNotify(dev, q, Recv)
                            /\ drv' = [drv EXCEPT !.kick = @ \ {q}]
                            /\ UNCHANGED <<avail, table>>

\* VIRTIO_MMIO_INTERRUPT_ACK
Acked(d, bits) == d.int \ bits

\* A mutant: the line stays up when the last bit is cleared.
IrqAfterFault(d, int) == d.irq

IrqAfter(d, int) == d.irq /\ int # {}

ReadInterrupt == /\ drv.pc = "idle" /\ dev.irq
                 /\ IF Pci
                    THEN /\ dev' = [dev EXCEPT !.int = {}, !.irq = IrqAfter(dev, {})]
                         /\ drv' = [drv EXCEPT !.pc = "acked", !.isr = dev.int]
                    ELSE /\ drv' = [drv EXCEPT !.pc = "read", !.isr = dev.int]
                         /\ UNCHANGED dev
                 /\ UNCHANGED <<avail, table>>

WriteAck == /\ drv.pc = "read"
            /\ LET int == Acked(dev, drv.isr)
               IN dev' = [dev EXCEPT !.int = int, !.irq = IrqAfter(dev, int)]
            /\ drv' = [drv EXCEPT !.pc = "acked"]
            /\ UNCHANGED <<avail, table>>

\* virtio_config_change_notify
ConfigChanged(d) == [d EXCEPT !.int = @ \cup {2}, !.irq = TRUE]

-----------------------------------------------------------------------------
(* Driver: puts a chain in the available ring; after an interrupt reads the *)
(* used entries it has not seen.                                            *)

PublishAs(q, h, r) ==
  /\ dev.queue[q].ready
  /\ table[q][h].type = "free"
  /\ table' = [table EXCEPT ![q][h] = r]
  /\ avail' = [avail EXCEPT ![q] = [idx |-> (@.idx + 1) % IdxMod,
                                    ring |-> [@.ring EXCEPT ![@.idx % Num] = h]]]

\* Used entries the driver has not read, oldest first.
Unread(q) == [k \in 1..((dev.used[q].idx - drv.seen[q]) % IdxMod) |->
                dev.used[q].ring[((drv.seen[q] + k - 1) % IdxMod) % Num]]

\* The driver frees the chains and clears the ring entries it has done with; d is
\* the device after the driver has also cleared their buffers.
DrainRings(d) ==
  /\ table' = [q \in Queue |-> [h \in Chain |->
                 IF h \in Range(Unread(q)) THEN [type |-> "free"] ELSE table[q][h]]]
  /\ dev' = [d EXCEPT !.used = [q \in Queue |-> [d.used[q] EXCEPT !.ring = InitialRing.ring]]]
  /\ avail' = [q \in Queue |-> [avail[q] EXCEPT !.ring = [i \in DOMAIN @ |->
                 IF @[i] \in Range(Unread(q)) THEN InitialRing.ring[i] ELSE @[i]]]]

Drain(d) ==
  /\ drv.pc = "acked"
  /\ drv' = [drv EXCEPT !.pc = "idle", !.isr = {},
                        !.seen = [q \in Queue |-> dev.used[q].idx]]
  /\ DrainRings(d)

QueueInit(own, driver) ==
  /\ dev = [sel |-> 0, int |-> {}, irq |-> FALSE,
            queue |-> [q \in Queue |-> ResetQueue],
            used |-> [q \in Queue |-> InitialRing]] @@ own
  /\ avail = [q \in Queue |-> InitialRing]
  /\ table = [q \in Queue |-> [h \in Chain |-> [type |-> "free"]]]
  /\ drv = InitialDriver @@ driver

Setup == \/ \E q \in Queue : WriteSel(q)
         \/ \E v \in {0, 3, Num} : WriteNum(v)
         \/ WriteAddresses
         \/ WriteReady

-----------------------------------------------------------------------------
(* Properties common to the devices *)

InFlight(q) == {h \in Chain : table[q][h].type # "free"}

(* Every entry the driver finds in a used ring is a chain it queued and has *)
(* not got back, and no chain is returned twice (virtio_consume_desc and    *)
(* queue_notify, with indexes that wrap).                                   *)
CompletionsMatch ==
  \A q \in Queue : /\ Range(Unread(q)) \subseteq InFlight(q)
                   /\ Cardinality(Range(Unread(q))) = Len(Unread(q))

(* A completion the driver has not seen is announced: the line is up, or    *)
(* the driver is in its handler and has still to read the used rings        *)
(* (virtio_consume_desc against the acknowledgement of an older interrupt). *)
InterruptNotLost ==
  (\E q \in Queue : Unread(q) # <<>>) => dev.irq \/ drv.pc \in {"read", "acked"}

(* The interrupt line follows the status register, after every completion,  *)
(* acknowledgement and reset.                                               *)
IrqFollowsStatus == dev.irq <=> dev.int # {}
=============================================================================
