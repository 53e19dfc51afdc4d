------------------------------ MODULE MCDevices ------------------------------
(***************************************************************************)
(* Dromajo's devices for model checking: the virtio transport with the     *)
(* block, console, network and input devices, the 9p file server, the      *)
(* interrupt controller and the UART, alone and wired together.  One of    *)
(* them runs at a time, the others stand still; the virtio devices take    *)
(* turns in the variables of VirtioQueue.                                  *)
(***************************************************************************)
EXTENDS Integers, Sequences, SequenceTheorems, TLAPS

CONSTANTS
  NCpus, Irq, Context,                               \* Plic
  UartIrq,                                           \* the source of the UART, UART0_IRQ
  NChars                                             \* DwApbUart

VARIABLES
  part,                                              \* the part that runs
  chain, copy,                                       \* VirtioChain
  dev, avail, table, drv,                            \* the devices that extend VirtioQueue
  sent, buf, parsed,                                 \* P9Message
  tree, kind, handles, file, busy, reply, named,     \* Virtio9p
  plic, serving, missed,                             \* Plic
  uart, console, got                                 \* DwApbUart

Descs == INSTANCE VirtioChain WITH MaxDesc <- 3, MaxLen <- 2

Block == INSTANCE VirtioBlock WITH Queue <- {0}, Chain <- {0, 1}, Num <- 2, IdxMod <- 4, Manual <- {},
  Pci <- FALSE, Value <- {"a", "b"}, Type <- {"in", "out", "bad", "other"}, BusyReset <- FALSE
Tty == INSTANCE VirtioStream WITH Queue <- {0, 1}, Chain <- {0, 1}, Num <- 2, IdxMod <- 4, Manual <- {0},
  Pci <- FALSE, Kind <- "console", Size <- {1}
Net == INSTANCE VirtioStream WITH Queue <- {0, 1}, Chain <- {0, 1}, Num <- 2, IdxMod <- 4, Manual <- {0},
  Pci <- TRUE, Kind <- "net", Size <- {1, 2}
Keyboard == INSTANCE VirtioInput WITH Queue <- {0}, Chain <- {0, 1}, Num <- 2, IdxMod <- 4, Manual <- {0},
  Pci <- FALSE, Mouse <- FALSE, Button <- {1}
Pointer == INSTANCE VirtioInput WITH Queue <- {0}, Chain <- {0, 1, 2, 3}, Num <- 4, IdxMod <- 8, Manual <- {0},
  Pci <- TRUE, Mouse <- TRUE, Button <- {1}

Message == INSTANCE P9Message WITH Byte <- 3, MaxFields <- 3, MaxString <- 2, got <- parsed

\* Two files in the root, and a file in a directory
Flat == INSTANCE Virtio9p WITH Fid <- {1, 2}, Name <- {"a", "b"}, Depth <- 1, MaxIno <- 3, MaxHandle <- 3, Async <- TRUE
Deep == INSTANCE Virtio9p WITH Fid <- {1, 2}, Name <- {"a", "b"}, Depth <- 2, MaxIno <- 2, MaxHandle <- 2, Async <- TRUE

Plic == INSTANCE Plic
Uart == INSTANCE DwApbUart

ASSUME Descs!ChainBounds
ASSUME Block!QueueAssumption /\ Block!BlockAssumption
ASSUME Tty!QueueAssumption /\ Tty!StreamAssumption
ASSUME Net!QueueAssumption /\ Net!StreamAssumption
ASSUME Keyboard!QueueAssumption /\ Keyboard!InputAssumption
ASSUME Pointer!QueueAssumption /\ Pointer!InputAssumption
ASSUME Message!MessageAssumption
ASSUME FilesAssumption == Flat!P9Assumption /\ Deep!P9Assumption
ASSUME IntcAssumption == Plic!PlicAssumption /\ Uart!UartAssumption /\ 0 \in Context /\ UartIrq \in Irq

-----------------------------------------------------------------------------
(* The UART wired to the interrupt controller: set_irq in update_isr is     *)
(* plic_set_irq, inside the same access.  The hart runs a handler: claim,   *)
(* accesses of the UART, complete.                                          *)

\* An access of the UART moves the line of the controller when its level changes.
UartAccess ==
  /\ Uart!UartNext
  /\ plic' = IF uart'.irq = uart.irq THEN plic ELSE Plic!SetIrq(plic, UartIrq, uart'.irq)
  /\ UNCHANGED <<serving, missed>>

\* The guest has the UART enabled for hart 0.
UartPlicNext ==
  \/ UartAccess
  \/ (Plic!ClaimStep(0) \/ Plic!CompleteStep(0, UartIrq)) /\ UNCHANGED <<uart, console, got>>

UartPlicInit ==
  /\ plic = [pending |-> {}, served |-> {}, mip |-> [h \in Plic!Hart |-> {}],
             enable |-> [h \in Plic!Hart |-> [x \in Plic!Ctx |-> IF h = 0 THEN {UartIrq} ELSE {}]]]
  /\ serving = [x \in Context |-> {}] /\ missed = {}

-----------------------------------------------------------------------------
virtio == <<dev, avail, table, drv>>
copying == <<chain, copy>>
message == <<sent, buf, parsed>>
files == <<tree, kind, handles, file, busy, reply, named>>
intc == <<plic, serving, missed>>
serial == <<uart, console, got>>
vars == <<part, copying, virtio, message, files, intc, serial>>

Virtio == {"block", "console", "net", "keyboard", "mouse"}

\* What has many initial states, or takes turns, has a single one while it stands still.
Init ==
  /\ part \in Virtio \cup {"chain", "message", "flat", "deep", "plic", "uart"}
  /\ IF part = "chain" THEN Descs!Init ELSE chain = <<>> /\ copy = "none"
  /\ CASE part = "block"    -> Block!Init
       [] part = "console"  -> Tty!Init
       [] part = "net"      -> Net!Init
       [] part = "keyboard" -> Keyboard!Init
       [] part = "mouse"    -> Pointer!Init
       [] OTHER -> dev = "none" /\ avail = "none" /\ table = "none" /\ drv = "none"
  /\ Message!Init
  /\ IF part = "flat" THEN Flat!Init ELSE Deep!Init
  /\ IF part = "uart" THEN UartPlicInit ELSE Plic!PlicInit
  /\ Uart!UartInit

Next ==
  /\ UNCHANGED part
  /\ \/ part = "chain" /\ Descs!Next /\ UNCHANGED <<virtio, message, files, intc, serial>>
     \/ part = "block" /\ Block!Next /\ UNCHANGED <<copying, message, files, intc, serial>>
     \/ part = "console" /\ Tty!Next /\ UNCHANGED <<copying, message, files, intc, serial>>
     \/ part = "net" /\ Net!Next /\ UNCHANGED <<copying, message, files, intc, serial>>
     \/ part = "keyboard" /\ Keyboard!Next /\ UNCHANGED <<copying, message, files, intc, serial>>
     \/ part = "mouse" /\ Pointer!Next /\ UNCHANGED <<copying, message, files, intc, serial>>
     \/ part = "message" /\ Message!Next /\ UNCHANGED <<copying, virtio, files, intc, serial>>
     \/ part = "flat" /\ Flat!Next /\ UNCHANGED <<copying, virtio, message, intc, serial>>
     \/ part = "deep" /\ Deep!Next /\ UNCHANGED <<copying, virtio, message, intc, serial>>
     \/ part = "plic" /\ Plic!Next /\ UNCHANGED <<copying, virtio, message, files, serial>>
     \/ part = "uart" /\ UartPlicNext /\ UNCHANGED <<copying, virtio, message, files>>

Spec == Init /\ [][Next]_vars

-----------------------------------------------------------------------------
(* Properties *)

(* A chain of descriptors is measured in bytes, refused when out of order,  *)
(* and exactly the slice asked for is copied, whatever the cuts between     *)
(* descriptors; every chain comes back once and to its own request, its     *)
(* interrupt is not lost to an acknowledgement of an older one, a read      *)
(* returns the writes queued before it, and nothing is forgotten when a     *)
(* callback ends the request in progress; a 9p message reads back as it was *)
(* written or is refused whole (get_desc_rw_size, memcpy_to_from_queue,     *)
(* queue_notify, virtio_consume_desc, virtio_block_req_cb, unmarshall).     *)
RequestsRight ==
  /\ part = "chain" => Descs!SizesAreBytes /\ Descs!CopyIsSlice
  /\ part = "block" => /\ Block!CompletionsMatch /\ Block!InterruptNotLost /\ Block!IrqFollowsStatus
                       /\ Block!ReadSeesWrites /\ Block!NothingForgotten
  /\ part = "message" => Message!RoundTrip

(* Console and network pass data on in order, once and without a gap, in    *)
(* both directions, while rings wrap and drivers reset, and announce it     *)
(* (virtio_console_recv_request, virtio_net_write_packet).                  *)
StreamsRight ==
  /\ part = "console" => Tty!SentInOrder /\ Tty!ReceivedInOrder
  /\ part = "net" => Net!SentInOrder /\ Net!ReceivedInOrder /\ Net!InterruptNotLost /\ Net!IrqFollowsStatus

(* Events given up for want of buffers take their SYN with them and leave   *)
(* the guest with the right buttons (virtio_input_send_key_event,           *)
(* virtio_input_send_mouse_event).                                          *)
InputRight ==
  /\ part = "keyboard" => Keyboard!NoStraySyn /\ Keyboard!CompletionsMatch
  /\ part = "mouse" => Pointer!CompletionsMatch /\ Pointer!ButtonsAgree

(* A fid keeps meaning the file it was given for, and every open host       *)
(* descriptor belongs to one fid, also when requests fail half way, fids    *)
(* are reused and an open ends by a callback (virtio_9p_recv_request,       *)
(* fs_disk.cpp).                                                            *)
FilesRight ==
  /\ part = "flat" => Flat!HandlesOwned /\ Flat!FidMeansFile /\ Flat!DirHandlesAreDirs
  /\ part = "deep" => Deep!HandlesOwned /\ Deep!FidMeansFile /\ Deep!DirHandlesAreDirs

(* An interrupt source has one handler from claim to completion and is      *)
(* signalled to every hart that has it enabled; a claim of context 0 leaves *)
(* its hart interrupted only for what is left; the UART's line follows its  *)
(* causes through the controller and loses no character (plic_update_mip,   *)
(* plic_read, plic_set_irq, update_isr, dw_apb_uart_poll).                  *)
InterruptsRight ==
  /\ [](part = "plic" => Plic!OneHandler /\ Plic!PendingSignalled)
  /\ [](part = "uart" => /\ Uart!CharsInOrder /\ Uart!LineFollowsCauses
                         /\ UartIrq \in plic.pending => uart.irq)
  /\ [][part = "plic" => Plic!ClaimQuietsFor({0})]_vars

-----------------------------------------------------------------------------
(* Proofs: the interrupt controller                                         *)

\* A claim takes one of the sources that can be claimed, or none when there is none.
LEMMA ClaimTakes ==
  ASSUME Plic!PlicAssumption, NEW p \in Plic!PlicType, NEW h \in Plic!Hart
  PROVE  LET r == Plic!Claim(p, h)
             left == Plic!Claimable(p) \ {r.irq}
         IN /\ r.plic \in Plic!PlicType /\ r.plic.enable = p.enable
            /\ \A g \in Plic!Hart : g # h => r.plic.mip[g] = p.mip[g]
            /\ IF r.irq = 0
               THEN r.plic = p /\ Plic!Claimable(p) = {}
               ELSE /\ r.irq \in Plic!Claimable(p)
                    /\ r.plic.pending = p.pending \ {r.irq} /\ r.plic.served = p.served \cup {r.irq}
                    /\ r.plic.mip[h] = {x \in Plic!Ctx : left \cap p.enable[h][x] # {}}
<1>1. CASE Plic!Claimable(p) = {}
  BY <1>1 DEF Plic!Claim, Plic!PlicType
<1>2. CASE Plic!Claimable(p) # {}
  <2> DEFINE i == Plic!Min(Plic!Claimable(p))
             q == [p EXCEPT !.served = Plic!Served(p, i), !.pending = @ \ {i}]
             up == {x \in Plic!Ctx : Plic!Claimable(q) \cap q.enable[h][x] # {}}
  <2>1. Plic!Claimable(p) \in SUBSET Nat /\ Plic!Claimable(p) \in SUBSET Irq /\ 0 \notin Irq
    <3>1. Irq \in SUBSET Nat /\ 0 \notin Irq
      BY DEF Plic!PlicAssumption
    <3>2. Plic!Claimable(p) \in SUBSET Irq
      BY DEF Plic!Claimable, Plic!PlicType
    <3>3. QED
      BY <3>1, <3>2
  <2>2. i \in Plic!Claimable(p) /\ i # 0 /\ i \in Irq
    <3>1. i \in Plic!Claimable(p)
      BY <1>2, <2>1, Flat!Least DEF Plic!Min
    <3>2. QED
      BY <2>1, <3>1
  <2>3. Plic!Claim(p, h) = [irq |-> i, plic |-> [q EXCEPT !.mip[h] = up]]
    BY <1>2 DEF Plic!Claim, Plic!UpdateMip
  <2> HIDE DEF i
  <2>4. q \in Plic!PlicType /\ q.enable = p.enable /\ q.mip = p.mip
        /\ q.pending = p.pending \ {i} /\ q.served = p.served \cup {i}
    BY <2>2 DEF Plic!PlicType, Plic!Served
  <2>5. Plic!Claimable(q) = Plic!Claimable(p) \ {i}
    BY <2>4 DEF Plic!Claimable
  <2> HIDE DEF q
  <2>6. up \in SUBSET Plic!Ctx /\ up = {x \in Plic!Ctx : (Plic!Claimable(p) \ {i}) \cap p.enable[h][x] # {}}
    BY <2>4, <2>5
  <2> HIDE DEF up
  <2>7. /\ [q EXCEPT !.mip[h] = up] \in Plic!PlicType
        /\ [q EXCEPT !.mip[h] = up].enable = p.enable
        /\ [q EXCEPT !.mip[h] = up].pending = p.pending \ {i}
        /\ [q EXCEPT !.mip[h] = up].served = p.served \cup {i}
        /\ [q EXCEPT !.mip[h] = up].mip[h] = up
        /\ \A g \in Plic!Hart : g # h => [q EXCEPT !.mip[h] = up].mip[g] = p.mip[g]
    BY <2>4, <2>6 DEF Plic!PlicType
  <2> DEFINE d == [q EXCEPT !.mip[h] = up]
  <2>8. Plic!Claim(p, h).irq = i /\ Plic!Claim(p, h).plic = d
    BY <2>3
  <2>9. d \in Plic!PlicType /\ d.enable = p.enable /\ d.pending = p.pending \ {i}
        /\ d.served = p.served \cup {i} /\ d.mip[h] = up
        /\ \A g \in Plic!Hart : g # h => d.mip[g] = p.mip[g]
    BY <2>7
  <2> HIDE DEF d
  <2>10. QED
    BY <2>2, <2>6, <2>8, <2>9
<1>3. QED
  BY <1>1, <1>2

\* The sources the contexts serve.
InService(f) == UNION {f[y] : y \in Context}

\* A source is in service when a context serves it.
LEMMA InServiceIs == \A f, z : z \in InService(f) <=> \E y \in Context : z \in f[y]
BY DEF InService

\* The controller resets with nothing pending, enabled or served.
LEMMA PlicStart == ASSUME Plic!PlicAssumption, Plic!PlicInit PROVE Plic!PlicInv
<1>1. plic \in Plic!PlicType /\ serving \in [Context -> SUBSET Irq]
  BY DEF Plic!PlicInit, Plic!PlicType
<1>2. UNION {serving[x] : x \in Context} = {} /\ Plic!Claimable(plic) = {}
  BY DEF Plic!PlicInit, Plic!Claimable
<1>3. Plic!OneHandler /\ Plic!PendingSignalled
  BY <1>2 DEF Plic!PlicInit, Plic!OneHandler, Plic!PendingSignalled
<1>4. QED
  BY <1>1, <1>3 DEF Plic!PlicInit, Plic!PlicInv

\* The contexts of a hart that have something pending and enabled to claim.
Signals(p, h) == {x \in Plic!Ctx : Plic!Claimable(p) \cap p.enable[h][x] # {}}

\* The pending sources once a line has moved.
Moved(p, i, level) == IF level THEN p.pending \cup {i} ELSE p.pending \ {i}

\* A line that moves tells every hart.
LEMMA SetIrqSets ==
  ASSUME NEW p \in Plic!PlicType, NEW i \in Irq, NEW level,
         NEW after, after = Plic!SetIrq(p, i, level)
  PROVE  /\ after \in Plic!PlicType /\ after.served = p.served /\ after.enable = p.enable
         /\ after.pending = Moved(p, i, level)
         /\ \A h \in Plic!Hart : after.mip[h] = Signals(after, h)
<1> DEFINE q == [p EXCEPT !.pending = IF level THEN @ \cup {i} ELSE @ \ {i}]
           up == [h \in Plic!Hart |-> {x \in Plic!Ctx : Plic!Claimable(q) \cap q.enable[h][x] # {}}]
           r == [q EXCEPT !.mip = up]
<1>1. /\ q \in Plic!PlicType /\ q.served = p.served /\ q.enable = p.enable
      /\ q.pending = IF level THEN p.pending \cup {i} ELSE p.pending \ {i}
  BY DEF Plic!PlicType
<1>2. Plic!SetIrq(p, i, level) = r
  <2>1. \A h \in Plic!Hart : Plic!UpdateMip(q, h).mip[h] = {x \in Plic!Ctx : Plic!Claimable(q) \cap q.enable[h][x] # {}}
    BY <1>1 DEF Plic!UpdateMip, Plic!PlicType
  <2>2. Plic!SetIrq(p, i, level) = [q EXCEPT !.mip = [h \in Plic!Hart |-> Plic!UpdateMip(q, h).mip[h]]]
    BY DEF Plic!SetIrq, Plic!UpdateAll
  <2>3. QED
    BY <2>1, <2>2
<1> HIDE DEF q
<1>3. up \in [Plic!Hart -> SUBSET Plic!Ctx]
  OBVIOUS
<1>4. /\ r \in Plic!PlicType /\ r.served = q.served /\ r.enable = q.enable
      /\ r.pending = q.pending /\ r.mip = up
  <2> HIDE DEF up
  <2>1. QED
    BY <1>1, <1>3 DEF Plic!PlicType
<1> HIDE DEF r
<1>5. Plic!Claimable(r) = Plic!Claimable(q)
  BY <1>4 DEF Plic!Claimable
<1>6. after = r
  BY <1>2
<1>7. \A h \in Plic!Hart : r.mip[h] = Signals(r, h)
  BY <1>1, <1>4, <1>5 DEF Signals
<1>8. QED
  BY <1>1, <1>4, <1>6, <1>7 DEF Moved

\* A line that moves keeps the controller's invariant: plic_set_irq tells every hart.
LEMMA LineStep ==
  ASSUME Plic!PlicInv, NEW i \in Irq, NEW level \in BOOLEAN, Plic!Line(i, level)
  PROVE  Plic!PlicInv'
<1>0. plic \in Plic!PlicType
  BY DEF Plic!PlicInv
<1>1. plic' = Plic!SetIrq(plic, i, level)
  BY DEF Plic!Line
<1>2. /\ plic' \in Plic!PlicType /\ plic'.served = plic.served /\ plic'.enable = plic.enable
      /\ plic'.pending = IF level THEN plic.pending \cup {i} ELSE plic.pending \ {i}
      /\ \A h \in Plic!Hart : plic'.mip[h] = Signals(plic', h)
  <2>1. plic' \in Plic!PlicType
    BY <1>0, <1>1, SetIrqSets
  <2>2. /\ plic'.served = plic.served /\ plic'.enable = plic.enable
        /\ plic'.pending = Moved(plic, i, level)
        /\ \A h \in Plic!Hart : plic'.mip[h] = Signals(plic', h)
    BY <1>0, <1>1, <2>1, SetIrqSets
  <2>3. QED
    BY <2>1, <2>2 DEF Moved
<1>3. Plic!PendingSignalled'
  BY <1>2 DEF Plic!PendingSignalled, Signals
<1>4. (plic.pending \cap plic.served \subseteq missed)'
  BY <1>2 DEF Plic!Line, Plic!PlicInv
<1>5. serving' = serving /\ Plic!OneHandler'
  BY <1>2 DEF Plic!Line, Plic!PlicInv, Plic!OneHandler
<1>6. QED
  BY <1>2, <1>3, <1>4, <1>5 DEF Plic!PlicInv

\* A source enabled while it is pending is missed; what was signalled stays signalled.
LEMMA EnableStep ==
  ASSUME Plic!PlicInv, NEW h \in Plic!Hart, NEW x \in Plic!Ctx, NEW s \in SUBSET Irq, Plic!Enable(h, x, s)
  PROVE  Plic!PlicInv'
<1>1. plic \in Plic!PlicType /\ plic' = [plic EXCEPT !.enable[h][x] = s]
  BY DEF Plic!PlicInv, Plic!Enable, Plic!WriteEnable
<1>2. /\ plic' \in Plic!PlicType /\ plic'.pending = plic.pending /\ plic'.served = plic.served
      /\ plic'.mip = plic.mip
      /\ \A g \in Plic!Hart, y \in Plic!Ctx : plic'.enable[g][y] = IF g = h /\ y = x THEN s ELSE plic.enable[g][y]
  BY <1>1 DEF Plic!PlicType
<1>3. Plic!Claimable(plic') = Plic!Claimable(plic)
  BY <1>2 DEF Plic!Claimable
<1>4. missed' = missed \cup (Plic!Claimable(plic) \cap s) /\ serving' = serving
  BY DEF Plic!Enable
<1>5. Plic!PendingSignalled'
  BY <1>2, <1>3, <1>4 DEF Plic!PendingSignalled, Plic!PlicInv
<1>6. QED
  BY <1>2, <1>4, <1>5 DEF Plic!PlicInv, Plic!OneHandler

\* Nobody else serves the source that is claimed, and its own hart is told.
LEMMA ClaimStepKeeps ==
  ASSUME Plic!PlicAssumption, Plic!PlicInv, NEW x \in Context, Plic!ClaimStep(x)
  PROVE  /\ Plic!PlicInv'
         /\ serving' # serving =>
              plic'.mip[x] = {y \in Plic!Ctx : Plic!Claimable(plic') \cap plic'.enable[x][y] # {}}
         /\ \A y \in Context : y # x => serving'[y] = serving[y]
<1> DEFINE r == Plic!Claim(plic, x)
<1>0. x \in Plic!Hart /\ plic \in Plic!PlicType /\ serving \in [Context -> SUBSET Irq] /\ 0 \notin Irq
  BY DEF Plic!PlicAssumption, Plic!Hart, Plic!PlicInv
<1>1. /\ plic' = r.plic /\ missed' = missed \ {r.irq}
      /\ serving' = IF r.irq = 0 THEN serving ELSE [serving EXCEPT ![x] = @ \cup {r.irq}]
  BY DEF Plic!ClaimStep
<1>2. /\ r.plic \in Plic!PlicType /\ r.plic.enable = plic.enable
      /\ \A g \in Plic!Hart : g # x => r.plic.mip[g] = plic.mip[g]
      /\ IF r.irq = 0
         THEN r.plic = plic /\ Plic!Claimable(plic) = {}
         ELSE /\ r.irq \in Plic!Claimable(plic)
              /\ r.plic.pending = plic.pending \ {r.irq} /\ r.plic.served = plic.served \cup {r.irq}
              /\ r.plic.mip[x] = {y \in Plic!Ctx : (Plic!Claimable(plic) \ {r.irq}) \cap plic.enable[x][y] # {}}
  BY <1>0, ClaimTakes
<1> HIDE DEF r
<1>3. CASE r.irq = 0
  <2>1. plic' = plic /\ serving' = serving /\ Plic!Claimable(plic) = {}
    BY <1>1, <1>2, <1>3
  <2>2. plic.pending \cap plic.served \subseteq missed'
    BY <1>0, <1>1, <1>3 DEF Plic!PlicInv, Plic!PlicType
  <2>3. Plic!PendingSignalled'
    BY <2>1 DEF Plic!PendingSignalled
  <2>4. QED
    BY <2>1, <2>2, <2>3 DEF Plic!PlicInv, Plic!OneHandler
<1>4. CASE r.irq # 0
  <2>1. /\ plic'.pending = plic.pending \ {r.irq} /\ plic'.served = plic.served \cup {r.irq}
        /\ plic' \in Plic!PlicType /\ plic'.enable = plic.enable /\ r.irq \in Plic!Claimable(plic)
        /\ r.irq \in Irq /\ r.irq \notin plic.served
    BY <1>0, <1>1, <1>2, <1>4 DEF Plic!Claimable, Plic!PlicType
  <2>2. Plic!Claimable(plic') = Plic!Claimable(plic) \ {r.irq}
    BY <2>1 DEF Plic!Claimable
  <2>3. /\ serving' \in [Context -> SUBSET Irq] /\ serving'[x] = serving[x] \cup {r.irq}
        /\ \A y \in Context : y # x => serving'[y] = serving[y]
    BY <1>0, <1>1, <1>4, <2>1
  <2>4. Plic!OneHandler'
    <3>1. \A y \in Context : r.irq \notin serving[y]
      BY <2>1 DEF Plic!PlicInv, Plic!OneHandler
    <3>2. \A y, z \in Context : y # z => serving'[y] \cap serving'[z] = {}
      BY <2>3, <3>1 DEF Plic!PlicInv, Plic!OneHandler
    <3>3. ASSUME NEW z
          PROVE  (\E y \in Context : z \in serving'[y]) <=> (\E y \in Context : z \in serving[y]) \/ z = r.irq
      BY <2>3
    <3>4. InService(serving') = InService(serving) \cup {r.irq}
      BY <3>3, InServiceIs
    <3>5. InService(serving) = plic.served
      BY DEF Plic!PlicInv, Plic!OneHandler, InService
    <3>6. InService(serving') = plic'.served
      BY <2>1, <3>4, <3>5
    <3>7. QED
      BY <3>2, <3>6 DEF Plic!OneHandler, InService
  <2>5. plic'.mip[x] = {y \in Plic!Ctx : Plic!Claimable(plic') \cap plic'.enable[x][y] # {}}
    BY <1>1, <1>2, <1>4, <2>1, <2>2
  <2>6. \A g \in Plic!Hart : g # x => plic'.mip[g] = plic.mip[g]
    BY <1>1, <1>2
  <2>7. Plic!PendingSignalled'
    <3>1. Plic!Claimable(plic') \ missed' \subseteq Plic!Claimable(plic) \ missed
      BY <1>1, <2>2
    <3>2. QED
      BY <2>1, <2>5, <2>6, <3>1 DEF Plic!PendingSignalled, Plic!PlicInv
  <2>8. plic'.pending \cap plic'.served \subseteq missed'
    BY <1>1, <2>1 DEF Plic!PlicInv
  <2>9. QED
    BY <2>1, <2>3, <2>4, <2>5, <2>7, <2>8 DEF Plic!PlicInv
<1>5. QED
  BY <1>3, <1>4

\* A source that was raised while it was served can be claimed again, unseen.
LEMMA CompleteStepKeeps ==
  ASSUME Plic!PlicInv, NEW x \in Context, NEW i \in Irq, Plic!CompleteStep(x, i)
  PROVE  Plic!PlicInv' /\ \A y \in Context : serving'[y] \subseteq serving[y]
<1>0. plic \in Plic!PlicType /\ serving \in [Context -> SUBSET Irq]
  BY DEF Plic!PlicInv
<1>1. /\ plic' = [plic EXCEPT !.served = @ \ {i}] /\ i \in serving[x] /\ missed' = missed
      /\ serving' = [serving EXCEPT ![x] = @ \ {i}]
  BY DEF Plic!CompleteStep, Plic!Complete
<1>2. /\ plic' \in Plic!PlicType /\ plic'.pending = plic.pending /\ plic'.served = plic.served \ {i}
      /\ plic'.enable = plic.enable /\ plic'.mip = plic.mip
  BY <1>0, <1>1 DEF Plic!PlicType
<1>3. /\ serving' \in [Context -> SUBSET Irq] /\ serving'[x] = serving[x] \ {i}
      /\ \A y \in Context : y # x => serving'[y] = serving[y]
  BY <1>0, <1>1
<1>4. Plic!OneHandler'
  <2>1. \A y \in Context : y # x => i \notin serving[y]
    BY <1>1 DEF Plic!PlicInv, Plic!OneHandler
  <2>2. \A y, z \in Context : y # z => serving'[y] \cap serving'[z] = {}
    BY <1>3 DEF Plic!PlicInv, Plic!OneHandler
  <2>3. \A y \in Context : serving'[y] = serving[y] \ {i}
    BY <1>3, <2>1
  <2>4. InService(serving') = InService(serving) \ {i}
    <3>1. \A z : (\E y \in Context : z \in serving'[y]) <=> (\E y \in Context : z \in serving[y]) /\ z # i
      BY <2>3
    <3>2. QED
      BY <3>1, InServiceIs
  <2>5. InService(serving) = plic.served
    BY DEF Plic!PlicInv, Plic!OneHandler, InService
  <2>6. InService(serving') = plic'.served
    BY <1>2, <2>4, <2>5
  <2>7. QED
    BY <2>2, <2>6 DEF Plic!OneHandler, InService
<1>5. Plic!PendingSignalled'
  <2>1. Plic!Claimable(plic') \ missed' \subseteq Plic!Claimable(plic) \ missed
    BY <1>1, <1>2 DEF Plic!Claimable, Plic!PlicInv
  <2>2. QED
    BY <1>2, <2>1 DEF Plic!PendingSignalled, Plic!PlicInv
<1>6. QED
  BY <1>1, <1>2, <1>3, <1>4, <1>5 DEF Plic!PlicInv

\* Whatever leaves the controller alone keeps its invariant.
LEMMA PlicStays == ASSUME Plic!PlicInv, UNCHANGED <<plic, serving, missed>> PROVE Plic!PlicInv'
BY DEF Plic!PlicInv, Plic!OneHandler, Plic!PendingSignalled, Plic!Claimable

\* After a claim of context 0, the supervisor's on hart 0, its hart's bits are new.
LEMMA PlicStep ==
  ASSUME Plic!PlicAssumption, Plic!PlicInv, Plic!Next
  PROVE  Plic!PlicInv' /\ Plic!ClaimQuietsFor({0} \cap Context)
<1>1. CASE \E i \in Irq, level \in BOOLEAN : Plic!Line(i, level)
  <2>1. serving' = serving
    BY <1>1 DEF Plic!Line
  <2>2. QED
    BY <1>1, <2>1, LineStep DEF Plic!ClaimQuietsFor
<1>2. CASE \E h \in Plic!Hart, x \in Plic!Ctx, s \in SUBSET Irq : Plic!Enable(h, x, s)
  <2>1. serving' = serving
    BY <1>2 DEF Plic!Enable
  <2>2. QED
    BY <1>2, <2>1, EnableStep DEF Plic!ClaimQuietsFor
<1>3. CASE \E x \in Context : Plic!ClaimStep(x)
  <2> PICK x \in Context : Plic!ClaimStep(x)
    BY <1>3
  <2>1. Plic!PlicInv'
    BY ClaimStepKeeps
  <2>2. ASSUME NEW y \in {0} \cap Context, serving'[y] # serving[y]
        PROVE  LET h == Plic!HartOf(y)
               IN plic'.mip[h] = {z \in Plic!Ctx : Plic!Claimable(plic') \cap plic'.enable[h][z] # {}}
    <3>1. y = x /\ serving' # serving
      BY <2>2, ClaimStepKeeps
    <3>2. Plic!HartOf(y) = y
      BY DEF Plic!HartOf
    <3>3. QED
      BY <3>1, <3>2, ClaimStepKeeps
  <2>3. QED
    BY <2>1, <2>2 DEF Plic!ClaimQuietsFor
<1>4. CASE \E x \in Context, i \in Irq : Plic!CompleteStep(x, i)
  <2>1. Plic!PlicInv' /\ \A y \in Context : serving'[y] \subseteq serving[y]
    BY <1>4, CompleteStepKeeps
  <2>2. QED
    BY <2>1 DEF Plic!ClaimQuietsFor
<1>5. QED
  BY <1>1, <1>2, <1>3, <1>4 DEF Plic!Next

-----------------------------------------------------------------------------
(* Proofs: the UART                                                         *)

\* The character in the receive register.
Held(u) == IF u.rx THEN <<u.rhr>> ELSE <<>>

\* The line and the identification agree with the causes that are enabled.
Follows(u) ==
  LET due == ("rdi" \in u.ier /\ u.rx) \/ ("thri" \in u.ier /\ u.thre) \/ "msi" \in u.ier
  IN (u.irq <=> due) /\ (due => u.isr # "none")

\* update_isr makes them agree, whatever changed before it.
LEMMA UpdateFollows ==
  ASSUME NEW u \in Uart!UartType
  PROVE  LET v == Uart!UpdateIsr(u)
         IN /\ v \in Uart!UartType /\ Follows(v)
            /\ v.rx = u.rx /\ v.rhr = u.rhr
<1> DEFINE i == Uart!Isr(u)
           v == [u EXCEPT !.isr = i, !.irq = i # "none"]
<1>1. Uart!UpdateIsr(u) = v
  BY DEF Uart!UpdateIsr
<1>2. i \in {"data", "empty", "modem", "none"}
  BY DEF Uart!Isr
<1>3. i # "none" <=> ("rdi" \in u.ier /\ u.rx) \/ ("thri" \in u.ier /\ u.thre) \/ "msi" \in u.ier
  BY DEF Uart!Isr
<1> HIDE DEF i
<1>4. (i # "none") \in BOOLEAN
  OBVIOUS
<1>5. v \in Uart!UartType
  BY <1>2, <1>4 DEF Uart!UartType
<1>6. /\ v.rx = u.rx /\ v.rhr = u.rhr /\ v.ier = u.ier /\ v.thre = u.thre
      /\ v.isr = i /\ v.irq = (i # "none")
  BY DEF Uart!UartType
<1> HIDE DEF v
<1>7. Follows(v)
  BY <1>3, <1>6 DEF Follows
<1>8. QED
  BY <1>1, <1>5, <1>6, <1>7

\* The poll moves the first character of the console to the register, when that is empty.
LEMMA PollMoves ==
  ASSUME NEW u \in Uart!UartType, NEW s \in Seq(Int)
  PROVE  LET v == Uart!Poll(u, s)
         IN /\ v \in Uart!UartType /\ (Follows(u) => Follows(v))
            /\ Uart!Rest(u, v, s) \in Seq(Int)
            /\ Held(v) \o Uart!Rest(u, v, s) = Held(u) \o s
<1>1. CASE u.rx
  <2>1. Uart!Poll(u, s) = u /\ Uart!Rest(u, u, s) = s
    BY <1>1 DEF Uart!Poll, Uart!Rest
  <2>2. QED
    BY <2>1
<1>2. CASE ~u.rx /\ s = <<>>
  <2> DEFINE v == Uart!UpdateIsr(u)
  <2>1. Uart!Poll(u, s) = v
    BY <1>2 DEF Uart!Poll
  <2>2. v \in Uart!UartType /\ Follows(v) /\ v.rx = u.rx
    BY UpdateFollows
  <2>3. Uart!Rest(u, v, s) = s /\ Held(v) = Held(u)
    BY <1>2, <2>2 DEF Uart!Rest, Held
  <2>4. QED
    BY <2>1, <2>2, <2>3
<1>3. CASE ~u.rx /\ s # <<>>
  <2> DEFINE w == [u EXCEPT !.rx = TRUE, !.rhr = Head(s)]
             v == Uart!UpdateIsr(w)
  <2>1. Uart!Poll(u, s) = v
    BY <1>3 DEF Uart!Poll
  <2>2. Head(s) \in Int /\ Tail(s) \in Seq(Int) /\ <<Head(s)>> \o Tail(s) = s /\ <<>> \o s = s
    BY <1>3
  <2>3. w \in Uart!UartType /\ w.rx = TRUE /\ w.rhr = Head(s)
    BY <2>2 DEF Uart!UartType
  <2> HIDE DEF w
  <2>4. v \in Uart!UartType /\ Follows(v) /\ v.rx = TRUE /\ v.rhr = Head(s)
    BY <2>3, UpdateFollows
  <2> HIDE DEF v
  <2>5. Uart!Rest(u, v, s) = Tail(s) /\ Held(v) = <<Head(s)>> /\ Held(u) = <<>>
    BY <1>3, <2>4 DEF Uart!Rest, Held
  <2>6. QED
    BY <2>1, <2>2, <2>4, <2>5
<1>4. QED
  BY <1>1, <1>2, <1>3

\* The invariant in the terms of these lemmas.
LEMMA UartInvIs ==
  Uart!UartInv <=> /\ uart \in Uart!UartType /\ console \in Seq(Int) /\ got \in Seq(Int)
                   /\ Follows(uart) /\ got \o Held(uart) \o console = Uart!Input
<1>1. uart \in Uart!UartType => (Uart!LineFollowsCauses <=> Follows(uart))
  <2> SUFFICES ASSUME uart \in Uart!UartType PROVE Uart!LineFollowsCauses <=> Follows(uart)
    OBVIOUS
  <2>1. uart.irq \in BOOLEAN
    BY DEF Uart!UartType
  <2>2. QED
    BY <2>1, Zenon DEF Uart!LineFollowsCauses, Follows
<1>2. QED
  BY <1>1 DEF Uart!UartInv, Uart!CharsInOrder, Held

\* The UART resets with its fields in range and its line quiet (dw_apb_uart_init).
LEMMA UartStart == ASSUME Uart!UartAssumption, Uart!UartInit PROVE Uart!UartInv
<1>1. uart \in Uart!UartType
  BY DEF Uart!UartInit, Uart!UartType, Uart!NoChar
<1>2. Uart!Input \in Seq(Int)
  BY DEF Uart!UartAssumption, Uart!Input
<1>3. Follows(uart) /\ Held(uart) = <<>>
  BY DEF Uart!UartInit, Follows, Held
<1>4. console = Uart!Input /\ got = <<>>
  BY DEF Uart!UartInit
<1>5. got \o Held(uart) \o console = Uart!Input
  BY <1>2, <1>3, <1>4
<1>6. QED
  BY <1>1, <1>2, <1>3, <1>4, <1>5, UartInvIs

\* Characters that are appended in two pieces are the same characters.
LEMMA CharsAssociate == \A x, y, z \in Seq(Int) : (x \o y) \o z = x \o (y \o z)
BY ConcatAssociative

\* A step that gives nothing to the guest but may move a character to the register.
LEMMA QuietStep ==
  ASSUME Uart!UartInv, uart' \in Uart!UartType, Follows(uart'), console' \in Seq(Int), got' = got,
         Held(uart') \o console' = Held(uart) \o console
  PROVE  Uart!UartInv'
<1>1. /\ uart \in Uart!UartType /\ console \in Seq(Int) /\ got \in Seq(Int)
      /\ Follows(uart) /\ got \o Held(uart) \o console = Uart!Input
  BY UartInvIs
<1>2. Held(uart) \in Seq(Int) /\ Held(uart') \in Seq(Int)
  BY <1>1 DEF Held, Uart!UartType
<1>3. got \o Held(uart') \o console' = got \o Held(uart) \o console
  <2>1. \A x, y, z \in Seq(Int) : (x \o y) \o z = x \o (y \o z)
    BY CharsAssociate
  <2>2. (got \o Held(uart')) \o console' = got \o (Held(uart') \o console')
    BY <1>1, <1>2, <2>1
  <2>3. (got \o Held(uart)) \o console = got \o (Held(uart) \o console)
    BY <1>1, <1>2, <2>1
  <2>4. QED
    BY <2>2, <2>3
<1>4. (/\ uart \in Uart!UartType /\ console \in Seq(Int) /\ got \in Seq(Int)
       /\ Follows(uart) /\ got \o Held(uart) \o console = Uart!Input)'
  BY <1>1, <1>3 DEF Uart!Input
<1>5. QED
  BY <1>4, UartInvIs, PTL

\* A step of the registers alone.
LEMMA RegisterStep ==
  ASSUME Uart!UartInv, NEW u \in Uart!UartType, uart' = u, Follows(u), UNCHANGED <<console, got>>,
         u.rx = uart.rx, u.rhr = uart.rhr
  PROVE  Uart!UartInv'
<1>1. Held(uart') = Held(uart)
  BY DEF Held
<1>2. console \in Seq(Int)
  BY UartInvIs
<1>3. QED
  BY <1>1, <1>2, QuietStep

\* Whatever leaves the UART alone keeps its invariant.
LEMMA UartStays == ASSUME Uart!UartInv, UNCHANGED <<uart, console, got>> PROVE Uart!UartInv'
<1>1. uart \in Uart!UartType /\ Follows(uart)
  BY UartInvIs
<1>2. QED
  BY <1>1, RegisterStep

\* Every access of a register, with the poll it makes, keeps the UART's invariant.
LEMMA UartStep == ASSUME Uart!UartInv, Uart!UartNext PROVE Uart!UartInv'
<1>0. /\ uart \in Uart!UartType /\ console \in Seq(Int) /\ got \in Seq(Int)
      /\ Follows(uart) /\ got \o Held(uart) \o console = Uart!Input
  BY UartInvIs
<1>1. CASE Uart!ReadRhr
  <2>1. CASE uart.dlab
    BY <1>0, <1>1, <2>1, RegisterStep DEF Uart!ReadRhr
  <2>2. CASE ~uart.dlab
    <3> DEFINE w == [uart EXCEPT !.rx = FALSE]
               v == Uart!UpdateIsr(w)
    <3>1. w \in Uart!UartType /\ w.rx = FALSE
      BY <1>0 DEF Uart!UartType
    <3>2. uart' = v /\ console' = console /\ got' = IF uart.rx THEN Append(got, uart.rhr) ELSE got
      BY <1>1, <2>2 DEF Uart!ReadRhr
    <3> HIDE DEF w
    <3>3. v \in Uart!UartType /\ Follows(v) /\ v.rx = FALSE
      BY <3>1, UpdateFollows
    <3> HIDE DEF v
    <3>4. Held(uart') = <<>> /\ uart.rhr \in Int
      BY <1>0, <3>2, <3>3 DEF Held, Uart!UartType
    <3>5. got' \in Seq(Int) /\ got' \o Held(uart') = got \o Held(uart)
      <4>1. \A s \in Seq(Int) : s \o <<>> = s
        BY ConcatEmptySeq
      <4>2. CASE uart.rx
        <5>1. Held(uart) = <<uart.rhr>> /\ got' = Append(got, uart.rhr)
          BY <3>2, <4>2 DEF Held
        <5>2. Append(got, uart.rhr) \in Seq(Int) /\ Append(got, uart.rhr) = got \o <<uart.rhr>>
          BY <1>0, <3>4, AppendProperties
        <5>3. QED
          BY <3>4, <4>1, <5>1, <5>2
      <4>3. CASE ~uart.rx
        BY <1>0, <3>2, <3>4, <4>1, <4>3 DEF Held
      <4>4. QED
        BY <4>2, <4>3
    <3>6. (/\ uart \in Uart!UartType /\ console \in Seq(Int) /\ got \in Seq(Int)
           /\ Follows(uart) /\ got \o Held(uart) \o console = Uart!Input)'
      BY <1>0, <3>2, <3>3, <3>5 DEF Uart!Input
    <3>7. QED
      BY <3>6, UartInvIs, PTL
  <2>3. QED
    BY <2>1, <2>2
<1>2. CASE Uart!ReadLsr
  <2> DEFINE w == [uart EXCEPT !.thre = TRUE]
  <2>1. w \in Uart!UartType /\ w.rx = uart.rx /\ w.rhr = uart.rhr
    BY <1>0 DEF Uart!UartType
  <2>2. /\ uart' = Uart!UpdateIsr(Uart!Poll(w, console)) /\ console' = Uart!Rest(uart, uart', console)
        /\ got' = got
    BY <1>2 DEF Uart!ReadLsr, Uart!Lsr
  <2> HIDE DEF w
  <2>3. /\ Uart!Poll(w, console) \in Uart!UartType
        /\ Uart!Rest(w, Uart!Poll(w, console), console) \in Seq(Int)
        /\ Held(Uart!Poll(w, console)) \o Uart!Rest(w, Uart!Poll(w, console), console) = Held(w) \o console
    BY <1>0, <2>1, PollMoves
  <2> DEFINE p == Uart!Poll(w, console)
  <2>4. uart' \in Uart!UartType /\ Follows(uart') /\ uart'.rx = p.rx /\ uart'.rhr = p.rhr
    BY <2>2, <2>3, UpdateFollows
  <2>5. Held(uart') = Held(p) /\ console' = Uart!Rest(w, p, console) /\ Held(w) = Held(uart)
    BY <2>1, <2>2, <2>4 DEF Held, Uart!Rest
  <2> HIDE DEF p
  <2>6. console' \in Seq(Int) /\ Held(uart') \o console' = Held(uart) \o console
    BY <2>3, <2>5 DEF p
  <2>7. QED
    BY <2>2, <2>4, <2>6, QuietStep
<1>3. CASE Uart!ReadMsr
  BY <1>0, <1>3, UpdateFollows, RegisterStep DEF Uart!ReadMsr
<1>4. CASE \E ch \in 1..2 : Uart!WriteThr(ch)
  <2> PICK ch \in 1..2 : Uart!WriteThr(ch)
    BY <1>4
  <2>1. CASE uart.dlab
    <3> DEFINE w == [uart EXCEPT !.div = ch]
    <3>0. /\ w \in Uart!UartType /\ w.rx = uart.rx /\ w.rhr = uart.rhr /\ w.ier = uart.ier
          /\ w.thre = uart.thre /\ w.irq = uart.irq /\ w.isr = uart.isr
      <4>1. ch \in 0..2
        OBVIOUS
      <4>2. QED
        BY <1>0, <4>1 DEF Uart!UartType
    <3>1. w \in Uart!UartType /\ w.rx = uart.rx /\ w.rhr = uart.rhr /\ Follows(w)
      BY <1>0, <3>0 DEF Follows
    <3>2. uart' = w /\ UNCHANGED <<console, got>>
      BY <2>1 DEF Uart!WriteThr
    <3> HIDE DEF w
    <3>3. QED
      BY <3>1, <3>2, RegisterStep
  <2>2. CASE ~uart.dlab
    <3> DEFINE w == [uart EXCEPT !.thre = FALSE]
               v == Uart!UpdateIsr(w)
    <3>1. w \in Uart!UartType /\ w.rx = uart.rx /\ w.rhr = uart.rhr
      BY <1>0 DEF Uart!UartType
    <3>2. uart' = Uart!Poll(v, console) /\ console' = Uart!Rest(v, uart', console) /\ got' = got
      BY <2>2 DEF Uart!WriteThr
    <3> HIDE DEF w
    <3>3. v \in Uart!UartType /\ Follows(v) /\ v.rx = uart.rx /\ v.rhr = uart.rhr
      BY <3>1, UpdateFollows
    <3> HIDE DEF v
    <3>4. Held(v) = Held(uart)
      BY <3>3 DEF Held
    <3>5. /\ uart' \in Uart!UartType /\ Follows(uart') /\ console' \in Seq(Int)
          /\ Held(uart') \o console' = Held(v) \o console
      BY <1>0, <3>2, <3>3, PollMoves
    <3>6. QED
      BY <3>2, <3>4, <3>5, QuietStep
  <2>3. QED
    BY <2>1, <2>2
<1>5. CASE \E s \in SUBSET Uart!Cause : Uart!WriteIer(s)
  <2> PICK s \in SUBSET Uart!Cause : Uart!WriteIer(s)
    BY <1>5
  <2> DEFINE w == [uart EXCEPT !.ier = s]
             v == Uart!UpdateIsr(w)
  <2>1. w \in Uart!UartType /\ w.rx = uart.rx /\ w.rhr = uart.rhr
    BY <1>0 DEF Uart!UartType
  <2>2. uart' = (IF uart.dlab THEN uart ELSE v) /\ UNCHANGED <<console, got>>
    BY DEF Uart!WriteIer
  <2> HIDE DEF w
  <2>3. v \in Uart!UartType /\ Follows(v) /\ v.rx = uart.rx /\ v.rhr = uart.rhr
    BY <2>1, UpdateFollows
  <2> HIDE DEF v
  <2>4. QED
    BY <1>0, <2>2, <2>3, RegisterStep
<1>6. CASE \E b \in BOOLEAN : Uart!WriteLcr(b)
  <2> PICK b \in BOOLEAN : Uart!WriteLcr(b)
    BY <1>6
  <2> DEFINE w == [uart EXCEPT !.dlab = b]
  <2>1. w \in Uart!UartType /\ w.rx = uart.rx /\ w.rhr = uart.rhr /\ Follows(w)
    BY <1>0 DEF Uart!UartType, Follows
  <2>2. uart' = w /\ UNCHANGED <<console, got>>
    BY DEF Uart!WriteLcr
  <2> HIDE DEF w
  <2>3. QED
    BY <2>1, <2>2, RegisterStep
<1>7. QED
  BY <1>1, <1>2, <1>3, <1>4, <1>5, <1>6 DEF Uart!UartNext

-----------------------------------------------------------------------------
(* Proofs: the UART wired to the controller                                 *)

\* A source is pending only while the line of its device is up.
WiredInv ==
  /\ Uart!UartInv /\ plic \in Plic!PlicType
  /\ UartIrq \in plic.pending => uart.irq

\* The UART and the controller it is wired to reset together.
LEMMA WiredStart ==
  ASSUME Uart!UartInit, UartPlicInit
  PROVE  WiredInv
<1>1. Uart!UartInv
  BY IntcAssumption, UartStart
<1>2. plic \in Plic!PlicType
  BY IntcAssumption DEF UartPlicInit, Plic!PlicType
<1>3. plic.pending = {}
  BY DEF UartPlicInit
<1>4. QED
  BY <1>1, <1>2, <1>3 DEF WiredInv

\* The wired controller has the UART pending only while the UART raises its line.
LEMMA WiredStep == ASSUME WiredInv, UartPlicNext PROVE WiredInv'
<1>0. /\ Plic!PlicAssumption /\ 0 \in Plic!Hart /\ UartIrq \in Irq
      /\ plic \in Plic!PlicType /\ Uart!UartInv
  BY IntcAssumption DEF Plic!PlicAssumption, Plic!Hart, WiredInv
<1>1. CASE UartAccess
  <2>1. Uart!UartInv'
    BY <1>0, <1>1, UartStep DEF UartAccess
  <2>2. uart' \in Uart!UartType
    BY <2>1 DEF Uart!UartInv
  <2>3. CASE uart'.irq = uart.irq
    BY <1>1, <2>1, <2>3 DEF UartAccess, WiredInv
  <2>4. CASE uart'.irq # uart.irq
    <3>1. plic' = Plic!SetIrq(plic, UartIrq, uart'.irq) /\ uart'.irq \in BOOLEAN
      BY <1>1, <2>2, <2>4 DEF UartAccess, Uart!UartType
    <3>2. /\ plic' \in Plic!PlicType
          /\ plic'.pending = IF uart'.irq THEN plic.pending \cup {UartIrq} ELSE plic.pending \ {UartIrq}
      <4>1. plic' \in Plic!PlicType
        BY <1>0, <3>1, SetIrqSets
      <4>2. plic'.pending = Moved(plic, UartIrq, uart'.irq)
        BY <1>0, <3>1, <4>1, SetIrqSets
      <4>3. QED
        BY <4>1, <4>2 DEF Moved
    <3>3. QED
      BY <2>1, <3>1, <3>2 DEF WiredInv
  <2>5. QED
    BY <2>3, <2>4
<1>2. CASE Plic!ClaimStep(0) /\ UNCHANGED <<uart, console, got>>
  <2>1. plic' = Plic!Claim(plic, 0).plic
    BY <1>2 DEF Plic!ClaimStep
  <2>2. plic' \in Plic!PlicType /\ plic'.pending \subseteq plic.pending
    BY <1>0, <2>1, ClaimTakes
  <2>3. Uart!UartInv'
    BY <1>0, <1>2, UartStays
  <2>4. QED
    BY <1>2, <2>2, <2>3 DEF WiredInv
<1>3. CASE Plic!CompleteStep(0, UartIrq) /\ UNCHANGED <<uart, console, got>>
  <2>1. plic' = [plic EXCEPT !.served = @ \ {UartIrq}]
    BY <1>3 DEF Plic!CompleteStep, Plic!Complete
  <2>2. plic' \in Plic!PlicType /\ plic'.pending = plic.pending
    BY <1>0, <2>1 DEF Plic!PlicType
  <2>3. Uart!UartInv'
    BY <1>0, <1>3, UartStays
  <2>4. QED
    BY <1>3, <2>2, <2>3 DEF WiredInv
<1>4. QED
  BY <1>1, <1>2, <1>3 DEF UartPlicNext

\* Interrupts are right for any number of harts, sources and contexts and any characters:
\* a source has one handler and is signalled, unless it was missed, the UART's line follows
\* its causes and no character is lost (plic_update_mip, plic_read, plic_set_irq,
\* update_isr, dw_apb_uart_poll).
THEOREM Interrupts == Spec => InterruptsRight
<1> DEFINE inPlic == part = "plic"
           inUart == part = "uart"
           serves == Plic!OneHandler /\ Plic!PendingSignalled
           wired == /\ Uart!CharsInOrder /\ Uart!LineFollowsCauses
                    /\ UartIrq \in plic.pending => uart.irq
<1>1. Init => (inPlic => Plic!PlicInv) /\ (inUart => WiredInv)
  BY IntcAssumption, PlicStart, WiredStart DEF Init
<1>2. [Next]_vars => /\ (inPlic <=> inPlic') /\ (inUart <=> inUart')
                     /\ inPlic => Plic!Next \/ UNCHANGED <<plic, serving, missed>>
                     /\ inUart => UartPlicNext \/ UNCHANGED <<plic, uart, console, got>>
  BY DEF Next, vars, intc, serial
<1>3. inPlic /\ Plic!PlicInv /\ [Next]_vars
        => Plic!PlicInv' /\ (Plic!ClaimQuietsFor({0}) \/ serving' = serving)
  <2> SUFFICES ASSUME inPlic, Plic!PlicInv, [Next]_vars
               PROVE  Plic!PlicInv' /\ Plic!ClaimQuietsFor({0})
    OBVIOUS
  <2>1. {0} \cap Context = {0}
    BY IntcAssumption
  <2>2. CASE Plic!Next
    BY <2>1, <2>2, IntcAssumption, PlicStep
  <2>3. CASE UNCHANGED <<plic, serving, missed>>
    BY <2>3, PlicStays DEF Plic!ClaimQuietsFor
  <2>4. QED
    BY <1>2, <2>2, <2>3
<1>4. inUart /\ WiredInv /\ [Next]_vars => WiredInv'
  <2> SUFFICES ASSUME inUart, WiredInv, [Next]_vars PROVE WiredInv'
    OBVIOUS
  <2>1. CASE UartPlicNext
    BY <2>1, WiredStep
  <2>2. CASE UNCHANGED <<plic, uart, console, got>>
    BY <2>2, UartStays DEF WiredInv
  <2>3. QED
    BY <1>2, <2>1, <2>2
<1>5. inPlic /\ Plic!PlicInv /\ [Next]_vars => [inPlic => Plic!ClaimQuietsFor({0})]_vars
  BY <1>3 DEF Plic!ClaimQuietsFor
<1>6. ~inPlic => [inPlic => Plic!ClaimQuietsFor({0})]_vars
  OBVIOUS
<1>7. (Plic!PlicInv => serves) /\ (WiredInv => wired)
  BY DEF Plic!PlicInv, WiredInv, Uart!UartInv
<1> HIDE DEF inPlic, inUart, serves, wired
<1>8. QED
  BY <1>1, <1>2, <1>3, <1>4, <1>5, <1>6, <1>7, PTL DEF Spec, InterruptsRight, inPlic, inUart, serves, wired

-----------------------------------------------------------------------------
(* Proofs: the 9p file server                                               *)

(* The descriptors, the fids and the files agree beside the other devices,  *)
(* in a flat directory and in a deep one (virtio_9p_recv_request, fs_open,  *)
(* fs_create, fs_delete).                                                   *)
THEOREM FilesKept == Spec => []FilesRight
<1> DEFINE flat == Flat!HandlesOwned /\ Flat!FidMeansFile /\ Flat!DirHandlesAreDirs
           deep == Deep!HandlesOwned /\ Deep!FidMeansFile /\ Deep!DirHandlesAreDirs
           inFlat == part = "flat"
           inDeep == part = "deep"
<1>1. (Flat!Spec => []flat) /\ (Deep!Spec => []deep)
  BY FilesAssumption, Flat!FidsKeepFiles, Deep!FidsKeepFiles
<1>2. Init => (inFlat => Flat!Init) /\ (inDeep => Deep!Init)
  BY DEF Init
<1>3. [Next]_vars => /\ (inFlat <=> inFlat') /\ (inDeep <=> inDeep')
                     /\ inFlat => [Flat!Next]_(Flat!vars)
                     /\ inDeep => [Deep!Next]_(Deep!vars)
  BY DEF Next, vars, files, Flat!vars, Deep!vars
<1>4. (inFlat => flat) /\ (inDeep => deep) => FilesRight
  BY DEF FilesRight
<1> HIDE DEF flat, deep, inFlat, inDeep
<1>5. QED
  BY <1>1, <1>2, <1>3, <1>4, PTL DEF Spec, Flat!Spec, Deep!Spec
=============================================================================
