# A TLA+ model of OpenExSys CoherentCache

This directory is a verification project for this repository: the directory-based
MESI cache of `rtl/rvh_cache` (private L1 data caches, a snoop control unit with the
directory and the shared last-level cache), the instruction-set emulator
`utils/dromajo` that serves as its golden model, and the testbench runtime
`utils/rrvtb`. TLC checks small instances of the models; TLAPS proves, for every value
of the constants, the safety properties of the coherent cache, its refinement of an
abstract line, properties of three of its units, and of the emulator protection,
translation, privilege, interrupts and the 9p file server.

Contents: [1 The system](#1-the-system) · [2 Modules](#2-modules) ·
[3 How the code is abstracted](#3-how-the-code-is-abstracted) ·
[4 Properties and runs](#4-properties-and-runs) · [5 Fairness](#5-fairness) ·
[6 Findings](#6-findings) · [7 Proofs](#7-proofs) ·
[8 What is not modelled](#8-what-is-not-modelled) · [9 Plan](#9-plan)

## 1 The system

### 1.1 The coherent cache

The build configuration modelled is that of `tb/ruby_testbench/Makefile` (lines
34-38): `S_TO_M_NO_DATA_TRANSFER` (upgrades without data),
`PRIVATE_CACHE_TO_SCU_DATA_WRITEBACK_DIRTY_PART_ONLY` and
`..._SNP_RESP_DIRTY_PART_ONLY` (a cache sends only dirty bursts),
`SCU_TO_PRIVATE_CACHE_DATA_WRITE_RESP_CLEAN_PART_ONLY` (the SCU leaves out bursts
the requestor will overwrite), one RAM bank, no critical-word-first.

| Part | State | Operations | Hard because |
|---|---|---|---|
| SCU pipeline (`rvh_scu.sv`) | request FIFO, evict FIFO, stages s0-s2 | accept or stall a request; forward an eviction to an MSHR or allocate one; look up the directory; configure the MSHR; choose an LLC victim | the directory entry an MSHR starts from can be changed by an eviction that is already under way |
| SCU MSHRs (`rvh_scu_mshr.sv`) | 64 entries: request, directory copy, data with valid and dirty bits per burst, lists of snoops sent and answered, what is awaited, what is to be updated; seven FIFOs of entry ids | send snoops, read memory and data RAM, collect answers, answer the requestor, update tag and data RAM, free the entry | answers, write-backs and RAM data arrive in any order, also in one cycle; FIFOs hold ids of entries that could be freed |
| SCU replacement MSHRs (`rvh_scu_repl_mshr.sv`) | 16 entries like the above, and the progress of the memory write | recall the victim from its sharers, merge, write to memory | the line may be evicted or asked for meanwhile |
| Directory and LLC RAMs | tag, valid, dirty, owner bit, sharer list, data | read at s1, written by the MSHRs | the dirty bit is read at allocation and written at the end |
| L1D bank (`rvh_l1d_bank.sv`) | two-stage pipeline, tag and data RAM | load/store hit, miss, refill, eviction, snoop | four sources write one state table |
| L1D state table (`rvh_l1d_lst.sv`) | MESI state and dirty bits of each way | read, write, peek | |
| L1D MSHR and fill buffer (`rvh_l1d_mshr.sv`, `rvh_l1d_mlfb.sv`) | missing requests; one refill in progress | request, peek at a victim, evict, refill, acknowledge | the victim is inspected some cycles before it is evicted |
| L1D evict queue (`rvh_l1d_ewrq.sv`) | lines that leave | Evict or WriteBackPartial, wait for WriteBack_Ack, data | holds back snoops and core requests of its set |
| L1D snoop controller (`rvh_l1d_snp_ctrl.sv`) | snoop buffer | conflict check, new state, answer | runs beside misses of the same line |
| fence.i (`rvh_l1d.sv`, `rvh_l1d_bank.sv`) | a state machine of the L1D and one of each bank, set and way pointers | drain the store buffer, wait for misses, walk all ways, make dirty lines clean and offer them to the evict queue | the pointer must visit every way while the evict queue stalls it; what is offered carries the state of the last request; snoops go on |
| Store buffer, AMO, page walker, input arbiter | | | only what they do to the lines of a set (`L1dWays`) or to a fence (`Fencei`) |
| EBI link (`rtl/rvh_ebi`), utilities (`rtl/util`), Ruby tester | | | not modelled (section 8) |

A load miss sends ReadShared, a store miss ReadUnique, a store to a SHARED line
CleanUnique. The SCU allocates an MSHR, snoops the caches the directory lists if it
must (SnpShared to an owner, SnpUnique to all others), reads memory or the data
RAM, answers CompData or Comp_UD, waits for FinishTrans_Ack and writes directory
and data. A line that leaves a cache is announced by Evict (acknowledged at once)
or WriteBackPartial (acknowledged when its data may be sent). An eviction that
finds an MSHR of its line is recorded there; that is what resolves the race of an
eviction with a snoop: the snoop finds INVALID and the MSHR waits for the eviction.
A miss in a full LLC set recalls a line of the set through a replacement MSHR.

What makes the parts correct: one writer or many readers (SWMR); a hit reads the
last value stored (DataValue); no store is lost on its way down (ValueSurvives,
CleanMatchesMemory); the directory covers all holders between transactions
(DirectoryCovers); each answer finds the entry that waits for it
(AnswersFindEntry, CompFindsMiss, WritesOwned, RespFifoFits); everything that was
begun ends (MissesComplete, EvictionsDrain, SnoopsAnswered, EntriesFreed).
`PROJECT.json` lists the hazards at the lines where they bite.

### 1.2 The emulator

`dromajo` executes RISC-V programs one instruction of each hart at a time
(`dromajo.cpp`, `iterate_core`). Devices change state inside the loads and stores of
the guest and in the calls of the main loop; there are no threads. What is hard is
state kept in two places (a TLB entry and what it was checked against, a line and a
pending bit, a ring index and a chain in progress), requests that end by a callback,
arithmetic at the edges, and a second party, the design under test, whose order of
events the emulator has to follow.

| Part | State | Operations | Hard because |
|---|---|---|---|
| Integer and compressed instructions (`dromajo_template.h`) | registers | arithmetic, shifts, branches, atomics; decoding | zero, sign and overflow; scattered immediate bits |
| Floating point (`softfp_template.h`, `softfp.cpp`, `dromajo_fp_template.h`) | registers, flags | arithmetic, fused multiply-add, order, conversions, boxing | rounding once, subnormal and tiny results, flags |
| Protection and translation (`riscv_cpu.cpp`) | PMP registers and regions, page table, three TLBs | write registers, access, flush | a TLB entry is used without the checks that made it |
| Traps (`riscv_cpu.cpp`) | privilege, status, delegation, pending and enable bits, debug mode | exception, interrupt, return, CSR writes, wfi | nesting in any order; what lower privileges may change |
| Memory (`iomem.cpp`, `riscv_cpu.cpp`) | ranges, dirty bits | loads, stores, collection of dirty bits | overlapping ranges, accesses that cross, stores past the dirty bits |
| Atomics (`OP_A`) | reservation of each hart | LR, SC, AMO | other harts in between |
| CLINT, PLIC, UART (`riscv_machine.cpp`, `dw_apb_uart.cpp`) | time and deadlines; pending, served, enabled; FIFO and causes | registers, claim, complete, poll | 64-bit deadlines written in halves; two harts; lines that stay up |
| virtio transport and devices (`virtio.cpp`) | ring indices, status, interrupt status, request in progress | notify, copy to and from chains, complete, reset | indices that wrap, callbacks, reset in the middle |
| 9p (`virtio.cpp`, `fs_disk.cpp`) | fids, open files, path names | walk, open, create, rename, remove, clunk, ... | failure half way, fids reused, paths that change |
| Machine set-up (`riscv_machine.cpp`) | device tree, memory ranges, images | build, load | lengths and overlaps |
| Checkpoints (`riscv_cpu.cpp`, `LiveCache.cpp`) | the recovery program; a cache model | serialise, recover, warm up | the program runs under the rules it restores |
| Main loop (`dromajo.cpp`, `dromajo_main.cpp`) | instruction limit, exit code | take turns, serve `tohost` | several harts, one limit |
| Co-simulation (`dromajo_cosim.cpp`) | pending interrupt and exception | raise_trap, step, compare | the emulator must end in step with the design |
| goldmem (`gold/`) | a reorder buffer for each core, memory bytes | report of each stage of loads and stores | out-of-order stores, merges, nukes |
| rrvtb (`utils/rrvtb`) | changed signals, registered calls | value change, end of step | functions that change signals while they are called |

What makes them correct: results are those of the instruction set (IntegerExact,
FloatExact); an access is the one a walk and a check would give now (AccessRight);
traps return to what they interrupted (PrivilegeKept); data pass each device once, in
order, with an interrupt (RequestsRight, StreamsRight, InputRight, InterruptsRight);
every open host file belongs to one fid (FilesRight); a guest finds what was loaded
(TreeRight, ImagesRight, MemoryRight), a recovered one what was saved
(CheckpointRight); correct designs are not reported and wrong ones are (CosimRight,
TestbenchRight). `PROJECT.json` lists the hazards at the lines where they bite.

## 2 Modules

| Module | Models | Source |
|---|---|---|
| `CcPkg` | message types, bursts, channels | `include/rvh_l1d_cc_pkg.sv` |
| `L1dBank` | the private caches, seen from one line | `rvh_l1d_*.sv` |
| `Scu` | SCU pipeline, MSHR, replacement MSHR, directory, LLC, memory, seen from one line | `rvh_scu*.sv` |
| `CoherentLine` | abstract contract: rights, copies and the value of one line | |
| `CoherentCache` | caches and SCU together, fairness, properties, refinement of `CoherentLine` | |
| `CoherentCacheProofs` | theorems on `CoherentCache`: types, entries, control, values, the refinement; on `CoherentLine` | |
| `L1dWays` | all ways of a set: tags, states, misses, refill, snoops | `rvh_l1d_bank.sv`, `rvh_l1d_mlfb.sv`, `rvh_l1d_lst.sv`, `rvh_l1d_snp_ctrl.sv` |
| `Fencei` | the flush, with the register of the last request, the evict queue and snoops | `rvh_l1d.sv`, `rvh_l1d_bank.sv`, `rvh_l1d_ewrq.sv` |
| `ScuAlloc` | admission, MSHR files with escape entries, evict FIFO, over several sets | `rvh_scu.sv` |
| `ReplMem` | the write channels of a replacement MSHR and the memory controller | `rvh_scu_repl_mshr.sv`, `axi2mem.sv` |
| `Alu`, `Compressed` | integer instructions; decoder of 16-bit ones | `dromajo_template.h` |
| `SoftFp`, `FpArith`, `FpFormats` | floating-point library; its operations against IEEE 754; two formats in one register file | `softfp_template.h`, `softfp.cpp`, `dromajo_fp_template.h` |
| `Pmp`, `Tlb`, `Traps` | protection; TLBs and translation; privilege (with its theorems) | `riscv_cpu.cpp` |
| `HartProofs` | theorems on `Pmp`, `Tlb`, `PhysMem`, `LrSc` and `MCHart` | |
| `PhysMem`, `LrSc` | ranges, loads and stores; atomics of several harts | `iomem.cpp`, `riscv_cpu.cpp`, `dromajo_template.h` |
| `Clint`, `Plic`, `DwApbUart` | timer, interrupt controller, UART | `riscv_machine.cpp`, `dw_apb_uart.cpp` |
| `VirtioChain`, `VirtioQueue` | descriptor chains; rings, registers, notification, reset | `virtio.cpp` |
| `VirtioBlock`, `VirtioStream`, `VirtioInput` | block device; console and network; keyboard and mouse (extend `VirtioQueue`) | `virtio.cpp` |
| `P9Message`, `Virtio9p` | 9p messages; the file server over a host directory (with its theorem) | `virtio.cpp`, `fs_disk.cpp` |
| `Fdt`, `BootLoad`, `Snapshot`, `LiveCache` | device tree; images; checkpoints; cache warm-up | `riscv_machine.cpp`, `riscv_cpu.cpp`, `LiveCache.cpp` |
| `MachineLoop`, `Cosim` | main loop; co-simulation | `dromajo.cpp`, `dromajo_main.cpp`, `dromajo_cosim.cpp` |
| `GoldCore`, `GoldInorder` | goldmem for one core; goldmem in the co-simulation | `gold/` |
| `Rrvtb` | calls for changed signals | `utils/rrvtb/rrvtb.cpp` |

Modules for model checking: `MCCoherentCache` (constants of `CoherentCache`), and five that
put the other parts together: `MCCacheUnits`, `MCSchedules`, `MCHart`, `MCDevices` and
`MCMachine`. `L1dWays`, `ScuAlloc`, `Traps` and `Virtio9p` hold their own theorems,
`MCCacheUnits` those of `ReplMem` and of the composition, `MCDevices` those of the parts it
composes. The constants of `ReplMem` are constants of `MCCacheUnits`, those of protection,
translation, traps, memory, atomics, interrupt controller and UART constants of `MCHart` and
`MCDevices`, all given in the `.cfg`, so that the theorems speak of all their values; the
others are fixed where the parts are instantiated. Each of the five instantiates its parts
over one set of variables (`MCCacheUnits` extends `ReplMem`, the better to prove about it);
`part` is chosen in the initial state, the part it names runs, the others stand still, so
that the states of the parts add up instead of multiplying. Parts that really interact are
joined: the devices with `VirtioQueue` by EXTENDS, the UART with the interrupt controller in
`MCDevices` (`UartAccess`), caches and SCU in `CoherentCache`. A composed property is a
conjunction of `part = "x" => X!P`.

Definitions named `...Fault` are deliberately wrong variants of the definition that
follows them. No specification uses them; each shows that some property notices
the mistake it describes (`PROJECT.json`, "mutants"). A composed property has a mutant
for most of its conjuncts.

State and actions of the cache, next to the code:

* `st`, `dat`, `drt`: MESI state, data and dirty bits of the way that holds the line.
  `StoreHit`, `LoadMiss`, `StoreMiss` are requests that leave stage s2; `CoreReady`
  is the set-conflict part of the ready signals. A load hit changes nothing and is
  no action; DataValue says what it would read.
* `mreq`: the MSHR entry of the line and its fill buffer: `SendReq`, `Refill`,
  `FinishAck`. The refill performs the store that missed.
* `vic`, `ewrq`: the line as a victim. `VictimPeek` reads the state and records
  `victim_way_clean`; `VictimEvict`, some cycles later, makes the line INVALID and
  queues it; `EwrqSend`, `EwrqAck`, `EwrqData` are the queue.
* `Snoop`: conflict check to answer. It waits for the evict queue, not for the MSHR.
* `latest`: a history variable, the value of the last store performed.
* `mshr`, `respq`, `dataq`, `tagq`, `ramq`: the MSHR of the line, and its entries in
  the response, data, tag-write and data-write FIFOs. `NewMshr` is the case
  statement of s2 (`SharedMshr` and `OwnedMshr` are its cases 11 and 10).
* `repl`, `replResp`: the replacement MSHR of the line. `ReplStart` is the choice of
  the line as the victim of a miss of another line.
* `llc`, `mem`: the LLC way with its directory entry, and memory.

In the other modules a variable has the name of the field or register it stands for,
and an action the name of the function or state; the head comment of each module says
what is kept and `PROJECT.json` maps every definition to its lines. Variables that only
properties read (what was written, asked, used so far) are marked as such where they
are declared.

## 3 How the code is abstracted

`CoherentCache`:

* **One line.** The SCU and the banks serialise by set: a request whose set is held
  by the pipeline, an MSHR, a replacement MSHR or the evict queue stalls
  (`rvh_scu.sv` 319-427, `rvh_l1d_bank.sv` 784-846). Other lines appear by what they
  do to this one: they displace it from a cache (`VictimPeek`) or from the LLC
  (`ReplStart`). While a miss of another line of the set is served, requests for
  this line only wait, which an interleaving model allows anyway.
* **Atomic steps.** The walk s0-s1-s2 of the SCU is one step, since it holds the set
  against requests and evictions. A snoop is one step, since it stalls core
  requests and every refill step until it has answered. Several events of one cycle
  are interleaved; `mshr_d` merges them so that some order gives the same result.
  The one place where it does not, a write-back forwarded in the cycle in which the
  final update is queued, is an action of its own (`FinalEnqueueWithWriteBack`).
* **Channels.** A cell for each kind of message and cache. Different kinds are
  delivered in any order and after any delay, as the response, data, snoop, request
  and evict channels are separate. NoOverrun checks that one cell is enough.
* **Data.** A line is a function from bytes to values, bursts are sets of bytes, and
  every transfer merges bursts or masked bytes as the code does. Registers no
  component reads hold a fixed value (`AnyLine`). The dirty mask of a load refill,
  which is left over from an older store, is any mask a store can leave.
* **Constants.** `Cache`, `Byte`, `Burst`, `FirstBurst`, `Val`, `StoreMask`; the
  workload `Loaders`, `Storers`, `Evictors`; `Replace` (LLC replacement happens) and
  `Overtake`. They bound everything: there is no counter to cap.
* **Overtake.** A cache whose transaction is complete on its side may evict the line
  before the SCU has seen its FinishTrans_Ack or has queued the directory update:
  the two use different channels. With `Overtake = TRUE` the eviction may then be
  forwarded to the MSHR of the cache's own transaction. With `Overtake = FALSE` it
  waits at the SCU until that MSHR has queued its update. The code does not enforce
  that order; it is what the latencies make likely, since the eviction needs another
  miss of the same set to travel to memory and back. Two findings need
  `Overtake = TRUE` (lost_store and RamWriteComplete, section 6). Read the runs with `Overtake = FALSE` as: right, provided this.
* **Workload.** The passing runs leave out one combination, a cache that stores and
  evicts while another cache loads, because it runs into the finding `stale_victim`,
  after which most properties fail. Loads, stores and evictions by one cache, against
  stores of another, and evictions of a reader against writers, are in the runs.

The other modules:

* **Several lines.** What `CoherentCache` assumes of other lines is looked at where it
  could go wrong: in which way of a set a line is found (`L1dWays`), whether an entry is
  there when one is needed (`ScuAlloc`; what an entry does is abstract there), whether
  the write-back of a replaced line reaches memory whole (`ReplMem`, clock by clock).
* **Small numbers.** Registers of 8 bits with words of 4 (`Alu`) and floats of 8 bits
  (`SoftFp`): the code is written for any width, and every boundary it tests (sign,
  shift amount, overflow, subnormal, rounding carry) exists in the small ones. Of the
  floats one operand is near zero, near one or near the largest, with few negative
  ones (`MCHart`'s `Corner8`, `Half8`). 16-bit
  instructions are all decoded. Ring indices wrap at twice the ring instead of 2^16.
  The 64-bit time is two words of base 3.
* **Contents.** A byte of memory or of an image is a pair, where it comes from and its
  place there; a file is its number; a word of the recovery ROM names the register half
  it carries; the text of a device tree is its length.
* **The guest and the design under test** do anything the interface allows, one access
  or call at a time. `MprvTraps`, `Apart`, `Announced`, `Cases`, `Merging` and `NukeSafe`
  say whether they also do what a finding of section 6 needs, `BusyReset` whether a
  driver resets the block device while a request is in progress.
* **Bounds.** `MaxStores`, `MaxInst`, `MaxOrder`, `MaxInsns`, `MaxRun`, `MaxTime`,
  `NChars`, `MaxIno`, `MaxHandle` and the constants of sizes are guards of actions; each
  is named in its module.

## 4 Properties and runs

Sizes are distinct states. Lines of one or two bytes and two values suffice: the code
treats all bytes, bursts and values alike (but for package 0, which is `FirstBurst`),
and one burst that differs from another shows a wrong merge. Two caches give every race
of two transactions; three are needed for several snoops of one MSHR and for an upgrade
that loses to a third cache. Caches are not symmetric because the workload tells them
apart.

| Run | Instance | Checks |
|---|---|---|
| `coherence` (213k) | 2 caches, c2 loads, both store, c2 evicts, replacement, 1 burst, 2 values | TypeOK, SWMR, RecordsRight, OneAgent, ArrivalsExpected, WritesOwned, LineInOnePlace, NoOverrun, ImplementsContract |
| `data` (950k) | 2 bursts of one byte, stores of either | DataKept, RamWriteComplete |
| `three` (347k) | 3 caches, all load, c1 and c2 store, c3 evicts, replacement, 1 value | SWMR, ArrivalsExpected |
| `overtake` (2.05M) | 2 caches, `Overtake`, 1 burst of two bytes, stores of one or both, no replacement | SWMR, DataKept |
| `progress` (14k) | 2 caches, replacement, fairness | MissesComplete, EvictionsDrain, SnoopsAnswered, EntriesFreed |
| `cache_units` (1.32M) | a set of 3 ways, 4 lines, 2 misses at a time; 2 replacement MSHRs, 3 lines of 4 beats | LinesFound, WriteBacksRight |
| `schedules` (44k) | fence of a bank of 2x2 lines and of 2 banks of one line, evict queue of 1; 2 sets, 2 MSHRs of which 1 for evictions; a timer; loops of 1 and 3 harts; programs of 2 instructions and a handler; all with fairness | FenceCompletes, EvictionsTaken, TimerRight, LoopEnds, CosimRight |
| `hart` (1.43M) | operands of 8 bits and immediates of 5, all 16-bit instructions, 2 protection entries over 16 bytes, accesses of 1 and 4 bytes, a TLB of one slot over 2 pages, traps in any order with a supervisor's and a machine timer interrupt; two RAM ranges that overlap and a device, pages of 4 bytes, 2 stores of 2 and 4 bytes at any address; atomics of 2 harts on 3 cells | IntegerExact, FloatExact, AccessRight, PrivilegeKept, MemoryRight |
| `devices` (1.07M) | rings of 2 or 4, 2 to 4 chains; 2 fids, 2 names; 2 harts, 2 sources, contexts 0 and 1; 3 characters | RequestsRight, StreamsRight, InputRight, FilesRight, InterruptsRight |
| `machine` (482k) | 1, 2 or 4 harts and up to 11 devices in the tree; images around 4 pages; 4 instructions in flight; 2 harts of goldmem | TreeRight, ImagesRight, CheckpointRight, TestbenchRight |
| `stale_victim`, `lost_store` | | the findings 1 and 2 of section 6 |

The cache:

* SWMR, DataKept and ImplementsContract are what the cores rely on. The last is
  refinement: with the state tables as rights and the data RAMs as copies, each step
  of the caches and the SCU is a step of `CoherentLine` or changes nothing there.
  DataKept is DataValue (a hit reads the last value stored) and ValueSurvives.
* RecordsRight is DirectoryCovers and CleanMatchesMemory. These, ValueSurvives and
  EvictExpected speak of moments when no MSHR and no replacement MSHR is active
  (`Quiet`), when directory, LLC and memory must be right by themselves. EvictExpected
  contains the assertion at `rvh_scu.sv` 972-976.
* ArrivalsExpected is AnswersFindEntry, CompFindsMiss, RespFifoFits and EvictExpected.
  With WritesOwned and OneAgent it is about ids: nothing that travels or is queued
  outlives the entry it names.
* LinesFound: no higher way hides a valid line from a snoop that takes the last way
  whose tag matches, valid or not, and a refill overwrites no valid tag. That holds of
  loads and stores; for LR, AMO and page walks see section 6.
* WriteBacksRight: the address of a write is read from an entry that may be free by the
  time the channel is ready; the memory controller's order saves it.
* FenceCompletes: a fence that was begun is granted, and then nothing is left in the store
  buffer, the MSHRs and the evict queues, no line is MODIFIED, and every line with a store
  has been offered to the evict queue or taken by a snoop. It does not say that the data
  arrive, which the code does not ensure (`FlushSaves` in section 6).
* EvictionsTaken: evictions find an entry while requests take all the others, and what was
  admitted finds its MSHR.

The emulator:

* IntegerExact, FloatExact compare the code's algorithm with the definition: division
  law, whole product, immediates by instruction bit; the exact real result rounded once.
* AccessRight: an access through a TLB equals the access a walk would make now.
  PrivilegeKept: traps nest and return; less privileged code changes nothing machine
  mode relies on; locked protection entries stay. MemoryRight: a load returns what was
  stored last, a written page is dirty, a reservation allows one store.
* RequestsRight, StreamsRight, InputRight: data go through descriptor chains and rings
  once, in order, with an interrupt that is not lost, over wrap-around and reset; a 9p
  message reads back or is refused (part of RequestsRight).
  FilesRight: fids, their files and the host's descriptors match.
  InterruptsRight: one handler between claim and completion, a signal to every hart that
  enables the source, a claim of context 0 that leaves its hart interrupted only for what
  is left (`ClaimQuietsFor({0})`; not so for other contexts, section 6), and the UART's line
  through the controller.
* TreeRight, ImagesRight, CheckpointRight: what is written at set-up or saved is what is
  later read; ImagesRight for segments of an ELF file that are no larger than RAM, whose
  size `load_elf_image` does not check. TestbenchRight: goldmem accepts what is allowed and
  reports what is not; rrvtb calls every listener.
* TimerRight, LoopEnds, CosimRight: a timer interrupt comes when it is due and not
  before; a limited run ends; a step of the co-simulation returns and agrees.

Deadlock is checked in all passing runs but two. `overtake`: an MSHR that took a
write-back in the cycle in which it queued its update never ends (part of finding 2).
`machine`: a design under `GoldCore` stops after `MaxInst` instructions, `LiveCache`
after `MaxOrder` accesses, a recovered checkpoint has nothing left to do.

## 5 Fairness

`CoherentCache` (run `progress`): `FairSpec` assumes of each cache weak fairness of its request, refill,
acknowledgement, eviction, queue and snoop steps: each is a state machine that moves
when it is valid and ready, and the ready signals come from the SCU's FIFOs and
round-robin arbiters (`rvh_scu_cc_arb.sv` 103-145). Of the SCU it assumes weak
fairness of `ScuWork`, one disjunction of all steps of the MSHRs: each step makes
progress in an entry, so none can be taken for ever instead of another. This rests on
the MSHRs of other lines not holding the fixed priority encoder of the final-write
stage for ever (`rvh_scu_mshr.sv` 352-361, listed as a hazard).

Strong fairness is assumed of accepting a request (`AcceptReq(c)`) and of taking an
eviction (`TakeEvict(c)`), because both are enabled and disabled again by other
transactions of the line: the request FIFO keeps its head until it is accepted and
the arbiter in front of it is round-robin; the evict FIFO rotates a refused head to
its end and offers each entry again (`rvh_scu.sv` 195-252).

Nothing is assumed of the cores, of evictions by other lines or of LLC replacement:
they may happen or not.

`MCSchedules` assumes, of each part only:

* `FairFence`: the state machines of the L1D and its banks move with the clock (weak
  fairness of each), the store buffer offers its entries one after the other, misses
  end, and the evict queues drain, which is what the run `progress` shows of a line.
  Nothing is assumed of loads and snoops.
* `FairAlloc`: weak fairness of each pipeline stage and of the steps of each entry, and
  strong fairness of forwarding and taking an eviction: the head of the evict FIFO is
  rotated to its end when it is refused and offered again (`rvh_scu.sv` 195-252), so it
  is enabled again and again and not for ever.
* `FairEmulator`: `iterate_core` runs every hart in each round of the loop in `main`, and
  a call of `dromajo_cosim_step` runs until it returns. Nothing is assumed of the guest
  program or of the design under test: they may stop.

## 6 Findings

Two are runs that end in a violation:

1. **`stale_victim`**. `victim_way_clean` is read at the peek (`rvh_l1d_mlfb.sv` 454)
   and used at the eviction (540-543). If a SnpShared makes a MODIFIED victim SHARED
   in between, the queue sends WriteBackPartial for a shared line. The directory case
   for shared lines has no branch for it (`rvh_scu.sv` 874): the MSHR never
   acknowledges, the entry stays in the queue, and the next snoop of that set waits
   for ever, against `doc/l1d_coherence.md` 83.
2. **`lost_store`** (`Overtake`). The final response is held back while an eviction is
   forwarded (`rvh_scu_mshr.sv` 299), the final update is not (301-312). A write-back
   forwarded in that cycle is not in the dirty bit; after a replacement a load reads
   the old value, the error the Ruby tester looks for (`rubytest_core.sv` 839).

The passing runs choose constants under which the other places where code and
documents differ are not met. The table says which property of which module fails when
the constants are changed as in the third column; an entry "(as is)" fails with the
constants of the runs, which check a weaker property. Paths of the emulator are below
`utils/dromajo`.

| Module, property | Place | Constants | What happens, and which line says otherwise |
|---|---|---|---|
| `CoherentCache` RamWriteComplete | `rvh_scu_mshr.sv` 302 | two bursts, `Overtake` | a write-back forwarded to the CleanUnique MSHR of its own cache writes bursts that are not valid; the comment there says all must be |
| `CoherentCache` SnoopWaitsForMiss | `rvh_l1d_snp_ctrl.sv` 372 | (as is) | the check of the MSHRs is commented out; `doc/l1d_coherence.md` 74 describes it. With it two misses wait for each other (`SnoopReadyFault`): the text is wrong |
| `L1dWays` SnpUniqueInvalidates | `rvh_l1d_bank.sv` 1055 | `Ops` with lr, sc, amo | LR and AMO on a SHARED line refill another way; SnpUnique then invalidates one of two (`doc/l1d_coherence.md` 120) |
| `L1dWays` OneMissPerSet | `rvh_l1d_bank.sv` 807 | `Ops` with ptw | a page walk alone at the port passes the set check that line 865 names |
| `Fencei` FlushSaves | `rvh_l1d_bank.sv` 1515, 1617 | (as is) | the flush offers its line with the state and dirty mask of the last request (`s1`): INVALID is dropped (`rvh_l1d_ewrq.sv` 137), a mask that is not the line's cuts the data (226). A snoop between the write of EXCLUSIVE and the queue is answered clean, and one that peeks in that cycle reads the set of the flush and may take another line (934). 1720 says "write back dirty line" |
| `ScuAlloc` EvictReachesRepl | `rvh_scu.sv` 556 | `NMshr` 3, `NEscape` 1, `NRepl` 1 | an eviction a replacement MSHR waits for is refused while stage 0 is stalled, and stage 1 waits for a replacement MSHR |
| `Plic` ClaimQuiets | `src/riscv_machine.cpp` 334 | (as is) | the claim register takes the context for the hart; the enable registers (325) have two contexts a hart |
| `Clint` DeadlineWhole | `src/riscv_machine.cpp` 279 | `First` {lo, hi} | a write of the low word clears the high one (190 lists two registers) |
| `Fdt` FitsRom | `src/riscv_machine.cpp` 646 | 8 harts, 11 devices | the tree ends beyond the ROM (`ROM_SIZE`); 1084 allows 8 harts |
| `Pmp` LowestEntryDecides | `src/riscv_cpu.cpp` 212 | `Size` {8} | an empty region decides an access around it; 211 says non-empty intersection. Never for a word or less, whose bytes lie in one unit of 4 (LowestDecides) |
| `Pmp` PageMeansAll | `src/riscv_cpu.cpp` 747 | (as is) | a page counts as open when the first region that overlaps it is; 748 says "All of this page". In `Tlb` such a page enters the TLB for fetches, and a fetch of a part that is refused then hits (`Offset` {0, 1}) |
| `Tlb` AccessIsTranslated | `src/riscv_cpu.cpp` 1590 | `MprvTraps` | traps and mret change MPP under MPRV without the flush that 863 describes |
| `Tlb` AccessIsPermitted | `src/riscv_cpu.cpp` 570 | `Offset` {0, 1} | the bytes are checked, the page is entered; 184 says all accesses are checked |
| `PhysMem` LoadSeesStores | `src/riscv_machine.cpp` 891 | `Second` 6, `Device` 10, `AllowMisaligned` FALSE | two ranges share a page, the TLB knows one of them (887, `src/iomem.cpp` 93) |
| `BootLoad` ImagesWhole | `src/riscv_machine.cpp` 1008 | `Apart` FALSE | images overlap with result zero; 967 says non-zero on failure |
| `Traps` SleepsWhenIdle | `include/dromajo_template.h` 1234 | (as is) | wfi sleeps with an interrupt pending; 1231 says "if no enabled interrupts are pending" |
| `Traps` StopsOnRequest | `src/riscv_cpu.cpp` 1340 | (as is) | `s->dcsr & 0x600 != 0` tests bit 0, not the two that 1338 names |
| `Snapshot` FpRestored | `src/riscv_cpu.cpp` 2195 | (as is) | the upper half saved for a floating-point register is that of an integer register (`doc/setup.md` 106) |
| `Snapshot` RecoveryUninterrupted | `src/riscv_cpu.cpp` 2215 | (as is) | a timer interrupt diverts the recovery (1336) |
| `Snapshot` CountersResume, PlicRestored | `src/riscv_cpu.cpp` 1641, 2252 | (as is) | counters come back one too high; the PLIC does not come back (`doc/setup.md` 106, 108) |
| `MachineLoop` LimitHolds, StaysDown | `src/dromajo.cpp` 125, 215 | 2 harts | the limit wraps below zero; a hart that shut down runs on while another does (`src/dromajo_main.cpp` 590, 593) |
| `Cosim` NoFalseAlarm | `src/dromajo_cosim.cpp` 277, 170 | `Announced`; 2 harts | an announced ecall stays pending; one pending interrupt serves all harts (`include/dromajo_cosim.h` 49, 67) |
| `LrSc` ScAtomic | `include/dromajo_template.h` 1313 | (as is) | stores of other harts leave a reservation (`include/riscv_cpu.h` 248) |
| `GoldCore` LoadsSeeProgramOrder | `gold/Gold_core.cpp` 134, 172 | `Tso` FALSE; `Merging` | a load is performed again with a store younger than itself (160, `doc/goldmem.md` 4) |
| `GoldCore` ErrorMeansChanged, SafeStoreAccepted | `gold/Gold_core.cpp` 135, 201 | (as is) | loads whose data did not change, and safe stores, are reported (`gold/Gold_core.hpp` 62, 75) |
| `GoldCore` SafeSurvives | `gold/Gold_core.cpp` 39 | (as is) | the youngest safe instruction can be nuked (`gold/Gold_core.hpp` 35) |
| `GoldInorder` RightLoadAccepted | `src/riscv_cpu.cpp` 313, `gold/Gold_mem.hpp` 29, `gold/bridge_inorder.cpp` 32, `src/dromajo_cosim.cpp` 475 | `Cases` hit, amo, signed, device | TLB hits, AMOs to new bytes, sign-extended loads and bytes a device wrote end the comparison (`doc/goldmem.md` 22) |
| `LiveCache` WarmupRestores | `src/LiveCache.cpp` 137 | (as is) | the line of the first access has order 0 and counts as unused (`doc/simpoint.md` 147) |
| `Rrvtb` ChangesAreHeard | `utils/rrvtb/rrvtb.cpp` 122 | `Written` {1, 4} | a signal changed by a called function is dropped from the table (87) |

## 7 Proofs

All theorems hold for every value of the constants, that is any number of caches, bytes,
bursts, values, ways, lines, entries, harts, interrupts, under the named assumptions of the
modules: bursts partition the bytes, there is a value, masks are not empty, the workload
names caches; for the units `WaysAssumption`, `ReplMemAssumption`, `AllocAssumption`; for
the emulator `PmpAssumption`, `TlbAssumption`, `TrapsAssumption`, `PhysMemAssumption`,
`LrScAssumption`, `PlicAssumption`, `UartAssumption` and `P9Assumption`, gathered where the
parts are put together (`WaysSize`, `MemSize`, `HartAssumption`, `MemoryAssumption`,
`IntcAssumption`, `FilesAssumption`). TLC evaluates them.

### 7.1 Types and entries of the cache (`CoherentCacheProofs`)

These need no further hypothesis, so they hold with `Overtake` and in every workload.

* **TypeCorrect**, `Spec => []TypeOK`. TypeOK alone is not inductive: an answer is sent
  to `mshr.cid`, which may be NoCache. The strengthening is `Requestors`
  (`RequestorKnown`: an MSHR whose request type is not "None" has a cache as requestor).
  One lemma for each component (`L1TypeStep`, `ScuTypeStep`).
* **OnePlace**, `Spec => []LineInOnePlace`, one step for each action of `L1dBank`; `Scu`
  leaves these variables alone.
* **OneEntry** and **QueuedWritesOwned**, `Spec => []OneAgent` and `Spec => []WritesOwned`.
  Neither says enough by itself when an entry is freed or takes an answer; they are
  proved together (`EntryInvariant`).

### 7.2 Coherence of the cache (`CoherentCacheProofs`)

| Theorem | Property |
|---|---|
| SingleWriter | SWMR |
| ArrivalsMeet | ArrivalsExpected |
| RamWritesWhole | RamWriteComplete |
| SentOnce | NoOverrun (an action property) |
| RecordsTrue | RecordsRight |
| ValueKept | DataKept |
| LineImplemented | ImplementsContract (refinement) |

They have two hypotheses, and both are needed, because the code violates the properties
without them (section 6):

* `Overtake = FALSE`: no update of the directory overtakes the write-back of the next
  eviction (finding 2; section 3 says why the latencies make this likely).
* `[]NoStaleVictim`: a victim that the peek found dirty is still MODIFIED, or already
  INVALID, when it leaves (excludes finding 1). It is a condition on behaviours, so the
  theorems have the form `Spec /\ []NoStaleVictim => []P`. **VictimsCurrent** shows that
  it is a fact where no cache loads a line that another cache both writes and evicts
  (`NoForeignLoads`), and **SafeWorkload** draws the conclusion: for these workloads the
  specification alone implies all seven properties. The constants of the runs
  `coherence`, `data` and `three` are such workloads; those of `stale_victim` are not.

*The control invariant* `CohInv` is `ScuInv` and, for each cache, `CacheInv`. None of the
seven properties is inductive, since each speaks of one moment of a transaction and is
kept by what the other parties know of it.

* `ScuInv` is about the SCU alone: what a free entry contains (`FreeEntries`), that snoops
  are answered no more often than sent and only by listed caches (`SnoopLists`), what a
  request of each type still waits for and has to update (`Kinds`, `Stages`), and that a
  FIFO holds the id only of an entry with that step before it (`Fifos`).
* `CacheInv(c)` relates one cache to the SCU: what is not in use is empty (`BankInv`), how
  far its miss is for the cache and for the MSHR (`MissInv`), the same for an eviction
  (`EvictInv`) and for a snoop (`SnoopInv`), and that the directory lists what it holds, or
  during a transaction the copy of the entry in the MSHR or replacement MSHR, corrected by
  what has been answered, evicted or granted since (`DirInv`). So everything that travels
  finds its entry, which is ArrivalsExpected, and two holders of which one may write are
  never listed, which is SWMR.

CohInv is preserved by each action of `L1dBank` and of `Scu`; a step of another cache
keeps CacheInv(c) because it leaves the cells of c alone.

*The value invariant* `DataInv` says where the value of the last store is. A burst that no
cache and no message holds newer is right in the SCU (`Covered`); copies, and what a cache
sends, are current, and the SCU leaves out of an answer only bursts that the missed store
overwrites (`CopyInv`). The other parts follow the data through the SCU: an MSHR that
collects has newer data of a cache or what it started from, and the dirty bit of its
allocation (`FetchInv`); between the writes of directory and data RAM it still has what is
to be written (`UpdateInv`); a clean line of the LLC is that of memory (`CleanInv`); a
replacement has the whole line before it ends and writes a dirty one to memory
(`ReplInv`). DataInv is proved inductive on top of CohInv.

*The refinement.* `L1Contract` shows that each step of a private cache is a step of
`CoherentLine` or leaves rights, copies and value alone; `Scu` steps never touch them. A
hit maps to a read or write right that the line has because of SWMR. The refill is the
one hard case: `RefillContract` takes from the invariants that no other cache can hold a
copy that the contract forbids, and that the data that come are current. `ContractStep` puts
them together. **LineCoherent** is the invariant of the abstract line `CoherentLine`,
which the refinement carries over to the caches.

### 7.3 Units of the cache

* **SnoopFinds**, **LinesAreKept** and **SnpUniqueClears** (`L1dWays`), from `WaysInv`: no
  way above a valid line carries its tag (`Uppermost`), which needs what the refill in
  progress will do: one miss at a time (`OneMiss`), its line valid at most in the way of
  a permission miss (`MissingLine`), and what the peek found still true enough when the
  refill writes (`ChosenWay`): when all ways were taken, the tag is nowhere and the victim
  has been made INVALID; otherwise the way is still INVALID. `LastOfIsLast` is the lemma on
  the loops over the ways. `Ops` must be within ld, st and sc: LR and AMO on a SHARED line
  refill another way, and a page walk passes the set check (both in section 6).
* **LineIsWritten** and **BeatsAtHome** (on `ReplMem`, in `MCCacheUnits`), from
  `ReplInv`: the data FIFO has each entry that is not done, once (`QueueApart`), and
  while the memory controller is in a burst the entry whose address it took is the head
  of that FIFO and both count the same beats (`BurstInStep`); so the beats of the line
  up to the count are new and every other line is of one content (`LinesWhole`). One
  step is one clock; `ClockSteps` splits it by what the two channels do.
  `AddressesApart` and `AddressOfBeat` are the address arithmetic.
* **AdmittedFinds** (`ScuAlloc`), from `AllocInv`: an entry is left for each of the two
  stages, for a request one that is not kept for evictions, and a request in stage 0 leaves
  one to whatever is in stage 1 (`EntriesLeft`); by cardinalities of the sets of free
  entries.
* **WaysFound** and **UnitWriteBacks** (`MCCacheUnits`) carry the first two over to the
  composition that the run `cache_units` checks, the second for any number of entries,
  lines and beats, the first for the set of three ways it has.

### 7.4 The hart (`Traps`, `HartProofs`)

*Traps.* **TrapsReturn**, **TrapsIsolated** and **TrapsMachineFirst** state the three
properties of `Traps`, for any set of interrupts, in and out of debug mode. `TrapsInv` is
the range of the registers, and two ranges are what the proofs turn on: a trap to supervisor
mode saves a privilege that SPP, one bit, can hold, because no trap of machine mode is
delegated; and only supervisor interrupts are delegated. The proof corrected the model's
statement of MachineFirstStep: of several interrupts that are not delegated a machine one
need not be the one taken, since the table of `get_irq_num` has 9 before 1 and a delegated
and an undelegated supervisor interrupt compete. The property now says when the trap goes
to machine mode.

*Protection.* `PmpInv` says that the list of regions is what `unpack_pmpaddrs` makes of the
registers now, whatever was written first.

* **EntriesLocked**: a locked entry keeps its region although a top-of-range region begins
  at its neighbour's address.
* **LowestDecides**: the k-th region of the list is that of the k-th entry in use
  (`EntryAt`, by cardinalities of the entries in use below), the list is in the order of
  the entries, so the least place and the least entry agree, and the test for overlap finds
  a region exactly when it has a byte of the access (`OverlapExact`). The last fails for an
  empty region strictly inside an access. Regions begin and end at multiples of 4, so there
  is none inside an aligned access of 1, 2 or 4 bytes, which is the hypothesis
  `Size \subseteq {1, 2, 4}`. For wider accesses **LowestDecidesWide** has the hypothesis
  `[]NoEmptyRegion`, on the guest's entries.

*Translation.* `TlbInv` says that an entry that would hit gives the answer a walk would give
now, in this privilege and, as far as the code asks, for every part of its page
(`EntryRight`), unless the page was
edited since the last fence. Each flush of the code is needed for one action of the proof.

* **TlbTranslates** has the hypothesis `~MprvTraps`: no trap or mret in machine mode under
  MPRV, which changes the privilege of loads and stores and flushes nothing (section 6).
* **TlbFetches** (`FetchIsRight`) needs none, as MPRV does not touch fetches. An entry of the
  code TLB is made when the region that comes first of those that reach into the page permits
  it (`Fills`; `src/riscv_cpu.cpp` 210-216, 747), and the theorem says no more: a fetch is
  permitted in its own part of the page or in that of the first region. Where one region
  covers the page the two are the same; where several reach into it, a refused part may be
  fetched from (PageMeansAll in section 6).
* **TlbPermits** needs in addition that all parts of a page have one protection
  (`\A o1, o2 \in Offset : o1 = o2`). With finer regions the first access to the page
  decides for the others, also a finding.

*Memory.* **LoadsSeeStores** states the two properties of `PhysMem` for any map of two RAM
ranges and a device, overlapping or not, any sizes and alignments of accesses, and pages
where stores fault in the middle of an access. Its hypothesis is `RangesOnPages`: a range
that begins inside a page shares that page with another, of which the TLB knows one (section
6). Then all addresses of a page have the same range (`SamePage`), an aligned access stays
on its page (`OnOnePage`), and so the range found once, by lookup or kept in the TLB, is
that of every byte. `MemInv` says that a TLB entry names the range of its page, that the
page of the entry for stores is dirty, and that RAM, read through `get_phys_mem_range`,
holds what was stored last. The lemmas about one instruction follow it block by block: after
k bytes of a store, done or stopped by a fault, the bytes done are new, their pages dirty
and all others as before (`Storing`, `WritePartRight`, `ByteRight`, `WriteRight`); after k
bytes of a load those read are the last stored (`Loading`, `ReadPartRight`), and the shift
that joins two blocks picks the right ones (`ReadRight`).

*Atomics.* **ReservationsHold** states OncePerReservation and FaultsAreStores of `LrSc`, for
any harts and addresses. `ReservationInv`: a reservation that stands has not been used.

**HartAccesses** (AccessRight), **HartPrivilege** (PrivilegeKept) and **HartMemory**
(MemoryRight) carry them over to the composition that the run `hart` checks; the hypotheses
of the first and the last are met by its constants.

### 7.5 Interrupts (`MCDevices`)

**Interrupts** is `Spec => InterruptsRight`, for any numbers of harts, sources and contexts,
any source of the UART and any number of characters.

* `PlicInv`: a source that is pending while it is served was raised again meanwhile, which
  no one is told (it is `missed`, like one enabled when it was already pending), so that
  the promise of a signal is kept for the others; a served source is in the hands of one
  context. `ClaimTakes` and `SetIrqSets` are
  the lemmas on `plic_read` and `plic_set_irq`: the least source that is pending and not
  served leaves, or a line moves, and what the harts see is recomputed for one or all.
* `UartInv`: the line is up exactly for the cause the interrupt status register shows, and
  the characters the guest read, the one in the receive register and those still to come are
  the console's, in order.
* `WiredInv`: with the two wired, the source of the UART is pending only while its line is up.

### 7.6 The 9p file server (`Virtio9p`, `MCDevices`)

**FidsKeepFiles** is `Spec => [](HandlesOwned /\ FidMeansFile /\ DirHandlesAreDirs)`, for
any finite set of fids, any names, depth of the directory, numbers of inodes and
descriptors, with opens that end at once or by callback. **FilesKept** carries it over to
the two instances of the run `devices`.

`P9Inv` is `Sound`, a relation of the host's paths, kinds and descriptors to the fids, and
that a fid whose open is in progress is in use and not open. `Sound` says more than the
three properties: an open fid has a descriptor in use that no other fid has, and every
descriptor in use has such a fid; the descriptor behind a directory fid is one of a
directory; a fid that means an inode reaches it by its path and, when open, by its
descriptor. Four lemmas say what keeps it, whatever the request:

* `Released`: the descriptor of a fid is closed and its file replaced by one that is not
  open (`fs_close`, `fs_delete`, `fid_set` on a fid in use);
* `Taken`: a free descriptor is given to one fid for the inode at its path (`fs_open`,
  `fs_create`); that it is free is needed, and that the fid had none;
* `Grown`: an entry is added to the directory. Its inode may be an old one (a hard link)
  or one that no path and no descriptor has: the number of a file that was removed while
  it was open is not free yet;
* `Rearranged`: `rename` and `unlink` move or take away paths; the fids whose path lay
  under them mean nothing from then on.

There is one lemma for each request. `LcreateStep` and `WalkStep` are the long ones: a
create closes what the fid had open before it opens the new file, and when `lstat` fails
after that, the file stays and the fid is closed; a walk deletes the file of a fid that is
given again, be it the one it starts from.

### 7.7 How the invariants were found, and what is not proved

TLC checked each inductive invariant before it was proved: ScuInv, CacheInv and DataInv
on the constants of `coherence` (212,570 distinct states), on two bursts (950,457) and on
two caches that both load, store and evict, with replacement, under the constraint
NoStaleVictim (757,712); WaysInv with 3 ways, 4 lines and 2 MSHRs (1,296,848); ReplInv with
2 entries and 3 lines of 4 beats (21,457) and 3 entries and 2 lines of 2 beats (5,297);
AllocInv with 3 sets and 3 MSHRs, one of them for evictions, and 2 replacement MSHRs
(2,755,744); TrapsInv with interrupts 1 and 9 (209,231); PmpInv and the two properties with
2 entries of 3 bits and accesses of 1, 2 and 4 bytes (16,384); TlbInv and FetchIsRight with
one slot, `MprvTraps` and 2 pages of one part (566,788) or one page of 2 parts (46,402);
PlicInv, UartInv and WiredInv on the constants of `devices`; P9Inv with 2 fids, 2 names,
depth 2, 3 inodes, 2 descriptors and opens by callback (373,146); MemInv and ReservationInv on the constants of `hart`
(14,376).

Liveness and fairness are outside the prover's reach and stay with TLC (MissesComplete,
EvictionsDrain, SnoopsAnswered, EntriesFreed and the run `schedules`). So do SWMR and
DataKept with `Overtake = TRUE` (run `overtake`: lines of one burst, no replacement),
where the invariant would have to describe a write-back in the middle of the final
update. Of the emulator, what is not in 7.4 to 7.6 is model-checked only.
IntegerExact, FloatExact, TreeRight and the 9p messages (RoundTrip) are about data: they
compute results by recursion over bits, fields or lengths, and need induction over them.
The other virtio devices (RequestsRight, StreamsRight, InputRight) need it too: one
notification serves every pending chain, so `queue_notify` is a fold over the ring with the
handler of the device as its parameter. ImagesRight, CheckpointRight and TestbenchRight are
properties of transition systems that could be proved like those above, and are not;
`MCMachine` itself cannot hold theorems, because `LiveCache` has a recursive operator.

## 8 What is not modelled

The cache: stage-by-stage timing of the SCU and RAM bank conflicts; the choice of
victims (any line may be one, so PLRU does not matter); read data of AXI and bursts
other than INCR; coalescing and bypass in the store buffer (a store reaches the bank as
one masked write), the reservation table and ALU of the AMO controller, routing in the
input arbiter, the page walker's replay buffer; utilities of `rtl/util`; the EBI link;
the Ruby tester; RAM wrappers.
In `Fencei`, loads and page walks that miss are taken for the stores that miss, which
occupy an MSHR alike. A snoop's peek and take are one step, so that the take of a snoop
whose write falls into the cycle in which the flush writes the line's state, where it is
lost and its data are those of the flush, changes nothing. The directory is not there: the
flush also makes EXCLUSIVE a line that a snoop has just taken (1617), which `Fencei` does
not follow further. The dirty mask is that of the testbench's flags (`Makefile` 32-34);
without PRIVATE_CACHE_TO_SCU_DATA_WRITEBACK_DIRTY_PART_ONLY only INVALID entries are
dropped, and the others are sent whole. Critical-word-first, several RAM banks and the
non-coherent AXI arbiter are other build configurations.

The emulator: page-table levels, superpages and accessed/dirty bits; a fetch that crosses a
page; drivers of the runs queue only chains that hold the device's header (`Recv` of
`VirtioStream` has the branch for shorter ones); debug triggers; the
virtio configuration space; attributes, listings and contents of 9p files; the chunks of
goldmem's data; 128-bit formats and registers, which no build selects; the PCI bus and
i440FX bridge, which no machine of the repository creates; parsing of options and JSON;
the ELF reader; tracing and statistics; test programs; `fs.cpp`, whose helpers nothing
calls; and third-party code (`robin_hood.hpp`, hashing and random numbers). Each is a
component of `PROJECT.json` with the reason.

Liveness, and everything listed in section 4 that section 7 does not prove, is checked by
TLC on the instances of section 4 only. `LiveCache` has a recursive operator, which is
outside the prover's reach.

## 9 Plan

Done: the modules of section 2 and the proofs of section 7. Next, in this order:

1. Proofs for single parts: TickIsDue of `Clint`, CopiesInside of `BootLoad`.
2. `L1dStb`: coalescing, load bypass and eviction order, refined to a memory with a
   store queue; the AMO controller.
3. Utilities (`mp_fifo`, free lists, round-robin arbiter, age selector, PLRU) against
   reference definitions; the EBI handshake and asynchronous FIFO.
4. Page-table levels under `Tlb`; the virtio configuration space.
