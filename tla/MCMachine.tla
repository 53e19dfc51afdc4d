------------------------------ MODULE MCMachine ------------------------------
(***************************************************************************)
(* The machine around the harts of the emulator, for model checking: the   *)
(* device tree and the loading of images, checkpoints and their recovery,  *)
(* the two checkers of a design's loads and stores, and the runtime of the *)
(* testbench.  One part runs at a time; the others stand still.            *)
(***************************************************************************)
EXTENDS Integers

VARIABLES
  part,                                                               \* the part that runs
  machine, script, tab, strings, depth, fdt,                          \* Fdt
  input, ranges, step, seg, initrd, outside,                          \* BootLoad
  saved, rom, hart, phase,                                            \* Snapshot
  content, maxOrder, target,                                          \* LiveCache
  rob, pnr, gold, instid, report, prog, bound, retired,               \* GoldCore, two instances
  ram, lastData, byte, wrong, exited,                                 \* GoldInorder, two instances
  val, changed, waitSync, calling, cur, called, owed                  \* Rrvtb

Tree == INSTANCE Fdt WITH NCpus <- {1, 2, 4}, NVirtio <- {0, 1, 11}, FdtOff <- 256, RomSize <- 4096

\* RAM of four pages, and images that fill, cross and leave it
Boot == INSTANCE BootLoad WITH PageSize <- 2, RomSize <- 4, FdtOff <- 2, RamBase <- 4, RamSize <- 8,
  KernelOff <- 4, FwLen <- {1, 3, 4, 9}, KernelLen <- {0, 2, 5}, InitrdLen <- {0, 1, 2, 9},
  BootLen <- {1, 2}, FdtLen <- {2}, SegAddr <- {0, 4, 6, 8}, SegLen <- {0, 1, 2, 3}, Apart <- TRUE

Snap == INSTANCE Snapshot WITH Privs <- {0, 1, 2, 3}, FsValues <- {0, 2, 3}, Enabled <- BOOLEAN, Locks <- BOOLEAN,
  h <- hart

Live == INSTANCE LiveCache WITH Tags <- {1, 2, 4, 6, 8}, Sets <- 2, Assoc <- 3, Ways <- 2, MaxOrder <- 5

\* Stores in program order, nuked after they are safe; and merged stores in any order
Ordered == INSTANCE GoldCore WITH Addr <- {"a", "b"}, MaxInst <- 4, Tso <- TRUE, Merging <- FALSE,
  NukeSafe <- TRUE, mem <- gold
Merged == INSTANCE GoldCore WITH Addr <- {"a", "b"}, MaxInst <- 4, Tso <- FALSE, Merging <- TRUE,
  NukeSafe <- FALSE, mem <- gold

\* Plain accesses; and atomic and signed ones
Loads == INSTANCE GoldInorder WITH Harts <- {1, 2}, Addr <- {"a", "b"}, Width <- 2, Cases <- {}, last <- lastData
Amos == INSTANCE GoldInorder WITH Harts <- {1, 2}, Addr <- {"a", "b"}, Width <- 2, Cases <- {"amo", "signed"},
  last <- lastData

\* A clock-like signal 1 and signals 2 and 3: function 1 has two objects, functions 2
\* and 3 overlap with it; called functions write signal 4.
ThreeFunctions ==
  {[fn |-> 1, sigs |-> {1, 2}, obj |-> 1], [fn |-> 1, sigs |-> {2, 3}, obj |-> 2],
   [fn |-> 2, sigs |-> {1}, obj |-> 1], [fn |-> 3, sigs |-> {3}, obj |-> 1]}
Runtime == INSTANCE Rrvtb WITH NumSigs <- 4, Listeners <- ThreeFunctions, Written <- {4}

ASSUME Tree!FdtAssumption /\ Boot!BootLoadAssumption /\ Snap!SnapshotAssumption /\ Live!LiveAssumption
ASSUME Ordered!GoldAssumption /\ Merged!GoldAssumption /\ Loads!InorderAssumption /\ Amos!InorderAssumption
ASSUME Runtime!RrvtbAssumption

-----------------------------------------------------------------------------
tree == <<machine, script, tab, strings, depth, fdt>>
boot == <<input, ranges, step, seg, initrd, outside>>
snap == <<saved, rom, hart, phase>>
live == <<content, maxOrder, target>>
core == <<rob, pnr, gold, instid, report, prog, bound, retired>>
inorder == <<ram, lastData, byte, wrong, exited>>
runtime == <<val, changed, waitSync, calling, cur, called, owed>>
vars == <<part, tree, boot, snap, live, core, inorder, runtime>>

\* What has many initial states, or large ones, has an empty one while it stands still.
Init ==
  /\ part \in {"tree", "boot", "snap", "live", "ordered", "merged", "loads", "amos", "runtime"}
  /\ IF part = "tree" THEN Tree!Init
     ELSE machine = {} /\ script = {} /\ tab = {} /\ strings = {} /\ depth = 0 /\ fdt = {}
  /\ IF part = "boot" THEN Boot!Init
     ELSE input = {} /\ ranges = {} /\ step = {} /\ seg = 0 /\ initrd = {} /\ outside = FALSE
  /\ IF part = "snap" THEN Snap!Init ELSE saved = {} /\ rom = {} /\ hart = {} /\ phase = {}
  /\ IF part = "live" THEN Live!Init ELSE content = {} /\ maxOrder = 0 /\ target = {}
  /\ Ordered!Init
  /\ IF part \in {"loads", "amos"} THEN Loads!Init
     ELSE ram = {} /\ lastData = {} /\ byte = {} /\ wrong = FALSE /\ exited = {}
  /\ Runtime!Init

Next ==
  /\ UNCHANGED part
  /\ \/ part = "tree" /\ Tree!Next /\ UNCHANGED <<boot, snap, live, core, inorder, runtime>>
     \/ part = "boot" /\ Boot!Next /\ UNCHANGED <<tree, snap, live, core, inorder, runtime>>
     \/ part = "snap" /\ Snap!Next /\ UNCHANGED <<tree, boot, live, core, inorder, runtime>>
     \/ part = "live" /\ Live!Next /\ UNCHANGED <<tree, boot, snap, core, inorder, runtime>>
     \/ part = "ordered" /\ Ordered!Next /\ UNCHANGED <<tree, boot, snap, live, inorder, runtime>>
     \/ part = "merged" /\ Merged!Next /\ UNCHANGED <<tree, boot, snap, live, inorder, runtime>>
     \/ part = "loads" /\ Loads!Next /\ UNCHANGED <<tree, boot, snap, live, core, runtime>>
     \/ part = "amos" /\ Amos!Next /\ UNCHANGED <<tree, boot, snap, live, core, runtime>>
     \/ part = "runtime" /\ Runtime!Next /\ UNCHANGED <<tree, boot, snap, live, core, inorder>>

Spec == Init /\ [][Next]_vars

-----------------------------------------------------------------------------
(* Properties *)

(* A reader of the device tree that follows its lengths and offsets finds   *)
(* what was put, every interrupt has a controller and a number of its own,  *)
(* and the tree ends inside the boot ROM (riscv_build_fdt, fdt_output).     *)
TreeRight == part = "tree" => Tree!ReadsBack /\ Tree!BlocksApart /\ Tree!HandlesResolve /\ Tree!FitsRom

(* When copy_kernel succeeds the guest finds every image whole, and no copy *)
(* left its memory, whatever the lengths of the images (copy_kernel,        *)
(* load_elf_image).                                                         *)
ImagesRight == part = "boot" => Boot!ImagesWhole /\ Boot!CopiesInside

(* The recovery code of a checkpoint never traps or outgrows the ROM and    *)
(* leaves the registers of the checkpoint; the warm-up leaves the lines,    *)
(* their order and their modifications (create_boot_rom, LiveCache.cpp).    *)
CheckpointRight ==
  /\ part = "snap" => Snap!Restored /\ Snap!RecoveryRuns
  /\ part = "live" => Live!WarmupRestoresRest /\ Live!WarmupDirty

(* The memory checkers take a load to read the youngest older store,        *)
(* retire no load that read something older without a report, end at the    *)
(* first access that differs and at no plain one that agrees; the runtime   *)
(* of the testbench calls every listener of a signal that changed before it *)
(* waits again (Gold_core.cpp, Gold_mem.cpp, tb_end_of_step_cb).            *)
TestbenchRight ==
  /\ part = "ordered" => Ordered!LoadsSeeProgramOrder
  /\ part = "merged" => Merged!NoMissedStale
  /\ part = "loads" => Loads!RightLoadAccepted
  /\ part = "amos" => Amos!GoldMatchesEmulator /\ Amos!WrongLoadRejected
  /\ part = "runtime" => Runtime!ChangesAreHeard
==============================================================================
