------------------------------ MODULE NocDriver ------------------------------
(***************************************************************************)
(* The l2cpu-noc kernel driver (x280-noc/driver/l2cpu_noc.c): who owns     *)
(* which NOC window, what its TLB register holds, and which processes map  *)
(* it, across probe, ioctl, mmap, munmap, fork, close, hwmon reads and     *)
(* module unload.                                                          *)
(*                                                                         *)
(* Every ioctl, mmap, vma_close and release body runs under noc->lock, so  *)
(* each is one action.  Probe takes no lock: it is one action per window   *)
(* scanned plus one per stage.  A call that is refused (EPERM, EBUSY,      *)
(* EINVAL, ENOSPC, EOVERFLOW) changes nothing and is a stuttering step.    *)
(* The 2M and the 128G handlers are textual twins: one action serves both. *)
(***************************************************************************)
EXTENDS Integers, FiniteSets

CONSTANTS Files,            \* struct file objects, re-used after release
          Count2M,          \* WINDOW_2M_COUNT
          Count128G,        \* WINDOW_128G_COUNT
          Identity,         \* register value of a window that was reset
          UserTargets,      \* values the CONFIG ioctls write
          TelemetryTargets, \* values noc_read32 aims the driver window at
          FirmwareTarget,   \* value firmware left in the windows it uses
          IntMax,           \* INT_MAX of atomic_t
          MaxVmas,          \* bound: VMAs of one file over one window
          Env               \* which of the events below the environment does

(***************************************************************************)
(* Events no line of the driver prevents and that not every system has:    *)
(*   early_open  /dev/l2cpu-noc is opened before probe has finished        *)
(*   vma_copy    a VMA is duplicated by fork() or split by a partial munmap*)
(*   remap_fail  io_remap_pfn_range fails                                  *)
(*   late_read   a sensor is read after remove began, before devm          *)
(*               unregistered the hwmon device                             *)
(***************************************************************************)
Events == {"early_open", "vma_copy", "remap_fail", "late_read"}

ASSUME CountAssumption == Count2M \in Nat /\ Count128G \in Nat
ASSUME BoundAssumption == IntMax \in Nat /\ MaxVmas \in Nat
ASSUME EnvAssumption == Env \subseteq Events
\* noc_read32 addresses the ARC tile (8,0), and firmware's windows are the ones
\* whose register differs from its reset value, so neither is Identity.
ASSUME TargetAssumption ==
  Identity \notin TelemetryTargets \cup {FirmwareTarget}

VARIABLES phase,          \* how far l2cpu_platform_probe / _remove has got
          scanned,        \* windows scan_configured_windows has looked at
          firmware,       \* windows configured before the driver ran
          regs,           \* TLB register of each window
          reserved,       \* reserved_2M, reserved_128G
          allocated,      \* allocated_2M, allocated_128G
          driver_window,  \* {} or {the window of driver_window_id}
          hwmon,          \* the hwmon device is registered
          file,           \* life cycle of each struct file
          owned,          \* owned_2M, owned_128G of each file
          mapped_count,   \* mapped_2M_count, mapped_128G_count of each file
          vmas            \* VMAs that really exist, per file and window

probeVars == <<phase, scanned, firmware, reserved, driver_window, hwmon>>
fileVars == <<file, owned, mapped_count, vmas>>
vars == <<probeVars, regs, allocated, fileVars>>

-----------------------------------------------------------------------------
\* Windows.  A window is <<kind, id>>.
Windows == ({"2M"} \X (0..Count2M-1)) \cup ({"128G"} \X (0..Count128G-1))
OfKind(k) == {w \in Windows : w[1] = k}
Targets == {Identity, FirmwareTarget} \cup UserTargets \cup TelemetryTargets

\* find_first_zero_bit over the windows in S: the lowest id ({} when none).
FirstZero(S) == {w \in S : \A v \in S : w[2] <= v[2]}

InUseForgetsReserved == allocated
InUse == reserved \cup allocated

is_configured(w) == regs[w] # Identity

\* deallocate_*_window rewrites the register with the window's own address.
ResetRegsSkipped(S) == regs
ResetRegs(S) == [w \in Windows |-> IF w \in S THEN Identity ELSE regs[w]]

\* configure_window_2M / _128G: the register takes the new value (an address
\* that is not aligned to the window size is refused).
configure_window(w, t) == [regs EXCEPT ![w] = t]

\* noc_read32 aims the driver window at the tile and address it reads.
AimDriverWindow(t) == \E w \in driver_window : regs' = configure_window(w, t)

\* The counter test of DEALLOC.
BusyOffByOne(f, w) == mapped_count[f][w] > 1
Busy(f, w) == mapped_count[f][w] > 0

LiveFile(f) == file[f] \in {"open", "closed"}
NoCounts == [w \in Windows |-> 0]

-----------------------------------------------------------------------------
\* Module load: the driver has not run; firmware may hold any windows.
Init == /\ phase = "absent"
        /\ scanned = {}
        /\ firmware \in SUBSET Windows
        /\ regs = [w \in Windows |->
                     IF w \in firmware THEN FirmwareTarget ELSE Identity]
        /\ reserved = {}
        /\ allocated = {}
        /\ driver_window = {}
        /\ hwmon = FALSE
        /\ file = [f \in Files |-> "none"]
        /\ owned = [f \in Files |-> {}]
        /\ mapped_count = [f \in Files |-> NoCounts]
        /\ vmas = [f \in Files |-> NoCounts]

-----------------------------------------------------------------------------
\* Probe.  devm_kzalloc: the l2cpu_noc_dev is all zeros (it is shown empty while
\* the driver is absent); cdev_add and device_create make the device
\* node usable before anything was scanned.
ProbeStart ==
  /\ phase = "absent"
  /\ phase' = "scanning"
  /\ UNCHANGED <<scanned, firmware, reserved, driver_window, hwmon, regs,
                 allocated, fileVars>>

\* The loops go through the 2M windows, then through the 128G windows.
NextToScan ==
  LET todo == Windows \ scanned
  IN  IF OfKind("2M") \subseteq scanned
        THEN FirstZero(todo)
        ELSE FirstZero(todo \cap OfKind("2M"))

ProbeScanWindow(w) ==
  /\ phase = "scanning"
  /\ w \in NextToScan
  /\ scanned' = scanned \cup {w}
  /\ reserved' = IF is_configured(w) THEN reserved \cup {w} ELSE reserved
  /\ UNCHANGED <<phase, firmware, driver_window, hwmon, regs, allocated,
                 fileVars>>

ProbeInitWindowUnmarked(w) ==
  /\ phase = "scanning"
  /\ scanned = Windows
  /\ w \in FirstZero(OfKind("2M") \ reserved)
  /\ driver_window' = {w}
  /\ phase' = "windowed"
  /\ UNCHANGED <<scanned, firmware, reserved, hwmon, regs, allocated, fileVars>>

\* initialize_driver_window searches the reserved bitmap only.
ProbeInitWindow(w) ==
  /\ phase = "scanning"
  /\ scanned = Windows
  /\ w \in FirstZero(OfKind("2M") \ reserved)
  /\ driver_window' = {w}
  /\ allocated' = allocated \cup {w}
  /\ phase' = "windowed"
  /\ UNCHANGED <<scanned, firmware, reserved, hwmon, regs, fileVars>>

\* ENOSPC or ENOMEM in initialize_driver_window: the node is destroyed and
\* devm frees the l2cpu_noc_dev.  Files opened meanwhile keep a dangling
\* fd->noc: they become orphans.  Their further calls are undefined and their
\* l2cpu_noc_fd is not followed any longer (it is shown empty).
ProbeFails ==
  /\ phase = "scanning"
  /\ scanned = Windows
  /\ phase' = "absent"
  /\ file' = [f \in Files |-> IF LiveFile(f) THEN "orphan" ELSE file[f]]
  /\ owned' = [f \in Files |-> {}]
  /\ mapped_count' = [f \in Files |-> NoCounts]
  /\ vmas' = [f \in Files |-> NoCounts]
  /\ allocated' = {}
  /\ reserved' = {}
  /\ scanned' = {}
  /\ UNCHANGED <<firmware, driver_window, hwmon, regs>>

\* initialize_hwmon reads ARC through the driver window even when it then
\* gives up (ok = FALSE); probe ignores its result.
ProbeInitHwmon(t, ok) ==
  /\ phase = "windowed"
  /\ AimDriverWindow(t)
  /\ hwmon' = ok
  /\ phase' = "live"
  /\ UNCHANGED <<scanned, firmware, reserved, driver_window, allocated,
                 fileVars>>

\* l2cpu_hwmon_read -> noc_read32.  devm unregisters the hwmon device only
\* after l2cpu_platform_remove has returned.
HwmonRead(t) ==
  /\ hwmon
  /\ phase = "removing" => "late_read" \in Env
  /\ AimDriverWindow(t)
  /\ UNCHANGED <<probeVars, allocated, fileVars>>

\* Module unload: chardev_fops.owner pins the module while a file is open.
RemoveDealloc ==
  /\ phase = "live"
  /\ \A f \in Files : file[f] = "none"
  /\ allocated' = {}
  /\ regs' = ResetRegs(allocated)
  /\ phase' = "removing"
  /\ UNCHANGED <<scanned, firmware, reserved, driver_window, hwmon, fileVars>>

\* devm releases hwmon, mappings and the l2cpu_noc_dev.
RemoveDone ==
  /\ phase = "removing"
  /\ phase' = "absent"
  /\ hwmon' = FALSE
  /\ driver_window' = {}
  /\ reserved' = {}
  /\ scanned' = {}
  /\ UNCHANGED <<firmware, regs, allocated, fileVars>>

-----------------------------------------------------------------------------
\* File operations.
Open(f) ==
  /\ file[f] = "none"
  /\ \/ phase = "live"
     \/ phase \in {"scanning", "windowed"} /\ "early_open" \in Env
  /\ file' = [file EXCEPT ![f] = "open"]
  /\ UNCHANGED <<probeVars, regs, allocated, owned, mapped_count, vmas>>

AllocUnmarked(f, k, w) ==
  /\ file[f] = "open"
  /\ w \in FirstZero(OfKind(k) \ InUse)
  /\ owned' = [owned EXCEPT ![f] = @ \cup {w}]
  /\ UNCHANGED <<probeVars, regs, allocated, file, mapped_count, vmas>>

AllocWindow(f, k, w) ==
  /\ file[f] = "open"
  /\ w \in FirstZero(OfKind(k) \ InUse)
  /\ allocated' = allocated \cup {w}
  /\ owned' = [owned EXCEPT ![f] = @ \cup {w}]
  /\ UNCHANGED <<probeVars, regs, file, mapped_count, vmas>>

\* copy_to_user fails: the window is deallocated again, register included.
AllocFault(f, k, w) ==
  /\ file[f] = "open"
  /\ w \in FirstZero(OfKind(k) \ InUse)
  /\ allocated' = allocated \ {w}
  /\ regs' = ResetRegs({w})
  /\ UNCHANGED <<probeVars, fileVars>>

ConfigWindow(f, w, t) ==
  /\ file[f] = "open"
  /\ w \in owned[f]
  /\ regs' = configure_window(w, t)
  /\ UNCHANGED <<probeVars, allocated, fileVars>>

DeallocKeepsOwnedBit(f, w) ==
  /\ file[f] = "open"
  /\ w \in owned[f]
  /\ ~ Busy(f, w)
  /\ allocated' = allocated \ {w}
  /\ regs' = ResetRegs({w})
  /\ UNCHANGED <<probeVars, fileVars>>

DeallocWindow(f, w) ==
  /\ file[f] = "open"
  /\ w \in owned[f]
  /\ ~ Busy(f, w)
  /\ owned' = [owned EXCEPT ![f] = @ \ {w}]
  /\ allocated' = allocated \ {w}
  /\ regs' = ResetRegs({w})
  /\ UNCHANGED <<probeVars, file, mapped_count, vmas>>

MmapUnchecked(f, w, ok) ==
  /\ file[f] = "open"
  /\ w \in owned[f]
  /\ vmas[f][w] < MaxVmas
  /\ ok \/ "remap_fail" \in Env
  /\ mapped_count' = [mapped_count EXCEPT ![f][w] = @ + 1]
  /\ vmas' = IF ok THEN [vmas EXCEPT ![f][w] = @ + 1] ELSE vmas
  /\ UNCHANGED <<probeVars, regs, allocated, file, owned>>

\* The counter is bumped whether or not io_remap_pfn_range succeeded, but the
\* kernel keeps the VMA (and later calls vma_close) only if it did.  At INT_MAX
\* the increment wraps, is undone, and mmap fails with EOVERFLOW.
Mmap(f, w, ok) ==
  /\ file[f] = "open"
  /\ w \in owned[f]
  /\ mapped_count[f][w] < IntMax
  /\ vmas[f][w] < MaxVmas
  /\ ok \/ "remap_fail" \in Env
  /\ mapped_count' = [mapped_count EXCEPT ![f][w] = @ + 1]
  /\ vmas' = IF ok THEN [vmas EXCEPT ![f][w] = @ + 1] ELSE vmas
  /\ UNCHANGED <<probeVars, regs, allocated, file, owned>>

VmaCloseClears(f, w) ==
  /\ LiveFile(f)
  /\ vmas[f][w] > 0
  /\ vmas' = [vmas EXCEPT ![f][w] = @ - 1]
  /\ mapped_count' = [mapped_count EXCEPT ![f][w] = 0]
  /\ UNCHANGED <<probeVars, regs, allocated, file, owned>>

\* l2cpu_vma_close: atomic_dec_if_positive.
VmaClose(f, w) ==
  /\ LiveFile(f)
  /\ vmas[f][w] > 0
  /\ vmas' = [vmas EXCEPT ![f][w] = @ - 1]
  /\ mapped_count' = [mapped_count EXCEPT ![f][w] = IF @ > 0 THEN @ - 1 ELSE @]
  /\ UNCHANGED <<probeVars, regs, allocated, file, owned>>

\* fork() or a VMA split: l2cpu_vm_ops has no .open, so nothing is counted.
VmaCopy(f, w) ==
  /\ "vma_copy" \in Env
  /\ LiveFile(f)
  /\ vmas[f][w] \in 1..MaxVmas-1
  /\ vmas' = [vmas EXCEPT ![f][w] = @ + 1]
  /\ UNCHANGED <<probeVars, regs, allocated, file, owned, mapped_count>>

\* The last descriptor goes away.  VMAs hold a reference to the struct file,
\* so release runs when they are gone too.
Close(f) ==
  /\ file[f] = "open"
  /\ file' = [file EXCEPT ![f] = "closed"]
  /\ UNCHANGED <<probeVars, regs, allocated, owned, mapped_count, vmas>>

Release(f) ==
  /\ file[f] = "closed"
  /\ vmas[f] = NoCounts
  /\ file' = [file EXCEPT ![f] = "none"]
  /\ allocated' = allocated \ owned[f]
  /\ regs' = ResetRegs(owned[f])
  /\ owned' = [owned EXCEPT ![f] = {}]
  /\ mapped_count' = [mapped_count EXCEPT ![f] = NoCounts]
  /\ UNCHANGED <<probeVars, vmas>>

-----------------------------------------------------------------------------
ProbeStep ==
  \/ ProbeStart
  \/ \E w \in Windows : ProbeScanWindow(w)
  \/ \E w \in Windows : ProbeInitWindow(w)
  \/ ProbeFails
  \/ \E t \in TelemetryTargets, ok \in BOOLEAN : ProbeInitHwmon(t, ok)

RemoveStep == RemoveDealloc \/ RemoveDone

FileStep(f) ==
  \/ Open(f)
  \/ Close(f)
  \/ Release(f)
  \/ \E k \in {"2M", "128G"}, w \in Windows : AllocWindow(f, k, w)
  \/ \E k \in {"2M", "128G"}, w \in Windows : AllocFault(f, k, w)
  \/ \E w \in Windows, t \in UserTargets : ConfigWindow(f, w, t)
  \/ \E w \in Windows : DeallocWindow(f, w)
  \/ \E w \in Windows, ok \in BOOLEAN : Mmap(f, w, ok)
  \/ \E w \in Windows : VmaClose(f, w)
  \/ \E w \in Windows : VmaCopy(f, w)

Next == \/ ProbeStep
        \/ RemoveStep
        \/ \E t \in TelemetryTargets : HwmonRead(t)
        \/ \E f \in Files : FileStep(f)

Spec == Init /\ [][Next]_vars

-----------------------------------------------------------------------------
\* debugfs "stats": the "free" line (where this is negative the unsigned
\* subtraction wraps).
StatsFree(k) ==
  Cardinality(OfKind(k)) - Cardinality(allocated \cap OfKind(k))
                         - Cardinality(reserved \cap OfKind(k))

-----------------------------------------------------------------------------
(***************************************************************************)
(* Properties.                                                             *)
(***************************************************************************)

\* Types of the driver's state; the mmap counter stays within an int.
TypeOK ==
  /\ phase \in {"absent", "scanning", "windowed", "live", "removing"}
  /\ scanned \subseteq Windows
  /\ firmware \subseteq Windows
  /\ regs \in [Windows -> Targets]
  /\ reserved \subseteq Windows
  /\ allocated \subseteq Windows
  /\ driver_window \subseteq OfKind("2M")
  /\ hwmon \in BOOLEAN
  /\ file \in [Files -> {"none", "open", "closed", "orphan"}]
  /\ owned \in [Files -> SUBSET Windows]
  /\ mapped_count \in [Files -> [Windows -> 0..IntMax]]
  /\ vmas \in [Files -> [Windows -> 0..MaxVmas]]

\* Two live files never own the same window (the allocated bitmap, the owned
\* bitmaps and the ioctl checks together), whatever the environment does.
ExclusiveOwnership ==
  \A f, g \in Files :
    f # g /\ LiveFile(f) /\ LiveFile(g) => owned[f] \cap owned[g] = {}

\* Header comment, l2cpu_noc.c:16: the telemetry window is the driver's own.
\* No file owns it, and no allocation can return it while the driver uses it.
DriverWindowDedicated ==
  phase # "removing" =>
    \A w \in driver_window :
      /\ w \in allocated
      /\ \A f \in Files : w \notin owned[f]

\* scan_configured_windows: windows firmware uses are kept from allocation, so
\* nothing the driver does ever rewrites their registers.
FirmwareUntouched ==
  \A w \in firmware : w \notin allocated /\ regs[w] = FirmwareTarget

\* Conversely the scan takes no window that firmware does not use, not even
\* after the driver was unloaded and loaded again: nothing the previous
\* instance aimed is left behind (l2cpu_platform_remove, "cleans up").
ReservedIsFirmware == reserved \subseteq firmware

\* The allocated bitmap is exactly what the driver and the files hold, so no
\* window leaks through the EFAULT path, dealloc, close or unload.
AllocatedIffHeld ==
  allocated = (IF phase = "removing" THEN {} ELSE driver_window)
              \cup UNION {owned[f] : f \in Files}

\* A window nobody holds aims at itself: whoever allocates it next does not
\* inherit the previous owner's target.
FreeWindowsIdentity ==
  phase \in {"windowed", "live"} =>
    \A w \in Windows \ InUse : regs[w] = Identity

\* A window that is mapped in some process belongs to the file it was mapped
\* through: DEALLOC before munmap and close before munmap cannot pull it away
\* (tests test_deallocating_before_unmap, test_closing_fd_before_unmap).
MappedImpliesOwned ==
  \A f \in Files, w \in Windows :
    LiveFile(f) /\ vmas[f][w] > 0 => w \in owned[f]

\* The reference count never underflows in l2cpu_vma_close ("this should never
\* happen"): while a VMA exists the count is positive.
NoUnderflow ==
  \A f \in Files, w \in Windows :
    LiveFile(f) /\ vmas[f][w] > 0 => mapped_count[f][w] > 0

\* @mapped_2M_count is the "mmap reference count": it counts the VMAs, so a
\* window with no mapping left can be deallocated.
RefcountExact ==
  \A f \in Files : LiveFile(f) => mapped_count[f] = vmas[f]

\* Whatever a file owns is marked allocated and the count of an unowned window
\* is zero, so the window's next owner starts with a clean count.
OwnedIsAllocated ==
  \A f \in Files :
    LiveFile(f) => /\ owned[f] \subseteq allocated
                   /\ \A w \in Windows : mapped_count[f][w] > 0 => w \in owned[f]

\* The "free" numbers that debugfs shows are the windows ALLOC can still give.
StatsAddUp ==
  phase \in {"windowed", "live"} =>
    \A k \in {"2M", "128G"} : StatsFree(k) = Cardinality(OfKind(k) \ InUse)

-----------------------------------------------------------------------------
(***************************************************************************)
(* Inductive invariants, used by NocDriverProofs.                          *)
(***************************************************************************)

\* l2cpu_cdev_open kzallocs the fd and release frees it: a file that is not
\* live owns and maps nothing.
IdleFilesEmpty ==
  \A f \in Files : ~ LiveFile(f) => /\ owned[f] = {}
                                    /\ mapped_count[f] = NoCounts
                                    /\ vmas[f] = NoCounts

\* Ownership, in every environment.
OwnershipInv ==
  TypeOK /\ IdleFilesEmpty /\ OwnedIsAllocated /\ ExclusiveOwnership

\* Every VMA was counted (a failed remap may have counted one too many).
CountsCoverVmas ==
  \A f \in Files, w \in Windows : vmas[f][w] <= mapped_count[f][w]

\* The device node exists only once probe is done, and nothing of a previous
\* instance is left when probe starts.
ProbeOrder ==
  /\ phase # "live" => \A f \in Files : file[f] = "none"
  /\ phase \in {"absent", "scanning"} => driver_window = {}
  /\ hwmon => phase \in {"live", "removing"}
  /\ phase = "absent" => scanned = {}
  /\ phase \in {"windowed", "live", "removing"} => scanned = Windows
  /\ phase \in {"windowed", "live"} => driver_window # {}

\* What is scanned is classified right, and a window that neither firmware nor
\* the driver nor a file uses is in its reset state, in every phase.
Classified ==
  /\ reserved = firmware \cap scanned
  /\ \A w \in Windows \ (firmware \cup allocated) : regs[w] = Identity

\* Bookkeeping, when nobody opens the device early and no sensor is read late.
BookkeepingInv ==
  /\ OwnershipInv
  /\ ProbeOrder
  /\ Classified
  /\ FirmwareUntouched
  /\ AllocatedIffHeld
  /\ DriverWindowDedicated

-----------------------------------------------------------------------------
\* Refinement: the driver implements the window pool.  The holders of a window
\* are read off the bitmaps, firmware's claim off the initial registers.
Holder(w) ==
  (IF w \in firmware THEN {"firmware"} ELSE {})
  \cup (IF phase # "removing" /\ w \in driver_window THEN {"driver"} ELSE {})
  \cup {f \in Files : w \in owned[f]}

Pool == INSTANCE WindowPool
          WITH Windows <- Windows, Parties <- Files \cup {"driver"},
               Firmware <- "firmware", Targets <- Targets, Identity <- Identity,
               holder <- [w \in Windows |-> Holder(w)],
               target <- regs,
               mapped <- {w \in Windows : \E f \in Files : vmas[f][w] > 0}

\* The driver implements WindowPool: exclusive holders, only the holder aims,
\* nothing is surrendered while mapped, and what is surrendered is reset.
PoolSpec == Pool!Spec
=============================================================================
